-------------------------------- MODULE Http --------------------------------
(***************************************************************************)
(* One HttpConn of WebServer-master/code/http and the client it serves:    *)
(* read() into the read buffer, the parser of httprequest.cpp, the         *)
(* response of httpresponse.cpp, the scatter write of write(), and the     *)
(* OnRead_, OnProcess and OnWrite_ that call them.  EPOLLONESHOT gives the *)
(* connection to one thread at a time (module WebServer), so the thread is *)
(* not named.  Timers are left to WebServer: none expires here.            *)
(*                                                                         *)
(* A byte stands for a piece of text that the code does not look into:     *)
(* "GET" for "GET ", a path for "/path HTTP/", "1.1", a header field, a     *)
(* body, "cr" and "lf".  Every piece may be separated from the next on the *)
(* way.  In the code one piece is several bytes, except "cr" and "lf".     *)
(***************************************************************************)
EXTENDS Integers, Sequences, Buffer

CONSTANTS
  Scripts,      \* what a client may send: the bytes and the ends of its messages
  PoliteScripts,\* GET requests, with the files of the server that they ask for
  LaterScripts, \* bound: those of the connections after the first
  Files,        \* path -> its kind in the file system and its data
  Flaky,        \* the paths for which open() may fail
  InitBuffSize, \* of both buffers (1024)
  Stack,        \* size of ReadFd's array on the stack (65535)
  LowWater,     \* 10240 in write()
  MaxConns      \* bound: connections that the object serves one after another

ASSUME SizesAssumption == /\ InitBuffSize \in Nat /\ Stack \in Nat \ {0}
                          /\ LowWater \in Nat /\ MaxConns \in Nat

VARIABLES
  \* the client and the socket
  script, polite,  \* what it sends, and whether it waits for its answers
  sentN,           \* bytes sent
  readN,           \* bytes of them that the server has read
  got,             \* bytes received
  eof,             \* the client has gone
  full,            \* the send buffer is full
  \* the server
  pc,              \* "in" and "out" are armed registrations; else the function
  isET,
  readBuff_, writeBuff_, request_, response_, iov_,
  \* history
  conns,           \* connections served so far
  told             \* the responses begun, as they should reach the client

clientVars == <<script, polite, sentN, eof>>
connVars == <<readBuff_, writeBuff_, request_, response_, iov_>>
vars == <<clientVars, readN, got, full, pc, isET, connVars, conns, told>>

Wire == script.bytes

-----------------------------------------------------------------------------
(* httprequest.cpp                                                         *)

Methods == {"GET", "POST"}
Fields == {"KA", "form", "field"}   \* Connection: keep-alive, Content-Type: ...urlencoded, another
DEFAULT_HTML == [p \in {"/index", "/register", "/login"} |->
                   CASE p = "/index" -> "/index.html"
                     [] p = "/register" -> "/register.html"
                     [] p = "/login" -> "/login.html"]
DEFAULT_HTML_TAG == {"/register.html", "/login.html"}
Paths == DOMAIN Files \cup DOMAIN DEFAULT_HTML \cup {"/", "/none"}

RequestInit == [method_ |-> "", path_ |-> "", version_ |-> "", header_ |-> {},
                state_ |-> "REQUEST_LINE"]

IsKeepAlive(req) == "KA" \in req.header_ /\ req.version_ = "1.1"

ParsePath_(p) == IF p = "/" THEN "/index.html"
                 ELSE IF p \in DOMAIN DEFAULT_HTML THEN DEFAULT_HTML[p] ELSE p

\* The version is [^ ]*: it may be missing, cut off by the end of what was read,
\* and a stray \r or \n becomes a part of it.
IsRequestLine(line) ==
  /\ Len(line) >= 2
  /\ line[1] \in Methods /\ line[2] \in Paths
  /\ \A i \in 3..Len(line) : line[i] \in {"1.1", "cr", "lf"}

ParseRequestLine_(req, line) ==
  [req EXCEPT !.method_ = line[1], !.path_ = ParsePath_(line[2]), !.state_ = "HEADERS",
              !.version_ = IF line = <<line[1], line[2], "1.1">> THEN "1.1" ELSE "other"]

\* The value is .*, which stops at a \r or \n: then nothing matches.
IsHeader(line) ==
  \E i \in 1..Len(line) : /\ line[i] \in Fields
                          /\ \A j \in 1..i - 1 : line[j] \notin Fields
                          /\ \A j \in i..Len(line) : line[j] \notin {"cr", "lf"}

ParseHeader_(req, line) ==
  IF IsHeader(line) THEN [req EXCEPT !.header_ = @ \cup (IF Len(line) = 1 THEN {line[1]} ELSE {})]
                    ELSE [req EXCEPT !.state_ = "BODY"]

\* verified is what UserVerify returns.
ParsePost_(req, verified) ==
  IF req.method_ = "POST" /\ "form" \in req.header_ /\ req.path_ \in DEFAULT_HTML_TAG
  THEN IF verified THEN "/welcome.html" ELSE "/error.html"
  ELSE req.path_

ParseBody_(req, verified) ==
  [req EXCEPT !.path_ = ParsePost_(req, verified), !.state_ = "FINISH"]

-----------------------------------------------------------------------------
(* httpresponse.cpp                                                        *)

NoFile == ""    \* mmFile_ is null

Kind(p) == IF p = "" THEN "dir" ELSE IF p \in DOMAIN Files THEN Files[p].kind ELSE "none"
Data(p) == Files[p].data
FileLen(p) == IF Kind(p) = "none" THEN 0 ELSE Len(Data(p))

CODE_PATH == [c \in {"400", "403", "404"} |->
                CASE c = "400" -> "/400.html" [] c = "403" -> "/403.html"
                  [] c = "404" -> "/404.html"]

ErrorHtml_(code, p) == IF code \in DOMAIN CODE_PATH THEN CODE_PATH[code] ELSE p

\* The status of a request for p, given the one that process() asked for.
StatusOf(p, code) == CASE Kind(p) \in {"none", "dir"} -> "404"
                       [] Kind(p) = "private" -> "403"
                       [] OTHER -> code

CanOpen(p) == IF Kind(p) = "none" THEN {FALSE} ELSE IF p \in Flaky THEN BOOLEAN ELSE {TRUE}

\* What a client should receive of a response.
Due(response, opened) ==
  <<response.code_, IF response.isKeepAlive_ THEN "keep-alive" ELSE "close", "length">>
    \o (IF opened THEN Data(response.path_) ELSE <<"error">>)

-----------------------------------------------------------------------------
(* What the buffers and the files are made of.                             *)

Byte == Methods \cup Paths \cup Fields \cup {"1.1", "cr", "lf", "text", NUL}
          \cup {"200", "keep-alive", "close", "length", "error"} \cup DOMAIN CODE_PATH
FileByte == UNION {{Data(p)[i] : i \in DOMAIN Data(p)} : p \in DOMAIN Files}

ASSUME BytesAssumption ==
  /\ \A s \in Scripts \cup PoliteScripts \cup LaterScripts : s.bytes \in Seq(Byte)
  /\ \A p \in DOMAIN Files : Data(p) \in Seq(FileByte)

-----------------------------------------------------------------------------
(* httpconn.cpp                                                            *)

NoResponse == [code_ |-> "-1", path_ |-> "", isKeepAlive_ |-> FALSE, mmFile_ |-> NoFile]

ToWriteBytes(v) == v.len0 + v.len1

Init ==
  /\ script = [bytes |-> <<>>, ends |-> {}, asks |-> <<>>] /\ polite = FALSE /\ sentN = 0 /\ readN = 0 /\ got = <<>>
  /\ eof = FALSE /\ full = FALSE
  /\ pc = "closed" /\ conns = 0 /\ told = <<>>
  /\ isET \in BOOLEAN
  /\ readBuff_ = Buffer(InitBuffSize) /\ writeBuff_ = Buffer(InitBuffSize)
  /\ request_ = RequestInit /\ response_ = NoResponse
  \* iov_ is not initialised: a response without a file leaves iov_[1] as it was.
  /\ \E garbage \in 0..1 :
       iov_ = [base0 |-> 0, len0 |-> 0, file |-> NoFile, base1 |-> 0, len1 |-> garbage, cnt |-> 0]

\* A new connection gets the object: users_[fd].init(), and EPOLLIN is registered.
init ==
  /\ pc = "closed" /\ conns < MaxConns
  /\ conns' = conns + 1
  /\ polite' \in (IF conns = 0 THEN BOOLEAN ELSE {FALSE})
  /\ script' \in (IF polite' THEN PoliteScripts ELSE IF conns = 0 THEN Scripts ELSE LaterScripts)
  /\ sentN' = 0 /\ readN' = 0 /\ got' = <<>> /\ told' = <<>>
  /\ eof' = FALSE /\ full' = FALSE
  /\ readBuff_' = RetrieveAll(readBuff_) /\ writeBuff_' = RetrieveAll(writeBuff_)
  /\ pc' = "in"
  /\ UNCHANGED <<isET, request_, response_, iov_>>

\* CloseConn_: the descriptor leaves epoll, HttpConn::Close() unmaps and closes.
Close == /\ pc' = "closed"
         /\ response_' = [response_ EXCEPT !.mmFile_ = NoFile]

CloseOnHup ==
  /\ pc \in {"in", "out"} /\ eof
  /\ Close
  /\ UNCHANGED <<clientVars, readN, got, full, isET, readBuff_, writeBuff_, request_,
                 iov_, conns, told>>

DealRead_ ==
  /\ pc = "in" /\ ~eof /\ readN < sentN
  /\ pc' = "read"
  /\ UNCHANGED <<clientVars, readN, got, full, isET, connVars, conns, told>>

DealWrite_ ==
  /\ pc = "out" /\ ~eof /\ ~full
  /\ pc' = "write"
  /\ UNCHANGED <<clientVars, readN, got, full, isET, connVars, conns, told>>

\* One call of ReadFd in read(), with OnRead_ when it is the last.
read ==
  /\ pc = "read"
  /\ IF readN < sentN
     THEN LET room == WritableBytes(readBuff_) + Stack
              len == IF sentN - readN < room THEN sentN - readN ELSE room
          IN  /\ readBuff_' = ReadFd(readBuff_, SubSeq(Wire, readN + 1, readN + len))
              /\ readN' = readN + len
              /\ pc' = IF isET THEN "read" ELSE "process"
              /\ UNCHANGED response_
     ELSE /\ IF eof THEN Close ELSE pc' = "process" /\ UNCHANGED response_
          /\ UNCHANGED <<readBuff_, readN>>
  /\ UNCHANGED <<clientVars, got, full, isET, writeBuff_, request_, iov_, conns, told>>

\* process() begins: with nothing to read, OnProcess registers EPOLLIN.
process ==
  /\ pc = "process"
  /\ request_' = RequestInit
  /\ pc' = IF ReadableBytes(readBuff_) = 0 THEN "in" ELSE "parse"
  /\ UNCHANGED <<clientVars, readN, got, full, isET, readBuff_, writeBuff_, response_,
                 iov_, conns, told>>

\* Mutant: a CRLF that ends the buffer is not found.
LineEndShort(b) ==
  LET isEnd(p) == b.buffer_[p + 1] = "cr" /\ b.buffer_[p + 2] = "lf"
      ends == {p \in b.readPos_ .. b.writePos_ - 3 : isEnd(p)}
  IN  IF ends = {} THEN b.writePos_ ELSE CHOOSE p \in ends : \A q \in ends : p <= q

\* Where the line ends: at the first CRLF, or where the buffer does.
LineEnd(b) ==
  LET isEnd(p) == b.buffer_[p + 1] = "cr" /\ b.buffer_[p + 2] = "lf"
      ends == {p \in b.readPos_ .. b.writePos_ - 2 : isEnd(p)}
  IN  IF ends = {} THEN b.writePos_ ELSE CHOOSE p \in ends : \A q \in ends : p <= q

\* One line in parse().
parse ==
  /\ pc = "parse"
  /\ LET lineEnd == LineEnd(readBuff_)
         line == BytesAt(readBuff_, readBuff_.readPos_, lineEnd - readBuff_.readPos_)
         Goon(req) ==
           LET rest == IF lineEnd = readBuff_.writePos_ THEN readBuff_
                       ELSE RetrieveUntil(readBuff_, lineEnd + 2)
           IN  /\ request_' = req
               /\ readBuff_' = rest
               /\ pc' = IF \/ lineEnd = readBuff_.writePos_
                           \/ ReadableBytes(rest) = 0 \/ req.state_ = "FINISH"
                        THEN "good" ELSE "parse"
     IN  \/ /\ request_.state_ = "REQUEST_LINE" /\ IsRequestLine(line)
            /\ Goon(ParseRequestLine_(request_, line))
         \/ /\ request_.state_ = "REQUEST_LINE" /\ ~IsRequestLine(line)
            /\ pc' = "bad" /\ UNCHANGED <<request_, readBuff_>>
         \/ /\ request_.state_ = "HEADERS"
            /\ LET req == ParseHeader_(request_, line) IN
               Goon(IF ReadableBytes(readBuff_) <= 2 THEN [req EXCEPT !.state_ = "FINISH"] ELSE req)
         \/ /\ request_.state_ = "BODY"
            /\ \E verified \in BOOLEAN : Goon(ParseBody_(request_, verified))
  /\ UNCHANGED <<clientVars, readN, got, full, isET, writeBuff_, response_, iov_, conns, told>>

\* process() goes on with HttpResponse::Init, and MakeResponse looks for the file.
MakeResponse ==
  /\ pc \in {"good", "bad"}
  /\ LET code == StatusOf(request_.path_, IF pc = "good" THEN "200" ELSE "400")
     IN  response_' = [code_ |-> code, path_ |-> ErrorHtml_(code, request_.path_),
                       isKeepAlive_ |-> pc = "good" /\ IsKeepAlive(request_),
                       mmFile_ |-> NoFile]
  /\ pc' = "AddStateLine_"
  /\ UNCHANGED <<clientVars, readN, got, full, isET, readBuff_, writeBuff_, request_, iov_,
                 conns, told>>

AddStateLine_ ==
  /\ pc = "AddStateLine_"
  /\ writeBuff_' = AppendBytes(writeBuff_, <<response_.code_>>)
  /\ pc' = "AddHeader_"
  /\ UNCHANGED <<clientVars, readN, got, full, isET, readBuff_, request_, response_, iov_,
                 conns, told>>

AddHeader_ ==
  /\ pc = "AddHeader_"
  /\ writeBuff_' = AppendBytes(writeBuff_, <<IF response_.isKeepAlive_ THEN "keep-alive"
                                                                      ELSE "close">>)
  /\ pc' = "AddContent_"
  /\ UNCHANGED <<clientVars, readN, got, full, isET, readBuff_, request_, response_, iov_,
                 conns, told>>

\* The vectors of the response; without a file iov_[1] is left as it was.
IovOf(b, p, opened) ==
  LET head == [iov_ EXCEPT !.base0 = b.readPos_, !.len0 = ReadableBytes(b), !.cnt = 1]
  IN  IF opened THEN [head EXCEPT !.file = p, !.base1 = 0, !.len1 = FileLen(p), !.cnt = 2]
                ELSE head

\* open() may fail; then ErrorContent stands in for the file.  The end of
\* process(), and of OnProcess: EPOLLOUT is registered.
AddContent_ ==
  /\ pc = "AddContent_"
  /\ \E opened \in CanOpen(response_.path_) :
       LET tail == IF opened THEN <<"length">> ELSE <<"length", "error">> IN
       /\ writeBuff_' = AppendBytes(writeBuff_, tail)
       /\ response_' = [response_ EXCEPT !.mmFile_ = IF opened THEN response_.path_ ELSE NoFile]
       /\ iov_' = IovOf(writeBuff_', response_.path_, opened)
       /\ told' = told \o Due(response_, opened)
  /\ pc' = "out"
  /\ UNCHANGED <<clientVars, readN, got, full, isET, readBuff_, request_, conns>>

\* The bytes that writev() takes from memory; what is not mapped is not a file's.
Gathered ==
  BytesAt(writeBuff_, iov_.base0, iov_.len0)
    \o (IF iov_.cnt = 2
        THEN [i \in 1..iov_.len1 |->
                IF iov_.file # NoFile /\ iov_.file = response_.mmFile_
                   /\ iov_.base1 + i <= FileLen(iov_.file)
                THEN Data(iov_.file)[iov_.base1 + i] ELSE NUL]
        ELSE <<>>)

\* Mutant: the file's pointer stays when part of the file has been sent.
AdvanceLength(len) ==
  IF len > iov_.len0
  THEN /\ iov_' = [iov_ EXCEPT !.len1 = @ - (len - iov_.len0), !.len0 = 0]
       /\ writeBuff_' = IF iov_.len0 # 0 THEN RetrieveAll(writeBuff_) ELSE writeBuff_
  ELSE /\ iov_' = [iov_ EXCEPT !.base0 = @ + len, !.len0 = @ - len]
       /\ writeBuff_' = Retrieve(writeBuff_, len)

\* The vectors and the write buffer after writev() has taken len bytes.
Advance(len) ==
  IF len > iov_.len0
  THEN /\ iov_' = [iov_ EXCEPT !.base1 = @ + (len - iov_.len0), !.len1 = @ - (len - iov_.len0),
                               !.len0 = 0]
       /\ writeBuff_' = IF iov_.len0 # 0 THEN RetrieveAll(writeBuff_) ELSE writeBuff_
  ELSE /\ iov_' = [iov_ EXCEPT !.base0 = @ + len, !.len0 = @ - len]
       /\ writeBuff_' = Retrieve(writeBuff_, len)

\* Mutant: every connection whose response is sent is read again.
OnWriteKept(toWrite, again) ==
  IF toWrite = 0 THEN pc' = "process" /\ UNCHANGED response_
  ELSE IF again THEN pc' = "out" /\ UNCHANGED response_
  ELSE Close

\* Mutant: a full send buffer closes the connection.
OnWriteGivesUp(toWrite, again) ==
  IF toWrite = 0 /\ IsKeepAlive(request_) THEN pc' = "process" /\ UNCHANGED response_
  ELSE Close

\* OnWrite_ after write() has returned, again says that errno is EAGAIN.
OnWrite_(toWrite, again) ==
  IF toWrite = 0 /\ IsKeepAlive(request_) THEN pc' = "process" /\ UNCHANGED response_
  ELSE IF toWrite # 0 /\ again THEN pc' = "out" /\ UNCHANGED response_
  ELSE Close

\* One writev() in write().
Writev ==
  /\ pc = "write" /\ Gathered # <<>> /\ ~full
  /\ \E len \in 1..Len(Gathered) :
       /\ got' = got \o SubSeq(Gathered, 1, len)
       /\ full' = (len < Len(Gathered))
       /\ Advance(len)
       /\ IF isET \/ ToWriteBytes(iov_') > LowWater
          THEN pc' = "write" /\ UNCHANGED response_
          ELSE OnWrite_(ToWriteBytes(iov_'), FALSE)
  /\ UNCHANGED <<clientVars, readN, isET, readBuff_, request_, conns, told>>

\* writev() with nothing to take returns 0; when it fails, errno says why.
WritevEnds ==
  /\ pc = "write"
  /\ \/ Gathered = <<>> /\ OnWrite_(ToWriteBytes(iov_), FALSE)
     \/ Gathered # <<>> /\ full /\ OnWrite_(ToWriteBytes(iov_), TRUE)
     \/ Gathered # <<>> /\ eof /\ OnWrite_(ToWriteBytes(iov_), FALSE)
  /\ UNCHANGED <<clientVars, readN, got, full, isET, readBuff_, writeBuff_, request_,
                 iov_, conns, told>>

-----------------------------------------------------------------------------
(* The client.                                                             *)

\* A polite client sends its next request whole, when it has its answers.
Send ==
  /\ pc # "closed" /\ ~eof
  /\ \E n \in sentN + 1 .. Len(Wire) :
       /\ polite => /\ n \in script.ends /\ \A m \in script.ends : m <= sentN \/ n <= m
                    /\ readN = sentN /\ pc = "in" /\ got = told
       /\ sentN' = n
  /\ UNCHANGED <<script, polite, readN, got, eof, full, pc, isET, connVars, conns, told>>

Quit ==
  /\ pc # "closed" /\ ~eof /\ eof' = TRUE
  /\ UNCHANGED <<script, polite, sentN, readN, got, full, pc, isET, connVars, conns, told>>

Receive ==
  /\ full /\ full' = FALSE
  /\ UNCHANGED <<clientVars, readN, got, pc, isET, connVars, conns, told>>

Server == \/ CloseOnHup \/ DealRead_ \/ DealWrite_ \/ read \/ process \/ parse
          \/ MakeResponse \/ AddStateLine_ \/ AddHeader_ \/ AddContent_
          \/ Writev \/ WritevEnds

Next == init \/ Server \/ Send \/ Quit \/ Receive

\* The server's thread goes on; a client that stays sends and receives.
Fairness == WF_vars(Server) /\ WF_vars(Receive) /\ WF_vars(polite /\ Send)

Spec == Init /\ [][Next]_vars
FairSpec == Spec /\ Fairness
-----------------------------------------------------------------------------
\* The variables have values of their types, and no assert() of buffer.cpp fails.
TypeOK ==
  /\ pc \in {"closed", "in", "out", "read", "process", "parse", "good", "bad", "write",
             "AddStateLine_", "AddHeader_", "AddContent_"}
  /\ {polite, eof, full, isET} \subseteq BOOLEAN
  /\ 0 <= readN /\ readN <= sentN /\ sentN <= Len(Wire)
  /\ IsBuffer(readBuff_, Byte) /\ IsBuffer(writeBuff_, Byte)
  /\ iov_.len0 >= 0 /\ iov_.len1 >= 0

\* What is left to parse is the end of what was read from the socket, byte for
\* byte and in order, however the buffer grew, moved its bytes or was refilled
\* from the stack (ReadFd, MakeSpace_).
ReadInOrder ==
  Contents(readBuff_) = SubSeq(Wire, readN - ReadableBytes(readBuff_) + 1, readN)

\* What the client has received is a beginning of the responses made for it:
\* the pointer arithmetic of write() after a partial writev repeats no byte,
\* skips none, and sends none of a file that is no longer mapped.
ReceivedExact ==
  /\ Len(got) <= Len(told)
  /\ got = SubSeq(told, 1, Len(got))

\* A response that says "close" is the last of its connection; so a request
\* that parse() refused is not followed by another.
CloseIsLast == pc \in {"good", "bad"} /\ told # <<>> => response_.isKeepAlive_

\* With edge triggered connections the server, as long as the client is there,
\* closes after whole responses only, and never after one that promised
\* keep-alive and had a file.
ClosesWhenDone ==
  [][pc # "closed" /\ pc' = "closed" /\ isET /\ ~eof =>
       /\ got' = told'
       /\ response_.isKeepAlive_ => response_.mmFile_ = NoFile]_vars

\* A client that asks for one file after another over one connection, each
\* time waiting for its answer, receives every file, whole and in order.
Served ==
  LET answer[n \in 0..Len(script.asks)] ==
        IF n = 0 THEN <<>>
        ELSE answer[n - 1] \o <<"200", "keep-alive", "length">> \o Data(script.asks[n])
  IN  polite /\ got = answer[Len(script.asks)]
PoliteServed == polite /\ isET ~> eof \/ Served
=============================================================================
