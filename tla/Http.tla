-------------------------------- MODULE Http --------------------------------
(***************************************************************************)
(* master/net/http (HttpContext, HttpRequest, HttpServer, HttpResponse) and*)
(* master/net/inspect/Inspector.cc: a connection on which requests arrive  *)
(* as bytes cut anywhere, and the table of commands that answers them.     *)
(*                                                                         *)
(* A line is one or two bytes that say what it is, and CRLF.  The rest of  *)
(* its text is left out, as are the bodies, which the server does not read.*)
(***************************************************************************)
EXTENDS Buffer

CONSTANTS
  Requests,       \* the requests a client can make: sequences of lines
  HttpReadSizes,  \* how much one read may take at most
  MaxRequests, MaxTableCalls    \* bounds on the requests, and on add() and remove()

\* The first byte of a line.
Http11 == 1        \* METHOD path HTTP/1.1
Http10 == 2
BadMethod == 3
BadVersion == 4    \* a known method, and neither of these versions
Close == 5         \* Connection: close
KeepAlive == 6     \* Connection: Keep-Alive
OtherHeader == 7
NoColon == 8       \* a header line without a colon
\* The second byte of a request line: the path.
Root == 1          \* "/"
Favicon == 2       \* "/favicon.ico"
OnePart == 3       \* "/module"
NoPart == 4        \* "//"
Command == 5       \* "/module/command"

\* A line has no CR in it, a header line is of one of the four kinds, and a request line
\* that parses has a path of one of the five.
ASSUME HttpBounds ==
  \A r \in Requests :
    /\ r \in Seq(Seq(Nat)) /\ r # <<>>
    /\ \A i \in DOMAIN r : \A k \in DOMAIN r[i] : r[i][k] # CR
    /\ \A i \in 2..Len(r) : r[i] # <<>> /\ r[i][1] \in {Close, KeepAlive, OtherHeader, NoColon}
    /\ Len(r[1]) = 2 /\ r[1][1] \in {Http10, Http11}
         => r[1][2] \in {Root, Favicon, OnePart, NoPart, Command}

VARIABLES
  httpWire,          \* bytes on their way to the server
  httpBuffer,        \* inputBuffer_ of the connection
  state_, request_,  \* the HttpContext
  httpConnected,     \* shutdown() has not been called
  place,             \* of the loop thread: "poll", "parse", "aborted"
  modules_, helps_,  \* of the Inspector: from module to commands
  tableCalls,
  registered,        \* history: the commands added and not removed, as <<module, command>>
  requests,          \* history: the requests made; the responses sent
  responses,
  pipelined          \* history: a request was made before the one before was answered

httpVars == <<httpWire, httpBuffer, state_, request_, httpConnected, place, modules_, helps_,
              tableCalls, registered, requests, responses, pipelined>>
context == <<state_, request_>>
table == <<modules_, helps_, tableCalls, registered>>
history == <<requests, pipelined>>

NoRequest == [method_ |-> "kInvalid", version_ |-> "kUnknown", path_ |-> 0, connection |-> ""]

HttpInit ==
  /\ httpWire = <<>> /\ httpBuffer = NewBuffer(kInitialSize)
  /\ state_ = "kExpectRequestLine" /\ request_ = NoRequest
  /\ httpConnected = TRUE /\ place = "poll"
  /\ modules_ = <<>> /\ helps_ = <<>> /\ tableCalls = 0 /\ registered = {}
  /\ requests = <<>> /\ responses = <<>> /\ pipelined = FALSE

\* LineBytes(request)[i] has the first i lines of a request, each with CRLF; the empty line
\* ends it.
LineBytes(request) ==
  LET f[i \in 0..Len(request)] ==
        IF i = 0 THEN <<>> ELSE f[i - 1] \o request[i] \o <<CR, LF>>
  IN  f
Wire(request) == LineBytes(request)[Len(request)] \o <<CR, LF>>

MakeRequest(request) ==
  /\ Len(requests) < MaxRequests
  /\ requests' = Append(requests, request)
  /\ httpWire' = httpWire \o Wire(request)
  /\ pipelined' = (pipelined \/ Len(responses) < Len(requests))
  /\ UNCHANGED <<httpBuffer, context, httpConnected, place, table, responses>>

-----------------------------------------------------------------------------
(* Inspector *)

\* modules_[module]: operator[] makes an entry where there is none.
Entry(map, module) == IF module \in DOMAIN map THEN map[module] ELSE {}
SetEntry(map, module, commands) ==
  [m \in DOMAIN map \cup {module} |-> IF m = module THEN commands ELSE map[m]]

AddCommand(module, command) ==
  /\ tableCalls < MaxTableCalls /\ tableCalls' = tableCalls + 1
  /\ modules_' = SetEntry(modules_, module, Entry(modules_, module) \cup {command})
  /\ helps_' = SetEntry(helps_, module, Entry(helps_, module) \cup {command})
  /\ registered' = registered \cup {<<module, command>>}
  /\ UNCHANGED <<httpWire, httpBuffer, context, httpConnected, place, history, responses>>

RemoveCommand(module, command) ==
  /\ tableCalls < MaxTableCalls /\ tableCalls' = tableCalls + 1
  /\ module \in DOMAIN modules_
  /\ modules_' = [modules_ EXCEPT ![module] = @ \ {command}]
  /\ helps_' = SetEntry(helps_, module, Entry(helps_, module) \ {command})
  /\ registered' = registered \ {<<module, command>>}
  /\ UNCHANGED <<httpWire, httpBuffer, context, httpConnected, place, history, responses>>

\* split(): the parts of the path between its slashes, empty ones left out.
split(path) ==
  CASE path \in {Root, NoPart} -> <<>>
    [] path = Favicon -> <<"favicon.ico">>
    [] path = OnePart -> <<"module">>
    [] path = Command -> <<"module", "command">>

\* Inspector::onRequest(): "/" lists the help, a command needs its module and itself.
StatusOf(path) ==
  LET result == split(path)
      ok == \/ path = Root
            \/ result = <<"favicon.ico">>
            \/ Len(result) = 2 /\ result[2] \in Entry(modules_, result[1])
  IN  IF ok THEN "k200Ok" ELSE "k404NotFound"

-----------------------------------------------------------------------------
(* HttpServer and HttpContext *)

HttpRead(n) ==
  /\ place = "poll"
  /\ n \in 1..Len(httpWire) /\ n <= ReadLimit(httpBuffer)
  /\ httpBuffer' = readFd(httpBuffer, SubSeq(httpWire, 1, n))
  /\ httpWire' = SubSeq(httpWire, n + 1, Len(httpWire))
  /\ place' = "parse"
  /\ UNCHANGED <<context, httpConnected, table, history, responses>>

\* HttpResponse::appendToBuffer(): the status line and the Connection header.  known is
\* history: whether the command that Command names was there when the answer was made.
Response(status, close) ==
  [status |-> status, close |-> close, known |-> <<"module", "command">> \in registered]

\* send(), which does nothing once shutdown() was called.
Respond(response) ==
  responses' = IF httpConnected THEN Append(responses, response) ELSE responses

crlf == findCRLF(httpBuffer)
line == SubSeq(Content(httpBuffer), 1, crlf - 1)
IsGoodLine == Len(line) = 2 /\ line[1] \in {Http10, Http11}
IsHeader == line # <<>> /\ line[1] \in {Close, KeepAlive, OtherHeader}
RetrieveLine == httpBuffer' = retrieve(httpBuffer, crlf + 1)

\* No CRLF yet: parseRequest() returns and waits for more.
LineWaits ==
  /\ place = "parse" /\ crlf = 0
  /\ place' = "poll"
  /\ UNCHANGED <<httpWire, httpBuffer, context, httpConnected, table, history, responses>>

\* Mutant of AfterLine: the request line ends parseRequest().
AfterLineWaits == "poll"

\* hasMore stays true.
AfterLine == "parse"

\* processRequestLine(): setMethod() comes first, and keeps what it set when a later part fails.
RequestLine ==
  /\ place = "parse" /\ crlf # 0 /\ state_ = "kExpectRequestLine"
  /\ request_.method_ = "kInvalid"
  /\ IsGoodLine
  /\ request_' = [request_ EXCEPT !.method_ = "kGet", !.path_ = line[2],
                                  !.version_ = IF line[1] = Http11 THEN "kHttp11" ELSE "kHttp10"]
  /\ RetrieveLine
  /\ state_' = "kExpectHeaders" /\ place' = AfterLine
  /\ UNCHANGED <<httpWire, httpConnected, table, history, responses>>

\* The line stays in the buffer; 400 is sent and the connection shut down.
BadRequestLine ==
  /\ place = "parse" /\ crlf # 0 /\ state_ = "kExpectRequestLine"
  /\ request_.method_ = "kInvalid"
  /\ ~IsGoodLine
  /\ request_' = IF Len(line) = 2 /\ line[1] = BadVersion
                   THEN [request_ EXCEPT !.method_ = "kGet", !.path_ = line[2]] ELSE request_
  /\ Respond(Response("k400BadRequest", TRUE))
  /\ httpConnected' = FALSE /\ place' = "poll"
  /\ UNCHANGED <<httpWire, httpBuffer, state_, table, history>>

\* assert(method_ == kInvalid) of setMethod() fails: the line that failed is still the first
\* of the buffer, and its method is set.
MethodSetTwice ==
  /\ place = "parse" /\ crlf # 0 /\ state_ = "kExpectRequestLine"
  /\ request_.method_ # "kInvalid"
  /\ place' = "aborted"
  /\ UNCHANGED <<httpWire, httpBuffer, context, httpConnected, table, history, responses>>

\* Of the headers the server uses Connection; the last one counts.
addHeader(request, header) ==
  CASE header = Close -> [request EXCEPT !.connection = "close"]
    [] header = KeepAlive -> [request EXCEPT !.connection = "Keep-Alive"]
    [] header = OtherHeader -> request

HeaderLine ==
  /\ place = "parse" /\ crlf # 0 /\ state_ = "kExpectHeaders"
  /\ IsHeader
  /\ request_' = addHeader(request_, line[1])
  /\ RetrieveLine
  /\ UNCHANGED <<httpWire, state_, httpConnected, place, table, history, responses>>

\* Mutant of Reset: the headers of the request are kept for the next one.
ResetKeepsHeaders == request_' = [NoRequest EXCEPT !.connection = request_.connection]

\* HttpContext::reset()
Reset == request_' = NoRequest

\* HttpServer::onRequest(): the answer, and shutdown() where the request asks for it.
onRequest(request) ==
  LET close == \/ request.connection = "close"
               \/ request.version_ = "kHttp10" /\ request.connection # "Keep-Alive"
  IN  /\ Respond(Response(StatusOf(request.path_), close))
      /\ httpConnected' = (httpConnected /\ ~close)

\* A line without a colon, empty or not, ends the headers: gotAll().  What is left in the
\* buffer waits for the next onMessage().
EndOfHeaders ==
  /\ place = "parse" /\ crlf # 0 /\ state_ = "kExpectHeaders"
  /\ ~IsHeader
  /\ RetrieveLine
  /\ onRequest(request_)
  /\ Reset /\ state_' = "kExpectRequestLine" /\ place' = "poll"
  /\ UNCHANGED <<httpWire, table, history>>

-----------------------------------------------------------------------------
HttpLoop ==
  \/ \E n \in HttpReadSizes : HttpRead(n)
  \/ LineWaits \/ RequestLine \/ BadRequestLine \/ MethodSetTwice \/ HeaderLine \/ EndOfHeaders

HttpNext ==
  \/ \E request \in Requests : MakeRequest(request)
  \/ AddCommand("module", "command") \/ RemoveCommand("module", "command")
  \/ \E n \in HttpReadSizes : HttpRead(n)
  \/ LineWaits \/ RequestLine \/ BadRequestLine \/ MethodSetTwice \/ HeaderLine \/ EndOfHeaders

HttpSpec == HttpInit /\ [][HttpNext]_httpVars

-----------------------------------------------------------------------------
(* Properties *)

WellFormed(request) ==
  /\ Len(request[1]) = 2 /\ request[1][1] \in {Http10, Http11}
  /\ \A i \in 2..Len(request) : request[i][1] # NoColon

\* What a request asks of the connection: its last Connection header, or its version.
AsksClose(request) ==
  LET said == {i \in 2..Len(request) : request[i][1] \in {Close, KeepAlive}}
  IN  IF said = {} THEN request[1][1] = Http10
      ELSE \E i \in said : request[i][1] = Close /\ \A j \in said : j <= i

\* Response i answers request i as long as the requests are well formed: the connection is
\* closed when that request asks for it and kept when it does not, whatever was parsed on
\* the connection before; "/", the icon and a command that is registered at that time are
\* found, whatever calls of add() and remove() came before, and nothing else is.
ResponsesMatch ==
  \A i \in DOMAIN responses :
    (\A j \in 1..i : j \in DOMAIN requests /\ WellFormed(requests[j]))
      => /\ responses[i].close = AsksClose(requests[i])
         /\ LET path == requests[i][1][2] IN
            responses[i].status =
              IF path \in {Root, Favicon} \/ (path = Command /\ responses[i].known)
                THEN "k200Ok" ELSE "k404NotFound"

\* A client that waits for each response before its next request gets one to each, or its
\* connection is shut down, wherever the bytes were cut.
RequestsAnswered ==
  \A k \in 1..MaxRequests :
    (Len(requests) >= k)
      ~> Len(responses) >= k \/ ~httpConnected \/ pipelined
=============================================================================
