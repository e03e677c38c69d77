---------------------------- MODULE HTTPExchange ----------------------------
(***************************************************************************)
(* One connection between CHTTPClient and CHTTPServer of libdelphi          *)
(* (src/src/HTTP.cpp), kept open over several requests.                     *)
(*                                                                         *)
(* Each side is a process with its own event loop.  An event reads what has *)
(* arrived (any non-empty part of what the other side sent, so that a       *)
(* message may be split anywhere), parses it, runs the application's        *)
(* handler, and then writes.  Sockets take a bounded number of bytes, so    *)
(* that a message may also be written in parts.                             *)
(***************************************************************************)
EXTENDS HTTPParser

CONSTANTS
  Requests,     \* what the application of the client may ask
  Contents,     \* contents of the replies of the server's application
  Chunked,      \* whether it may send them in chunks
  ChunkSize,    \* MAX_STRING_LEN, the size of a chunk
  Capacities,   \* how many bytes a socket may take
  MaxRequests,  \* bound on the number of requests
  FollowLost    \* whether to follow a connection after a parser has lost its place

ASSUME SizeAssumption == ChunkSize \in Nat \ {0} /\ Capacities \subseteq Nat \ {0}

VARIABLES
  conn,       \* [Sides -> CHTTPClientConnection, CHTTPServerConnection]
  wire,       \* [Sides -> bytes sent to that side and not read by it]
  pc,         \* [Sides -> where the event loop of that side is]
  capacity,   \* of the sockets
  asked,      \* requests of the client's application
  served,     \* messages the server's application was given by OnExecute
  replied,    \* messages the server sent
  answered,   \* messages the client's application was given by OnExecute
  forgot      \* [Sides -> a read ended where the parser cannot go on]

history == <<asked, served, replied, answered>>
vars == <<conn, wire, pc, capacity, asked, served, replied, answered, forgot>>

Sides == {"client", "server"}
Peer(s) == IF s = "client" THEN "server" ELSE "client"

Statuses == {"csConnected", "csWaitRequest", "csRequestOk", "csRequestReady", "csRequestSent", "csRequestError",
             "csWaitReply", "csReplyOk", "csReplyReady", "csReplySent", "csReplyError"}

Start(s) == Fresh(IF s = "client" THEN "http_version_h" ELSE "method_start")

\* A new connection; the client's closes after a reply, unless its application says otherwise.
New(s, close) ==
  [status |-> "csConnected", memory |-> Start(s), out |-> <<>>, full |-> FALSE,
   open |-> TRUE, graceful |-> FALSE, close |-> close]

Init ==
  /\ \E close \in BOOLEAN : conn = [client |-> New("client", close), server |-> New("server", FALSE)]
  /\ wire = [s \in Sides |-> <<>>]
  /\ pc = [s \in Sides |-> "wait"]
  /\ capacity \in Capacities
  /\ asked = <<>> /\ served = <<>> /\ replied = <<>> /\ answered = <<>>
  /\ forgot = [s \in Sides |-> FALSE]

TypeOK ==
  /\ \A s \in Sides : /\ conn[s].status \in Statuses
                      /\ {conn[s].open, conn[s].graceful, conn[s].close, conn[s].full} \subseteq BOOLEAN
                      /\ DOMAIN conn[s].memory = DOMAIN Start(s)
                      /\ conn[s].memory.left \in Nat /\ conn[s].memory.chunkLeft \in Nat
                      /\ Len(wire[s]) <= capacity
  /\ pc \in [Sides -> {"wait", "write"}]
  /\ capacity \in Capacities
  /\ Len(asked) <= MaxRequests
  /\ forgot \in [Sides -> BOOLEAN]

-----------------------------------------------------------------------------
(* Connections.  The methods are functions on w = [c, bytes, ok]: the        *)
(* connection, the bytes it hands to the socket, the result of WriteAsync.   *)

Status(c, status) == [c EXCEPT !.status = status]

\* CHTTPServerConnection::Clear, CHTTPClientConnection::Clear: the output stays.
Clear(s, c) == [c EXCEPT !.memory = Start(s)]

Disconnect(c) == [c EXCEPT !.open = FALSE, !.graceful = TRUE, !.full = FALSE]

Room(s) == capacity - Len(wire[Peer(s)])
Least(m, n) == IF m < n THEN m ELSE n

\* Mutant: the socket takes everything or the rest is dropped.
WriteAsyncOnce(s, c) ==
  LET n == Least(Len(c.out), Room(s))
  IN  [c |-> [c EXCEPT !.out = <<>>], bytes |-> SubSeq(c.out, 1, n), ok |-> TRUE]

\* Mutant: a socket that takes a part of a message is taken for one the peer has closed.
WriteAsyncCloses(s, c) ==
  LET n == Least(Len(c.out), Room(s))
  IN  [c |-> [c EXCEPT !.out = SubSeq(@, n + 1, Len(@)), !.full = n < Len(c.out), !.graceful = @ \/ n < Len(c.out)],
       bytes |-> SubSeq(c.out, 1, n), ok |-> n = Len(c.out)]

\* A socket that takes less than everything will report that it is writable again.
\* A full one (EAGAIN) makes the connection look closed by the peer.
WriteAsync(s, c) ==
  LET n == Least(Len(c.out), Room(s))
      sent == [c EXCEPT !.out = SubSeq(@, n + 1, Len(@)), !.full = n < Len(c.out)]
  IN  CASE c.out = <<>> -> [c |-> c, bytes |-> <<>>, ok |-> TRUE]
        [] c.out # <<>> /\ c.graceful -> [c |-> Disconnect(c), bytes |-> <<>>, ok |-> FALSE]
        [] c.out # <<>> /\ ~c.graceful /\ n = 0 ->
             [c |-> [c EXCEPT !.graceful = TRUE, !.full = TRUE], bytes |-> <<>>, ok |-> FALSE]
        [] OTHER -> [c |-> sent, bytes |-> SubSeq(c.out, 1, n), ok |-> n = Len(c.out)]

Unsent(c) == [c |-> c, bytes |-> <<>>, ok |-> FALSE]

SendReply(c, bytes, now) ==
  LET ready == Status([c EXCEPT !.out = @ \o bytes], "csReplyReady")
      w == WriteAsync("server", ready)
  IN  CASE ~now -> Unsent(ready)
        [] now /\ w.ok -> [w EXCEPT !.c = Clear("server", Status(@, "csReplySent"))]
        [] now /\ ~w.ok -> w

SendRequest(c, bytes) ==
  LET w == WriteAsync("client", Status([c EXCEPT !.out = @ \o bytes], "csRequestReady"))
  IN  IF w.ok THEN [w EXCEPT !.c = Status(@, "csRequestSent")] ELSE w

\* Side s goes on with w; n bytes it was sent have been read.  What is written to a closed socket vanishes.
Continues(s, w, n) ==
  /\ conn' = [conn EXCEPT ![s] = w.c]
  /\ wire' = [wire EXCEPT ![s] = IF w.c.open THEN SubSeq(@, n + 1, Len(@)) ELSE <<>>,
                          ![Peer(s)] = IF conn[Peer(s)].open THEN @ \o w.bytes ELSE @]

-----------------------------------------------------------------------------
(* Reading.  An event is due when bytes arrive, when the peer has closed,    *)
(* and when a socket that was full has room.  It is writable if it has room. *)

\* The peer's end of the connection has been read.
AtEnd(s, n) == ~conn[Peer(s)].open /\ n = Len(wire[s])

\* What the read leaves behind: CheckReadStack with no bytes at the end.
Received(s, n) == [conn[s] EXCEPT !.graceful = AtEnd(s, n), !.full = @ /\ Room(s) = 0]

Parsed(s, n) ==
  IF s = "client" THEN ParseReply(conn[s].memory, SubSeq(wire[s], 1, n))
  ELSE ParseRequest(conn[s].memory, SubSeq(wire[s], 1, n))

Writable(s) == Room(s) > 0

\* FollowLost bounds the model: a parser that has lost its place makes anything of what follows.
Runs(s) == conn[s].open /\ (FollowLost \/ TRUE \notin Range(forgot))

AfterRead(s, c) == pc' = [pc EXCEPT ![s] = IF c.open /\ Writable(s) THEN "write" ELSE "wait"]

\* The read ended inside an escape or a chunk's size, at the end of a chunk's content, or before the last
\* byte of the message: p is the parser after it, last the last byte, whole the bytes still to come.
LosesPlace(p, last) ==
  \/ p.result = -1 /\ p.state = "uri_param_mime" /\ p.mime # <<>>
  \/ p.result # 0 /\ p.state = "form_mime" /\ p.mime # <<>>
  \/ p.result = 1 /\ p.state = "form_data" /\ Len(p.msg.content) < p.msg.length
  \/ p.result = -1 /\ p.state = "content_checking_length" /\ IsHex(last)
  \/ p.result = -1 /\ p.state = "content_checking_data" /\ p.chunkLeft = 0 /\ last # "LF"
  \/ p.result = 1 /\ p.state = "content_checking_data" /\ p.rest = <<>>

Remember(s, p, n) ==
  forgot' = [forgot EXCEPT ![s] = @ \/ LosesPlace(p, wire[s][n])]

-----------------------------------------------------------------------------
(* The server *)

StockReply(status) == [NoMessage EXCEPT !.start = status, !.content = <<"error">>, !.length = 1]
BadRequest == StockReply(<<"4", "0", "0">>)
GatewayTimeout == StockReply(<<"5", "0", "4">>)

\* The application's answer begins with what identifies the request.
Answer(request, content) ==
  LET body == IF content = <<>> THEN <<>> ELSE SubSeq(request.uri, 2, 2) \o content
  IN  [NoMessage EXCEPT !.start = <<"2", "0", "0">>, !.content = body, !.length = Len(body)]

\* ParseInput, more data is required
ServerReadPart(n) ==
  LET p == Parsed("server", n)
      c == Status([Received("server", n) EXCEPT !.memory = Memory(p)], "csWaitRequest")
      d == IF c.graceful THEN Disconnect(c) ELSE c
  IN  /\ n > 0 /\ p.result = -1
      /\ Continues("server", Unsent(d), n)
      /\ AfterRead("server", d)
      /\ Remember("server", p, n)
      /\ UNCHANGED <<capacity, history>>

\* OnExecute, the application answers at once
ServerExecutes(n, content, chunked, now, close) ==
  LET p == Parsed("server", n)
      c == Status([Received("server", n) EXCEPT !.memory.msg = p.msg, !.close = @ \/ close], "csRequestOk")
      m == Answer(p.msg, content)
      w == SendReply(c, ReplyBytes(m, chunked, ChunkSize), now)
      v == IF w.c.graceful THEN [w EXCEPT !.c = Disconnect(@)] ELSE w
  IN  /\ n > 0 /\ p.result = 1
      /\ served' = Append(served, p.msg)
      /\ replied' = Append(replied, m)
      /\ Continues("server", v, n)
      /\ AfterRead("server", v.c)
      /\ Remember("server", p, n)
      /\ UNCHANGED <<capacity, asked, answered>>

\* OnExecute, the application will answer later
ServerDefers(n) ==
  LET p == Parsed("server", n)
      c == Status([Received("server", n) EXCEPT !.memory.msg = p.msg], "csRequestOk")
      d == IF c.graceful THEN Disconnect(c) ELSE c
  IN  /\ n > 0 /\ p.result = 1
      /\ served' = Append(served, p.msg)
      /\ Continues("server", Unsent(d), n)
      /\ AfterRead("server", d)
      /\ Remember("server", p, n)
      /\ UNCHANGED <<capacity, asked, replied, answered>>

\* Invalid data: DoRead sends bad_request and clears what has been parsed.
ServerRejects(n) ==
  LET p == Parsed("server", n)
      c == Status([Received("server", n) EXCEPT !.close = TRUE], "csRequestError")
      w == SendReply(c, ReplyBytes(BadRequest, FALSE, ChunkSize), FALSE)
      d == Clear("server", w.c)
      e == IF d.graceful THEN Disconnect(d) ELSE d
  IN  /\ n > 0 /\ p.result = 0
      /\ replied' = Append(replied, BadRequest)
      /\ Continues("server", Unsent(e), n)
      /\ AfterRead("server", e)
      /\ UNCHANGED <<capacity, asked, served, answered, forgot>>

\* The end of the connection, or one that has been taken for it
ServerReadsEnd ==
  /\ AtEnd("server", 0) \/ (conn.server.graceful /\ wire.server # <<>>)
  /\ Continues("server", Unsent(Disconnect(conn.server)), 0)
  /\ UNCHANGED <<pc, capacity, history, forgot>>

ServerReads ==
  /\ pc.server = "wait" /\ Runs("server")
  /\ \/ \E n \in IF conn.server.graceful THEN {} ELSE 1..Len(wire.server) :
          \/ ServerReadPart(n) \/ ServerDefers(n) \/ ServerRejects(n)
          \/ \E content \in Contents, chunked \in Chunked, now, close \in BOOLEAN :
               ServerExecutes(n, content, chunked, now, close)
     \/ ServerReadsEnd

\* Mutant: only a message that is sent whole is cleared, and not before the next event.
WrittenKeeps(c) ==
  LET w == WriteAsync("server", c)
  IN  IF c.status = "csReplyReady" THEN [w EXCEPT !.c = IF w.ok THEN Status(@, "csReplySent") ELSE @] ELSE Unsent(c)

\* CHTTPServer::DoWrite: the message is cleared even if it is not sent whole.
Written(c) ==
  LET w == WriteAsync("server", c)
      sent == IF w.ok THEN Status(w.c, "csReplySent") ELSE w.c
  IN  IF c.status = "csReplyReady" THEN [w EXCEPT !.c = Clear("server", sent)] ELSE Unsent(c)

WriteDue(s) == pc[s] = "write" \/ (pc[s] = "wait" /\ conn[s].full /\ Writable(s))

ServerWrites ==
  LET w == Written([conn.server EXCEPT !.full = FALSE])
      v == IF w.c.graceful \/ w.c.close THEN [w EXCEPT !.c = Disconnect(@)] ELSE w
  IN  /\ Runs("server") /\ WriteDue("server")
      /\ Continues("server", v, 0)
      /\ pc' = [pc EXCEPT !.server = "wait"]
      /\ UNCHANGED <<capacity, history, forgot>>

\* Outside of an event the application answers what it deferred.
ServerReplies(content, chunked, now) ==
  LET m == Answer(Last(served), content)
  IN  /\ pc.server = "wait" /\ Runs("server") /\ conn.server.status = "csRequestOk"
      /\ replied' = Append(replied, m)
      /\ Continues("server", SendReply(conn.server, ReplyBytes(m, chunked, ChunkSize), now), 0)
      /\ UNCHANGED <<pc, capacity, asked, served, answered, forgot>>

\* CHTTPServer::DoTimeOut: a request the application has not answered is answered, then the connection ends.
ServerTimesOut ==
  LET c == [conn.server EXCEPT !.close = TRUE]
      w == SendReply(c, ReplyBytes(GatewayTimeout, FALSE, ChunkSize), TRUE)
  IN  /\ pc.server = "wait" /\ Runs("server")
      /\ \/ /\ conn.server.status = "csRequestOk" /\ ~conn.server.graceful
            /\ Continues("server", [w EXCEPT !.c = Disconnect(@)], 0)
            /\ replied' = Append(replied, GatewayTimeout)
         \/ /\ conn.server.graceful \/ (conn.server.status # "csRequestOk" /\ conn.server.close)
            /\ Continues("server", Unsent(Disconnect(conn.server)), 0)
            /\ UNCHANGED replied
      /\ UNCHANGED <<pc, capacity, asked, served, answered, forgot>>

-----------------------------------------------------------------------------
(* The client *)

\* The application encodes the parameters it gives; ToBuffers sends them as they are.
Encoded(r) == [r EXCEPT !.params = [i \in DOMAIN @ |-> URLEncode(@[i])]]

\* The application sends a request once it has the reply to the one before, from outside of its callbacks.
ClientRequests(r) ==
  /\ pc.client = "wait" /\ Runs("client")
  /\ Len(asked) < MaxRequests /\ Len(asked) = Len(answered)
  /\ LET q == [r EXCEPT !.uri = @ \o IntToStr(Len(asked) + 1, 10)]
     IN  /\ asked' = Append(asked, q)
         /\ Continues("client", SendRequest(conn.client, RequestBytes(Prepared(Encoded(q)))), 0)
  /\ UNCHANGED <<pc, capacity, served, replied, answered, forgot>>

ClientReadPart(n) ==
  LET p == Parsed("client", n)
      c == Status([Received("client", n) EXCEPT !.memory = Memory(p)], "csWaitReply")
  IN  /\ n > 0 /\ p.result = -1
      /\ Continues("client", Unsent(c), n)
      /\ AfterRead("client", c)
      /\ Remember("client", p, n)
      /\ UNCHANGED <<capacity, history>>

ClientExecutes(n) ==
  LET p == Parsed("client", n)
      c == Clear("client", Status(Received("client", n), "csReplyOk"))
      d == IF c.close THEN Disconnect(c) ELSE c
  IN  /\ n > 0 /\ p.result = 1
      /\ answered' = Append(answered, p.msg)
      /\ Continues("client", Unsent(d), n)
      /\ AfterRead("client", d)
      /\ Remember("client", p, n)
      /\ UNCHANGED <<capacity, asked, served, replied>>

\* Invalid data is forgotten; the application is not told.
ClientRejects(n) ==
  LET p == Parsed("client", n)
      c == Clear("client", Status(Received("client", n), "csReplyError"))
  IN  /\ n > 0 /\ p.result = 0
      /\ Continues("client", Unsent(c), n)
      /\ AfterRead("client", c)
      /\ UNCHANGED <<capacity, history, forgot>>

ClientReadsEnd ==
  LET c == IF conn.client.graceful THEN Disconnect(conn.client) ELSE Received("client", 0)
  IN  /\ AtEnd("client", 0) \/ (conn.client.graceful /\ wire.client # <<>>)
      /\ Continues("client", Unsent(c), 0)
      /\ AfterRead("client", c)
      /\ UNCHANGED <<capacity, history, forgot>>

ClientReads ==
  /\ pc.client = "wait" /\ Runs("client")
  /\ \/ \E n \in IF conn.client.graceful THEN {} ELSE 1..Len(wire.client) :
          ClientReadPart(n) \/ ClientExecutes(n) \/ ClientRejects(n)
     \/ ClientReadsEnd

ClientWrites ==
  LET c == [conn.client EXCEPT !.full = FALSE]
      w == IF c.status = "csRequestReady" THEN WriteAsync("client", c) ELSE Unsent(c)
      v == IF w.ok THEN [w EXCEPT !.c = Status(@, "csRequestSent")] ELSE w
  IN  /\ Runs("client") /\ WriteDue("client")
      /\ Continues("client", IF v.c.graceful THEN [v EXCEPT !.c = Disconnect(@)] ELSE v, 0)
      /\ pc' = [pc EXCEPT !.client = "wait"]
      /\ UNCHANGED <<capacity, history, forgot>>

Next ==
  \/ ServerReads
  \/ ServerWrites
  \/ \E content \in Contents, chunked \in Chunked, now \in BOOLEAN : ServerReplies(content, chunked, now)
  \/ ServerTimesOut
  \/ \E r \in Requests : ClientRequests(r)
  \/ ClientReads
  \/ ClientWrites

Spec == Init /\ [][Next]_vars

-----------------------------------------------------------------------------
(* Properties *)

\* What a parser should make of a request
Meaning(r) ==
  [start |-> r.start, uri |-> r.uri \o ParamBytes(Encoded(r).params), params |-> r.params,
   headers |-> Prepared(r).headers, content |-> r.content, length |-> Len(r.content), form |-> r.form]

\* Requests reach the server's application in order, each once and exactly as it was asked, however
\* reads and writes cut it (CHTTPRequestParser, CHTTPServerConnection::Parse); until the parser loses its place.
RequestsExact ==
  forgot.server \/
    /\ Len(served) <= Len(asked)
    /\ \A k \in DOMAIN served : served[k] = Meaning(asked[k])

\* Replies reach the client's application in the order in which the server sent them, none before the request
\* it answers, with all their content, whatever framing they have; until the parser loses its place.
RepliesExact ==
  TRUE \in Range(forgot) \/
    /\ Len(answered) <= Len(replied) /\ Len(replied) <= Len(asked)
    /\ \A k \in DOMAIN answered : /\ answered[k].start = replied[k].start
                                 /\ answered[k].content = replied[k].content
\* Both: messages arrive as they were sent, whatever their framing and however reads and writes cut them.
ExchangeExact == RequestsExact /\ RepliesExact

\* A request is parsed from the start: while the client waits for nothing, the server
\* remembers nothing of the request before (Clear on every path of SendReply, DoWrite and DoRead).
StartsAfresh ==
  conn.server.open /\ Len(asked) = Len(answered) /\ TRUE \notin Range(forgot) => conn.server.memory = Start("server")

\* The state of both connections is well formed, and no message leaves anything behind for the next one.
ConnectionAgrees == TypeOK /\ StartsAfresh

\* A side closes only when it was told to or when the other has closed. WriteBufferAsync takes a full socket for
\* the end of the connection, but only DoWrite right after a partial write in DoRead ever writes to a full one.
ClosesWithReason ==
  [][\A s \in Sides : conn[s].open /\ ~conn[s].open' =>
       \/ conn[s].close' \/ ~conn[Peer(s)].open
       \/ pc[s] = "write" /\ conn[s].full]_vars

\* A reply that was asked to be sent later, outside of an event: nothing makes the socket report that it is writable.
Stalled == conn.server.status = "csReplyReady" /\ conn.server.out # <<>> /\ ~conn.server.full /\ pc.server = "wait"

\* Nothing is left to be read, to be written or to be answered.
Quiet ==
  /\ \A s \in Sides : Runs(s) => pc[s] = "wait" /\ wire[s] = <<>> /\ ~AtEnd(s, 0) /\ ~WriteDue(s)
  /\ conn.server.open => conn.server.status # "csRequestOk"

\* No request is left without an answer: when all is quiet the client's application has the reply to each,
\* or that reply is stalled, or the server closed before it read the request or wrote the reply whole, or a
\* parser lost its place.
Answered ==
  Quiet => \/ Len(answered) = Len(asked)
           \/ Stalled
           \/ ~conn.server.open /\ (conn.server.out # <<>> \/ Len(served) < Len(asked))
           \/ TRUE \in Range(forgot)

\* CHTTPReplyParser::Parse returns "1" when a complete message has been parsed, "-1" when more data is required:
\* what the application is given is what was sent.
ReplyComplete == \A k \in DOMAIN answered : answered[k].content = replied[k].content
=============================================================================
