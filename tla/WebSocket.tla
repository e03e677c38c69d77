------------------------------ MODULE WebSocket ------------------------------
(***************************************************************************)
(* A connection of CHTTPServer (libdelphi, src/src/HTTP.cpp) after          *)
(* SwitchingProtocols: CWebSocketConnection (src/src/Sockets.cpp).          *)
(*                                                                         *)
(* The peer is external: it sends frames as RFC 6455 lays them out, masked  *)
(* or not, fragmented or not.  An event of the server reads what has        *)
(* arrived, any non-empty part of it, parses it frame by frame, runs the    *)
(* application's handler, and then writes.                                  *)
(***************************************************************************)
EXTENDS WebSocketFrame

CONSTANTS
  Frames,      \* what the peer may send: a set of [fin, opcode, length]
  Lengths,     \* of what the application sends of its own accord
  AppKeys,     \* keys the application may mask its messages with, or NoKey
  Rooms,       \* how many bytes the socket takes before the peer reads
  MaxFrames,   \* bound on the frames of the peer
  MaxPushes    \* bound on what the application sends of its own accord

VARIABLES
  conn,    \* CWebSocketConnection
  wsPc,    \* where the event loop is: "wait" or "write"
  toUs,    \* bytes the peer has sent and the server has not read
  sent,    \* frames of the peer
  peer,    \* [keys, fragments, open]: whether it masks, is inside of a message, is there
  got,     \* messages the application was given by OnExecute
  told,    \* frames the server has queued: [opcode, key, payload]
  taken,   \* [bytes, room, unread]: what the socket took, takes at most, and holds
  torn,    \* the parser has lost its place, see Tears
  pushes

wsVars == <<conn, wsPc, toUs, sent, peer, got, told, taken, torn, pushes>>

Room(t) == t.room - t.unread
Least(m, n) == IF m < n THEN m ELSE n

\* CloseConnection(false) and RecvBufferSize are set; the answer to the upgrade has been written.
Connection == [request |-> NewSocket, reply |-> NewSocket, out |-> <<>>, status |-> "csReplySent",
               open |-> TRUE, graceful |-> FALSE, close |-> FALSE, full |-> FALSE, partial |-> FALSE]

WSInit ==
  /\ conn = Connection /\ wsPc = "wait" /\ toUs = <<>> /\ sent = <<>>
  /\ peer \in [keys : BOOLEAN, fragments : {FALSE}, open : {TRUE}]
  /\ got = <<>> /\ told = <<>> /\ torn = FALSE /\ pushes = 0
  /\ \E n \in Rooms : taken = [bytes |-> <<>>, room |-> n, unread |-> 0]

-----------------------------------------------------------------------------
(* The methods of the connection are functions on s = [c, got, told, taken,  *)
(* torn].  The field partial of a connection is not one of the class: it     *)
(* says that a fragment has been parsed and its message has not.             *)

Self == [c |-> conn, got |-> got, told |-> told, taken |-> taken, torn |-> torn]

Becomes(s) ==
  /\ conn' = s.c /\ got' = s.got /\ told' = s.told /\ taken' = s.taken /\ torn' = s.torn

\* Nothing of a message has been parsed without the rest of it.
Between(c) == c.request.state = "frame" /\ ~c.partial

\* CWebSocketConnection::Clear forgets a request that is being parsed as well.
Clear(s) == [s EXCEPT !.c.request = NewSocket, !.c.reply = NewSocket, !.torn = @ \/ ~Between(s.c)]

Disconnect(s) == [s EXCEPT !.c.open = FALSE, !.c.graceful = TRUE, !.c.full = FALSE]

\* WriteAsync: its result, and the connection after it.  A full socket makes it look closed by the peer.
Written(s) ==
  LET n == Least(Len(s.c.out), Room(s.taken))
  IN  CASE s.c.out = <<>> -> [ok |-> TRUE, s |-> s]
        [] s.c.out # <<>> /\ s.c.graceful -> [ok |-> FALSE, s |-> Disconnect(s)]
        [] s.c.out # <<>> /\ ~s.c.graceful /\ n = 0 ->
             [ok |-> FALSE, s |-> [s EXCEPT !.c.graceful = TRUE, !.c.full = TRUE]]
        [] OTHER ->
             [ok |-> n = Len(s.c.out),
              s |-> [s EXCEPT !.c.out = SubSeq(@, n + 1, Len(@)), !.c.full = n < Len(s.c.out),
                              !.taken.bytes = @ \o SubSeq(s.c.out, 1, n), !.taken.unread = @ + n]]

\* What the four Send methods do with the frame in m_WSReply
Send(s, reply, now) ==
  LET ready == [s EXCEPT !.c.reply = reply, !.c.out = @ \o SaveToStream(reply), !.c.status = "csReplyReady",
                         !.told = Append(@, [opcode |-> reply.frame.opcode, payload |-> reply.payload,
                                             key |-> IF reply.frame.mask THEN reply.frame.key ELSE NoKey])]
      w == Written(ready)
  IN  IF ~now THEN ready
      ELSE IF w.ok THEN Clear([w.s EXCEPT !.c.status = "csReplySent"]) ELSE w.s

SendWebSocket(s, data, k, now) == Send(s, SetPayload(s.c.reply, "text", data, k), now)
SendWebSocketPing(s, data, now) == Send(s, Control(SetPayload(NewSocket, "text", data, NoKey), "ping"), now)

\* The payload is loaded from that of the request, which is left at its end.
SendWebSocketPong(s) ==
  LET data == s.c.request.payload
  IN  Send([s EXCEPT !.c.request.position = Len(data)],
           Control(SetPayload(NewSocket, "binary", data, NoKey), "pong"), FALSE)

\* m_WSReply is not cleared: the frame takes what the last reply has left there.
SendWebSocketClose(s) == Send(s, Control(s.c.reply, "close"), FALSE)

-----------------------------------------------------------------------------
(* CWebSocketConnection::Parse *)

\* OnExecute: the application echoes the message now, or sends it to be written later, or does neither.
Executes(s, answer) ==
  LET data == s.c.request.payload
      t == [s EXCEPT !.got = Append(@, data), !.c.status = "csRequestOk"]
  IN  IF answer = "none" THEN t ELSE SendWebSocket(t, data, NoKey, answer = "now")

\* A control frame that is not whole is answered all the same, and its payload is left at the end; one that
\* comes between two fragments takes the place of what has been parsed of the message.
Tears(c, status) == c.request.frame.opcode \in Controls /\ (status # "done" \/ c.partial)

\* The frame in the request, of which LoadFromStream said status
Handles(s, status, answer) ==
  LET c == s.c
      opcode == c.request.frame.opcode
      t == [s EXCEPT !.torn = @ \/ Tears(c, status)]
  IN  CASE opcode \in Data /\ (~c.request.frame.fin \/ status = "more") ->
             [t EXCEPT !.c.status = "csWaitRequest", !.c.partial = @ \/ status = "done"]
        [] opcode \in Data /\ c.request.frame.fin /\ status # "more" ->
             Executes([t EXCEPT !.c.partial = FALSE], answer)
        [] opcode = "ping" -> SendWebSocketPong(t)
        [] opcode = "pong" -> [t EXCEPT !.c.status = "csRequestOk"]
        [] OTHER -> SendWebSocketClose([t EXCEPT !.c.close = TRUE])

\* The stream of a read is parsed until it ends, or an exception ends the connection.
RECURSIVE ParseStream(_, _, _)
ParseStream(s, stream, answer) ==
  LET r == LoadFromStream(s.c.request, stream)
  IN  CASE stream = <<>> \/ s.torn -> s
        [] stream # <<>> /\ ~s.torn /\ r.status = "error" -> Disconnect(s)
        [] OTHER -> ParseStream(Handles([s EXCEPT !.c.request = r.w], r.status, answer), r.rest, answer)

-----------------------------------------------------------------------------
(* Events *)

\* The model follows a connection until its parser has lost its place.
Runs == conn.open /\ ~torn
AtEnd(n) == ~peer.open /\ n = Len(toUs)
Closes(s) == IF s.c.graceful /\ s.c.open THEN Disconnect(s) ELSE s

\* DoRead: n bytes are read.  DoWrite follows in the same event if the socket had room when the event was
\* taken, before the reply: Wait goes by the mask of the event, and the reply may have filled the socket.
ServerReads(n, answer) ==
  LET read == [Self EXCEPT !.c.graceful = AtEnd(n), !.c.full = @ /\ Room(taken) = 0]
      s == Closes(ParseStream(read, SubSeq(toUs, 1, n), answer))
  IN  /\ wsPc = "wait" /\ Runs /\ ~conn.graceful
      /\ Becomes(s)
      /\ toUs' = SubSeq(toUs, n + 1, Len(toUs))
      /\ wsPc' = IF s.c.open /\ Room(taken) > 0 THEN "write" ELSE "wait"
      /\ UNCHANGED <<sent, peer, pushes>>

\* The end of the connection, or one that has been taken for it
ServerReadsEnd ==
  /\ wsPc = "wait" /\ Runs
  /\ AtEnd(0) \/ (conn.graceful /\ toUs # <<>>)
  /\ Becomes(Disconnect(Self))
  /\ UNCHANGED <<wsPc, toUs, sent, peer, pushes>>

WriteDue == wsPc = "write" \/ (wsPc = "wait" /\ conn.full /\ Room(taken) > 0)

\* DoWrite clears the connection even if the reply is not sent whole.  A write to a full socket (EAGAIN) sets
\* m_ClosedGracefully, and the connection ends here with what is left of the frame in its buffer.
ServerWrites ==
  LET w == Written([Self EXCEPT !.c.full = FALSE])
      sentAll == IF w.ok THEN [w.s EXCEPT !.c.status = "csReplySent"] ELSE w.s
      s == IF conn.status = "csReplyReady" THEN Clear(sentAll) ELSE [Self EXCEPT !.c.full = FALSE]
  IN  /\ Runs /\ WriteDue
      /\ Becomes(IF s.c.open /\ (s.c.graceful \/ s.c.close) THEN Disconnect(s) ELSE s)
      /\ wsPc' = "wait"
      /\ UNCHANGED <<toUs, sent, peer, pushes>>

\* DoTimeOut, for a connection that has switched protocols
ServerTimesOut ==
  /\ wsPc = "wait" /\ Runs /\ (conn.graceful \/ conn.close)
  /\ Becomes(Disconnect(Self))
  /\ UNCHANGED <<wsPc, toUs, sent, peer, pushes>>

\* Outside of an event the application sends a message or a ping.
AppSends(n, k, now, ping) ==
  LET data == [i \in 1..n |-> Plain(<<0, i>>)]
  IN  /\ wsPc = "wait" /\ Runs /\ pushes < MaxPushes
      /\ pushes' = pushes + 1
      /\ Becomes(IF ping THEN SendWebSocketPing(Self, data, now) ELSE SendWebSocket(Self, data, k, now))
      /\ UNCHANGED <<wsPc, toUs, sent, peer>>

\* A frame of the peer.  It keeps the rules of RFC 6455, but for a control frame that is too long or not the last,
\* and for an opcode the RFC reserves.
PeerSends(frame) ==
  LET f == Len(sent) + 1
      payload == [i \in 1..frame.length |-> <<f, i>>]
  IN  /\ peer.open /\ Runs /\ Len(sent) < MaxFrames
      /\ frame.opcode \in Data => (frame.opcode = "continuation") = peer.fragments
      /\ sent' = Append(sent, [fin |-> frame.fin, opcode |-> frame.opcode, payload |-> payload])
      /\ toUs' = toUs \o Layout(frame.fin, frame.opcode, IF peer.keys THEN f ELSE NoKey, payload)
      /\ peer' = [peer EXCEPT !.fragments = IF frame.opcode \in Data THEN ~frame.fin ELSE @]
      /\ UNCHANGED <<conn, wsPc, got, told, taken, torn, pushes>>

PeerReads ==
  /\ taken.unread > 0 /\ Runs
  /\ taken' = [taken EXCEPT !.unread = 0]
  /\ UNCHANGED <<conn, wsPc, toUs, sent, peer, got, told, torn, pushes>>

PeerCloses ==
  /\ peer.open /\ Runs
  /\ peer' = [peer EXCEPT !.open = FALSE]
  /\ UNCHANGED <<conn, wsPc, toUs, sent, got, told, taken, torn, pushes>>

WSNext ==
  \/ \E n \in 1..Len(toUs), answer \in {"none", "later", "now"} : ServerReads(n, answer)
  \/ ServerReadsEnd \/ ServerWrites \/ ServerTimesOut
  \/ \E n \in Lengths, k \in AppKeys, now, ping \in BOOLEAN : AppSends(n, k, now, ping)
  \/ \E frame \in Frames : PeerSends(frame)
  \/ PeerReads \/ PeerCloses

-----------------------------------------------------------------------------
(* Properties *)

\* The payloads of the frames of the peer that have opcode op
PayloadsOf(op) == LET frames == SelectSeq(sent, LAMBDA f : f.opcode = op)
                  IN  [i \in DOMAIN frames |-> [j \in DOMAIN frames[i].payload |-> Plain(frames[i].payload[j])]]

\* The messages of the peer: the payloads of their fragments, put together
Messages ==
  LET joined(a, f) ==
        LET part == a.part \o [j \in DOMAIN f.payload |-> Plain(f.payload[j])]
        IN  IF f.fin THEN [done |-> Append(a.done, part), part |-> <<>>] ELSE [a EXCEPT !.part = part]
  IN  FoldLeft(joined, [done |-> <<>>, part |-> <<>>], SelectSeq(sent, LAMBDA f : f.opcode \in Data)).done

\* However reads cut the frames of the peer, whatever key each of them has, the application is given the messages
\* they carry, each once, whole, unmasked and in order; and it has all of them when what was sent has been parsed.
MessagesExact ==
  torn \/ /\ IsPrefix(got, Messages)
          /\ conn.open /\ toUs = <<>> /\ Between(conn) => got = Messages

\* The pings of the peer are answered with what they carried, in order, none twice and none left out:
\* SendWebSocketPong copies the payload from the request that Parse goes on with.
PongsEcho ==
  torn \/ LET pongs == SelectSeq(told, LAMBDA f : f.opcode = "pong")
              pings == PayloadsOf("ping")
          IN  /\ IsPrefix([i \in DOMAIN pongs |-> pongs[i].payload], pings)
              /\ conn.open /\ toUs = <<>> /\ conn.request.state = "frame" => Len(pongs) = Len(pings)

\* What the peer has sent, messages and pings alike, reaches the application or comes back as it was.
ReceivedExact == MessagesExact /\ PongsEcho

\* What the socket has taken, in whatever parts, and what waits behind it in the output buffer is the frames the
\* server has queued, one after the other, each as RFC 6455 lays it out: no byte is lost, sent twice or out of
\* its place.  That the peer gets the rest is not promised: a reply that fills the socket inside DoRead is
\* followed by the DoWrite of the same event, and its EAGAIN ends the connection in the middle of the frame.
\* A masked frame without a payload has no room for its key in SaveToStream.
FramesExact ==
  (\A i \in DOMAIN told : told[i].payload = <<>> => told[i].key = NoKey) =>
    taken.bytes \o conn.out =
      FlattenSeq([i \in DOMAIN told |-> Layout(TRUE, told[i].opcode, told[i].key,
                                               [j \in DOMAIN told[i].payload |-> told[i].payload[j][2]])])
===============================================================================
