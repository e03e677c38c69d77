------------------------------ MODULE HTTPProxy ------------------------------
(***************************************************************************)
(* CHTTPProxy of libdelphi (src/src/HTTP.cpp): a CHTTPClient that sends its *)
(* request to an HTTP proxy, or through a tunnel that a SOCKS5 server opens *)
(* for it.  What it reads of SOCKS5 it takes for a whole reply, whose       *)
(* length says which one.                                                   *)
(*                                                                         *)
(* The server is external, with the target behind it: it answers each       *)
(* message of the dialogue, and may refuse, or hang up at any time.         *)
(***************************************************************************)
EXTENDS Naturals, SequencesExt

CONSTANTS
  MaxDials  \* bound on the connections

VARIABLES
  proxy,       \* [kind, type, active, ssl, https]: kind is the type the application gave it
  tunnel,      \* CHTTPClientConnection, the one in use
  tunnelPc,    \* where the event loop is: "wait" or "write"
  downstream,  \* what the client has not read yet
  upstream,    \* what it has written and the server has not read, as [text, tls]
  relay,       \* the external server
  dials,       \* how many connections there have been
  traffic      \* [requests, heard, forwarded, replies, answers, why]: what came of this connection, see below

proxyVars == <<proxy, tunnel, tunnelPc, downstream, upstream, relay, dials, traffic>>

Methods == <<"version", "one method", "no password">>
ConnectTo == <<"connect", "host", "port">>
Request == <<"request", "its end">>
Reply == <<"reply", "its end">>

\* requests: how many the client has made;  heard, forwarded: what the server kept, and what it gave the target;
\* replies: of the target;  answers: given to the application;  why: what has led the dialogue astray or ended it
NoTraffic == [requests |-> 0, heard |-> <<>>, forwarded |-> <<>>, replies |-> 0, answers |-> 0, why |-> {}]
NotConnected == [open |-> FALSE, status |-> "csConnected", out |-> <<>>, read |-> <<>>, graceful |-> FALSE, tls |-> FALSE]
\* The external server
NoRelay == [open |-> FALSE, stage |-> "methods"]

ProxyInit ==
  /\ proxy \in {[kind |-> k, type |-> k, active |-> FALSE, ssl |-> FALSE, https |-> h] :
                  k \in {"ptHTTP", "ptSOCKS5"}, h \in BOOLEAN}
  /\ tunnel = NotConnected /\ tunnelPc = "wait" /\ downstream = <<>> /\ upstream = <<>>
  /\ relay = NoRelay /\ dials = 0 /\ traffic = NoTraffic

-----------------------------------------------------------------------------
(* The client's operations on d = [proxy, c, up, traffic, threw]           *)

Now == [proxy |-> proxy, c |-> tunnel, up |-> upstream, traffic |-> traffic, threw |-> FALSE]
Happened(d, why) == [d EXCEPT !.traffic.why = @ \cup {why}]
Threw(d, why) == [Happened(d, why) EXCEPT !.threw = TRUE]
Dropped(d) == [d EXCEPT !.c = NotConnected, !.up = <<>>]

Marked(texts, tls) == [i \in DOMAIN texts |-> [text |-> texts[i], tls |-> tls]]

\* WriteAsync: the socket takes room pieces of the output.  A full one (EAGAIN) sets m_ClosedGracefully, as the end
\* of the connection does; a connection that is found closed is disconnected.
WriteAsync(d, room) ==
  LET n == IF room > Len(d.c.out) THEN Len(d.c.out) ELSE room
  IN  CASE d.c.out = <<>> -> d
        [] d.c.out # <<>> /\ d.c.graceful -> Dropped(Happened(d, "hangup"))
        [] d.c.out # <<>> /\ ~d.c.graceful /\ room = 0 -> Happened([d EXCEPT !.c.graceful = TRUE], "full")
        [] OTHER -> [d EXCEPT !.c.out = SubSeq(@, n + 1, Len(@)), !.up = @ \o Marked(SubSeq(d.c.out, 1, n), d.c.tls)]

\* DoRequest with SendRequest
DoRequest(d, room) ==
  LET ready == [d EXCEPT !.c.out = @ \o Request, !.c.status = "csRequestReady", !.traffic.requests = @ + 1]
      sent == WriteAsync(ready, room)
  IN  IF sent.c.out = <<>> THEN [sent EXCEPT !.c.status = "csRequestSent"] ELSE sent

\* SetUsedSSL: the client's, for this connection and those to come, and TLS on the one it has
SetUsedSSL(d) == [d EXCEPT !.proxy.ssl = d.proxy.https, !.c.tls = d.proxy.https]

DoHandshake(d, room) ==
  IF d.proxy.type = "ptSOCKS5" THEN [d EXCEPT !.up = Marked(Methods, FALSE)] ELSE DoRequest(d, room)

SOCKS5(d) == [d EXCEPT !.c.out = @ \o ConnectTo]

\* Mutant of TakesReply: every reply that is not an error opens the tunnel.
TakesAnyReply(d, bytes, room) == DoRequest(SetUsedSSL([d EXCEPT !.proxy.type = "ptHTTP"]), room)
TakesReply(d, bytes, room) ==
  IF Len(bytes) = 2 THEN SOCKS5(d)
  ELSE DoRequest(SetUsedSSL([d EXCEPT !.proxy.type = "ptHTTP"]), room)

\* DoRead while m_ProxyType is ptSOCKS5.  ReadBuffer throws if there is one byte.
ReadSOCKS5(d, bytes, ended, room, shakes) ==
  CASE d.c.graceful -> Threw(Dropped(d), "hangup")
    [] ~d.c.graceful /\ bytes = <<>> -> [d EXCEPT !.c.graceful = ended]
    [] ~d.c.graceful /\ Len(bytes) = 1 -> Threw(d, "cut")
    [] ~d.c.graceful /\ Len(bytes) > 1 ->
         IF bytes[1] = "5" /\ bytes[2] \in {"granted", "expired"}
         THEN IF Len(bytes) > 2 /\ d.proxy.https /\ ~shakes
              THEN Threw(SetUsedSSL([d EXCEPT !.proxy.type = "ptHTTP"]), "handshake")
              ELSE TakesReply(d, bytes, room)
         ELSE Threw(d, "error")

\* CHTTPClient::DoRead; CloseConnection is TRUE unless the application changes it.
ReadHTTP(d, bytes, ended) ==
  LET text == d.c.read \o bytes
  IN  CASE d.c.graceful -> Dropped(Happened(d, "hangup"))
        [] ~d.c.graceful /\ bytes = <<>> -> [d EXCEPT !.c.graceful = ended]
        [] ~d.c.graceful /\ bytes # <<>> /\ text = Reply ->
             Dropped([d EXCEPT !.c.status = "csReplyOk", !.traffic.answers = @ + 1])
        [] ~d.c.graceful /\ bytes # <<>> /\ text # Reply ->
             IF IsPrefix(text, Reply) THEN [d EXCEPT !.c.read = text, !.c.status = "csWaitReply"]
             ELSE Happened([d EXCEPT !.c.read = <<>>, !.c.status = "csReplyError"], "garbage")

DoRead(d, bytes, ended, room, shakes) ==
  IF d.proxy.type = "ptHTTP" THEN ReadHTTP(d, bytes, ended) ELSE ReadSOCKS5(d, bytes, ended, room, shakes)

-----------------------------------------------------------------------------
(* The application *)

\* Active(true), ConnectStart and DoConnect.  With TLS from the beginning, which a tunnel used before leaves behind,
\* nothing comes of a connection: the server speaks SOCKS5.
ProxyDials(connects, room) ==
  LET fresh == [Now EXCEPT !.proxy.active = TRUE, !.c = [NotConnected EXCEPT !.open = TRUE], !.traffic = NoTraffic]
      used == IF proxy.type # proxy.kind THEN Happened(fresh, "reused") ELSE fresh
      d == IF connects THEN DoHandshake(used, room) ELSE Dropped(fresh)
  IN  /\ ~proxy.active /\ dials < MaxDials
      /\ connects => ~proxy.ssl
      /\ proxy' = d.proxy /\ tunnel' = d.c /\ upstream' = d.up /\ traffic' = d.traffic
      /\ relay' = [NoRelay EXCEPT !.open = connects]
      /\ dials' = dials + 1
      /\ tunnelPc' = "wait" /\ downstream' = <<>>

\* Active(false): CloseAllConnection
ProxyDeactivates ==
  /\ proxy.active /\ tunnelPc = "wait"
  /\ proxy' = [proxy EXCEPT !.active = FALSE]
  /\ tunnel' = NotConnected /\ downstream' = <<>> /\ upstream' = <<>>
  /\ traffic' = [traffic EXCEPT !.why = @ \cup {"closed"}]
  /\ UNCHANGED <<tunnelPc, relay, dials>>

-----------------------------------------------------------------------------
(* Events of the client *)

Takes(d) ==
  /\ proxy' = d.proxy /\ tunnel' = d.c /\ upstream' = d.up
  /\ traffic' = d.traffic

\* While the dialogue lasts, a part of a reply is taken for one.
Read(d, n) == IF d.proxy.type = "ptSOCKS5" /\ n < Len(downstream) THEN Happened(d, "cut") ELSE d
RelayGone(n) == ~relay.open /\ n = Len(downstream)
Left(c, n) == downstream' = IF c.open THEN SubSeq(downstream, n + 1, Len(downstream)) ELSE <<>>

\* DoRead with n bytes, and then DoWrite if the socket was writable when the event was taken.  What DoRead throws
\* leaves CEPoll::Wait, and the write of the same event is lost.
ProxyReads(n, room, shakes, writable) ==
  LET d == DoRead(Read(Now, n), SubSeq(downstream, 1, n), RelayGone(n), room, shakes)
  IN  /\ tunnel.open /\ tunnelPc = "wait"
      /\ n = 0 => downstream = <<>> /\ ~relay.open
      /\ Takes(d) /\ Left(d.c, n)
      /\ tunnelPc' = IF d.threw \/ ~d.c.open \/ ~writable THEN "wait" ELSE "write"
      /\ UNCHANGED <<relay, dials>>

HasOutput == tunnelPc = "write" \/ tunnel.out # <<>>
\* An event of its own for the write says that there is room; after a read there may be none left.
HasRoom(room) == HasOutput /\ (tunnelPc = "wait" => room > 0)

\* DoWrite of the HTTP client deletes a connection with m_ClosedGracefully, whatever has set it: the write of the
\* same call, which found the socket full, too.
ProxyWrites(room) ==
  LET d == IF tunnel.status = "csRequestReady" THEN WriteAsync(Now, room) ELSE Now
      sent == IF d.c.open /\ tunnel.status = "csRequestReady" /\ d.c.out = <<>>
              THEN [d EXCEPT !.c.status = "csRequestSent"] ELSE d
  IN  /\ tunnel.open /\ proxy.type = "ptHTTP" /\ HasRoom(room)
      /\ Takes(IF tunnel.graceful \/ sent.c.graceful THEN Dropped(Happened(sent, "hangup")) ELSE sent)
      /\ Left(tunnel', 0)
      /\ tunnelPc' = "wait"
      /\ UNCHANGED <<relay, dials>>

\* DoWrite of the dialogue: when all has been written, what has come since is read, n bytes of it.
ProxyWritesSOCKS5(room, n, more, shakes) ==
  LET w == WriteAsync(Now, room)
      d == IF w.c.open /\ w.c.out = <<>>
           THEN DoRead(Read(w, n), SubSeq(downstream, 1, n), RelayGone(n), more, shakes) ELSE w
  IN  /\ tunnel.open /\ proxy.type = "ptSOCKS5" /\ HasRoom(room)
      /\ w.c.out # <<>> => n = 0
      /\ Takes(IF d.threw THEN Dropped(d) ELSE d)
      /\ Left(tunnel', n)
      /\ tunnelPc' = "wait"
      /\ UNCHANGED <<relay, dials>>

\* CEPollClient::DoTimeOut
ProxyTimesOut ==
  /\ tunnel.open /\ tunnelPc = "wait"
  /\ Takes(Dropped(Happened(Now, "timeout")))
  /\ downstream' = <<>>
  /\ UNCHANGED <<tunnelPc, relay, dials>>

-----------------------------------------------------------------------------
(* The server.  It gives the target what comes once the tunnel is open; an  *)
(* HTTP proxy is all target.                                                *)

Texts == [i \in DOMAIN upstream |-> upstream[i].text]
Serving == tunnel.open /\ relay.open

RelayAnswers(stage, message, answer, next, why) ==
  /\ Serving /\ proxy.kind = "ptSOCKS5" /\ relay.stage = stage
  /\ IsPrefix(message, Texts)
  /\ upstream' = SubSeq(upstream, Len(message) + 1, Len(upstream))
  /\ downstream' = downstream \o answer
  /\ relay' = [relay EXCEPT !.stage = next]
  /\ traffic' = [traffic EXCEPT !.heard = @ \o SubSeq(upstream, 1, Len(message)), !.why = @ \cup why]
  /\ UNCHANGED <<proxy, tunnel, tunnelPc, dials>>

RelayNegotiates ==
  \/ RelayAnswers("methods", Methods, <<"5", "granted">>, "connect", {})
  \/ RelayAnswers("methods", Methods, <<"5", "refused">>, "closed", {"refused"})
  \/ RelayAnswers("connect", ConnectTo, <<"5", "granted", "0", "address">>, "tunnel", {})
  \/ RelayAnswers("connect", ConnectTo, <<"5", "refused", "0", "address">>, "closed", {"refused"})
  \/ RelayAnswers("connect", ConnectTo, <<"5", "expired", "0", "address">>, "closed", {"expired"})

Open == proxy.kind = "ptHTTP" \/ relay.stage = "tunnel"

RelayForwards ==
  /\ Serving /\ Open /\ upstream # <<>>
  /\ traffic' = [traffic EXCEPT !.forwarded = Append(@, Head(upstream))]
  /\ upstream' = Tail(upstream)
  /\ UNCHANGED <<proxy, tunnel, tunnelPc, downstream, relay, dials>>

Asked == Cardinality({i \in DOMAIN traffic.forwarded : traffic.forwarded[i].text = "its end"})

TargetReplies ==
  /\ Serving /\ Open /\ traffic.replies < Asked
  /\ downstream' = downstream \o Reply
  /\ traffic' = [traffic EXCEPT !.replies = @ + 1]
  /\ UNCHANGED <<proxy, tunnel, tunnelPc, upstream, relay, dials>>

\* Also when it gets what it does not expect
RelayHangsUp ==
  /\ Serving
  /\ relay' = [relay EXCEPT !.open = FALSE]
  /\ traffic' = [traffic EXCEPT !.why = @ \cup {"hangup"}]
  /\ UNCHANGED <<proxy, tunnel, tunnelPc, downstream, upstream, dials>>

ProxyNext ==
  \/ \E connects \in BOOLEAN, room \in 0..2 : ProxyDials(connects, room)
  \/ ProxyDeactivates
  \/ \E n \in 0..Len(downstream), room \in 0..2, shakes, writable \in BOOLEAN :
       ProxyReads(n, room, shakes, writable)
  \/ \E room \in 0..3 : ProxyWrites(room)
  \/ \E room \in 0..3, n \in 0..Len(downstream), more \in 0..2, shakes \in BOOLEAN :
       ProxyWritesSOCKS5(room, n, more, shakes)
  \/ ProxyTimesOut
  \/ RelayNegotiates \/ RelayForwards \/ TargetReplies \/ RelayHangsUp

ProxySpec == ProxyInit /\ [][ProxyNext]_proxyVars

-----------------------------------------------------------------------------
(* Properties *)

\* Nothing moves without the server, the application or a time-out.
ProxyIdles ==
  /\ tunnel.open /\ ~HasOutput /\ downstream = <<>> /\ relay.open
  /\ IF Open THEN upstream = <<>> /\ traffic.replies = Asked ELSE upstream = <<>>

\* A connection makes one request at most, and the application gets no answer the target has not given. The target
\* gets the request and nothing else, over TLS if it asks for it, and the SOCKS5 server none of it, whether it
\* grants the tunnel or refuses it and however the writes are cut.  A dialogue goes on until it has ended: with the
\* answer, or because the server refuses or hangs up, the application closes, the time is over, or a write finds the
\* socket full, which the client takes for the end of the connection.
\* This holds unless a read ends inside of a reply (DoRead goes by its length), the server says that the TTL
\* expired (DoRead takes 6 for granted) or the proxy is connected again (m_ProxyType stays ptHTTP).
TunnelExact ==
  /\ traffic.requests <= 1
  /\ traffic.why \cap {"cut", "expired", "reused"} = {} =>
       /\ IsPrefix(traffic.forwarded, Marked(Request, proxy.kind = "ptSOCKS5" /\ proxy.https))
       /\ IsPrefix(traffic.heard, Marked(Methods \o ConnectTo, FALSE))
       /\ traffic.answers <= traffic.replies
       /\ relay.stage # "tunnel" /\ proxy.kind = "ptSOCKS5" => traffic.requests = 0
  /\ traffic.why = {} => ~ProxyIdles
=============================================================================
