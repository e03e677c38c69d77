----------------------------- MODULE MCChannels -----------------------------
(***************************************************************************)
(* Instances for TLC of the modules on the protocols the library speaks on  *)
(* top of its connections: a WebSocket connection, the sessions of its      *)
(* message protocol, the SMTP client, the client of an HTTP or SOCKS5       *)
(* proxy, and the fetches of libcurl.  They share no state: each behaviour  *)
(* is one of one part, and the variables of the others keep one initial     *)
(* value.                                                                   *)
(***************************************************************************)
EXTENDS WebSocket, SMTPClient, Sessions, HTTPProxy, CURLClient

VARIABLE part

vars == <<part, wsVars, smtpVars, sessionVars, proxyVars, curlVars>>

Init ==
  /\ part \in {"websocket", "smtp", "sessions", "proxy", "curl"}
  /\ WSInit /\ (part # "websocket" => ~peer.keys /\ taken.room = 5)
  /\ SMTPInit /\ (part # "smtp" => ~client.ssl)
  /\ SessionInit
  /\ ProxyInit /\ (part # "proxy" => proxy.kind = "ptHTTP" /\ ~proxy.https)
  /\ CurlInit
Next ==
  /\ UNCHANGED part
  /\ \/ part = "websocket" /\ WSNext /\ UNCHANGED <<smtpVars, sessionVars, proxyVars, curlVars>>
     \/ part = "smtp" /\ SMTPNext /\ UNCHANGED <<wsVars, sessionVars, proxyVars, curlVars>>
     \/ part = "sessions" /\ SessionNext /\ UNCHANGED <<wsVars, smtpVars, proxyVars, curlVars>>
     \/ part = "proxy" /\ ProxyNext /\ UNCHANGED <<wsVars, smtpVars, sessionVars, curlVars>>
     \/ part = "curl" /\ CurlNext /\ UNCHANGED <<wsVars, smtpVars, sessionVars, proxyVars>>
Spec == Init /\ [][Next]_vars

Frame(fin, opcode, n) == [fin |-> fin, opcode |-> opcode, length |-> n]
\* The last two break the rules of RFC 6455.
MCFrames ==
  {Frame(TRUE, "text", 0), Frame(TRUE, "text", 3), Frame(FALSE, "text", 1),
   Frame(FALSE, "continuation", 1), Frame(TRUE, "continuation", 2),
   Frame(TRUE, "ping", 0), Frame(TRUE, "ping", 1), Frame(TRUE, "pong", 0), Frame(TRUE, "close", 0),
   Frame(FALSE, "ping", 0), Frame(TRUE, "reserved", 0)}
=============================================================================
