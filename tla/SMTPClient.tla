------------------------------ MODULE SMTPClient ------------------------------
(***************************************************************************)
(* CSMTPClient of libdelphi (src/src/SMTP.cpp): the messages of the         *)
(* application are sent one after the other, each over a connection of its  *)
(* own, in a dialogue that the command handlers (CCommandHandlers,          *)
(* src/src/Sockets.cpp) carry on from one reply to the next command.        *)
(*                                                                         *)
(* The server is external: it answers each command with a reply of one or   *)
(* two lines, whatever it says, and may hang up at any time.                *)
(***************************************************************************)
EXTENDS Naturals, SequencesExt

CONSTANTS
  Recipients,   \* how many a message may have
  MaxMessages,  \* bound on the messages of the application
  Cuts          \* whether a read may end inside of a reply

ASSUME RecipientAssumption == Recipients \subseteq Nat

VARIABLES
  messages,  \* [to, submitted] of each message in m_Messages
  client,    \* [active, index, toIndex, startTls, ssl] of CSMTPClient; ssl is that of port 465
  smtp,      \* CSMTPConnection, the one in use
  smtpPc,    \* where the event loop is: "wait" or "write"
  toClient,  \* bytes of replies the client has not read
  toServer,  \* what the client has written and the server has not read
  server,    \* the external server
  outcome,   \* [concluded, accepted, plain, why]: what has come of it, see below
  replies    \* [ends, misread]: where in toClient a reply ends; a part of one was taken for a whole

smtpVars == <<messages, client, smtp, smtpPc, toClient, toServer, server, outcome, replies>>

\* concluded: Done and Fail of messages, in their order;  accepted: what the server has taken for delivery;
\* plain: credentials were sent in the clear;  why: what has kept a message from its conclusion
NoOutcome == [concluded |-> <<>>, accepted |-> <<>>, plain |-> FALSE, why |-> {}]

NoCode == <<>>
\* A CSMTPCommand that has just been made or cleared; m_ErrorMessage is not among what Clear clears.
NewCommand(name, arg) == [name |-> name, arg |-> arg, code |-> NoCode]
NoConnection == [open |-> FALSE, status |-> "csConnected", command |-> NewCommand("CONNECT", 0), out |-> <<>>,
                 tls |-> FALSE, graceful |-> FALSE]
\* The external server: whether it is there and has greeted, and the recipients it has accepted.
NoServer == [open |-> FALSE, greeted |-> FALSE, to |-> <<>>]
Listening(is) == [NoServer EXCEPT !.open = is]

SMTPInit ==
  /\ messages = <<>>
  /\ client \in [active : {FALSE}, index : {1}, toIndex : {1}, startTls : {FALSE}, ssl : BOOLEAN]
  /\ smtp = NoConnection /\ smtpPc = "wait"
  /\ toClient = <<>> /\ toServer = <<>> /\ server = NoServer
  /\ outcome = NoOutcome /\ replies = [ends |-> {}, misread |-> FALSE]

-----------------------------------------------------------------------------
(* CSMTPReplyParser.  A parser is made for every read; what it has of a line  *)
(* when the read ends is lost, but the code it has found stays with the      *)
(* command.  Its line is only told from an empty one.                        *)

Digits == {"2", "3", "4", "5", "0", "1"}
ControlBytes == {"CR", "LF"}

More == [result |-> "more", state |-> "smtp_code", digits |-> <<>>, line |-> FALSE, code |-> NoCode, found |-> FALSE]

\* Consume; ends says that there is no more input.
Consume(p, byte, ends) ==
  LET invalid == [p EXCEPT !.result = "invalid"]
  IN  CASE p.state = "smtp_code" ->
             IF byte \in ControlBytes THEN invalid
             ELSE [p EXCEPT !.line = TRUE,
                            !.digits = IF byte \in Digits THEN Append(@, byte) ELSE @,
                            !.state = CASE byte = " " -> "smtp_code_space"
                                        [] byte = "-" -> "smtp_code_hyphen"
                                        [] byte \in Digits -> "smtp_code"
                                        [] OTHER -> "smtp_text"]
        [] p.state \in {"smtp_code_space", "smtp_code_hyphen"} ->
             [p EXCEPT !.code = p.digits, !.found = TRUE, !.digits = <<>>, !.state = "smtp_text"]
        [] p.state = "smtp_text" ->
             IF byte = "CR" THEN [p EXCEPT !.state = "smtp_newline"] ELSE IF byte \in ControlBytes THEN invalid ELSE p
        [] p.state = "smtp_newline" ->
             IF byte # "LF" THEN invalid
             ELSE [p EXCEPT !.line = FALSE, !.state = "smtp_code", !.result = IF ends THEN "complete" ELSE "more"]

Parse(p, input) ==
  LET Taken(q, i) == IF q.result = "more" THEN Consume(q, input[i], i = Len(input)) ELSE q
  IN  FoldLeft(Taken, p, [i \in DOMAIN input |-> i])

\* The code a read leaves in the command that had one
ParsedCode(p, code) == IF p.found THEN p.code ELSE code

-----------------------------------------------------------------------------
(* The methods of the client and its connection are functions on d =          *)
(* [messages, client, c, outcome].                                           *)

Present == [messages |-> messages, client |-> client, c |-> smtp, outcome |-> outcome]

Results(d) ==
  /\ messages' = d.messages /\ client' = d.client /\ smtp' = d.c /\ outcome' = d.outcome

Because(d, reason) == [d EXCEPT !.outcome.why = @ \cup {reason}]

\* CSMTPConnection::NewCommand
Commands(d, name, arg) == [d EXCEPT !.c.command = NewCommand(name, arg), !.c.status = "csRequestReady"]

DisconnectClient(d) == [d EXCEPT !.c.open = FALSE, !.c.graceful = TRUE, !.c.out = <<>>]

\* CAsyncClient::ConnectStart to a server that listens or does not
ConnectStart(d, connects) ==
  [(IF connects THEN d ELSE Because(d, "connect")) EXCEPT !.c = [NoConnection EXCEPT !.open = connects, !.tls = d.client.ssl]]

\* Mutant of SendNext: the recipients of the next message go on where the last one's ended.
SendNextGoesOn(d, connects) ==
  LET next == [d EXCEPT !.client.index = @ + 1]
  IN  IF next.client.index <= Len(d.messages) THEN ConnectStart(next, connects) ELSE DisconnectClient(next)

\* The connection of the last message is disconnected by its command handler after that.
SendNext(d, connects) ==
  LET next == [d EXCEPT !.client.index = @ + 1]
  IN  IF next.client.index <= Len(d.messages) THEN ConnectStart([next EXCEPT !.client.toIndex = 1], connects)
      ELSE DisconnectClient(next)

Current(d) == d.messages[d.client.index]

\* RCPT TO the next recipient; there is an exception if there is none.
NextRecipient(d) ==
  LET next == [d EXCEPT !.client.toIndex = @ + 1]
  IN  IF d.client.toIndex \in DOMAIN Current(d).to THEN Commands(next, "TO", Current(d).to[d.client.toIndex])
      ELSE Because(next, "recipient")

-----------------------------------------------------------------------------
(* The command handlers: DoCommand finds the one of the command that has     *)
(* been replied to.  code is that of the reply.                              *)

Ok == <<"2", "5", "0">>
Forwards == <<"2", "5", "1">>
Ready == <<"2", "2", "0">>
Authorized == <<"2", "3", "5">>
Begin == <<"3", "5", "4">>
Bye == <<"2", "2", "1">>
Refused == <<"5", "5", "0">>
Unavailable == <<"4", "2", "1">>

\* Mutant of DoCONNECT: TLS of the connection before is taken for that of this one.
DoCONNECTKeeps(d, code) == IF code = Ready THEN Commands(d, "HELLO", 0) ELSE Because(d, "greeting")

\* m_CloseConnection is set if the server is not ready; nothing reads it.
DoCONNECT(d, code) ==
  IF code = Ready THEN Commands([d EXCEPT !.client.startTls = d.c.tls], "HELLO", 0) ELSE Because(d, "greeting")

DoHELLO(d, code) ==
  IF code # Ok THEN Commands(d, "QUIT", 0)
  ELSE IF d.client.startTls THEN Commands(d, "AUTH", 0) ELSE Commands(d, "STARTTLS", 0)

\* ConnectSSL throws if the handshake fails at once: the reply has been handled, and nothing follows it.
DoSTARTTLS(d, code, shakes) ==
  IF code # Ready THEN Commands(d, "QUIT", 0)
  ELSE IF shakes THEN Commands([d EXCEPT !.c.tls = TRUE, !.client.startTls = TRUE], "HELLO", 0)
  ELSE Because(d, "handshake")

DoAUTH(d, code) == IF code = Authorized THEN Commands(d, "FROM", 0) ELSE Commands(d, "QUIT", 0)
DoFROM(d, code) == IF code = Ok THEN NextRecipient(d) ELSE Commands(d, "QUIT", 0)
DoTO(d, code) ==
  IF code \notin {Ok, Forwards} THEN Commands(d, "QUIT", 0)
  ELSE IF d.client.toIndex \in DOMAIN Current(d).to THEN NextRecipient(d) ELSE Commands(d, "DATA", 0)
DoDATA(d, code) == IF code \in {Ok, Begin} THEN Commands(d, "CONTENT", d.client.index) ELSE Commands(d, "QUIT", 0)
DoCONTENT(d, code) ==
  Commands([d EXCEPT !.messages[d.client.index].submitted = @ \/ code = Ok], "QUIT", 0)

\* Whatever the server says
DoQUIT(d, code, connects) ==
  SendNext([d EXCEPT !.outcome.concluded = Append(@, [message |-> d.client.index, done |-> Current(d).submitted])],
           connects)

Handled(d, code, works) ==
  LET name == d.c.command.name
  IN  CASE name = "CONNECT" -> DoCONNECT(d, code)
        [] name = "HELLO" -> DoHELLO(d, code)
        [] name = "STARTTLS" -> DoSTARTTLS(d, code, works)
        [] name = "AUTH" -> DoAUTH(d, code)
        [] name = "FROM" -> DoFROM(d, code)
        [] name = "TO" -> DoTO(d, code)
        [] name = "DATA" -> DoDATA(d, code)
        [] name = "CONTENT" -> DoCONTENT(d, code)
        [] name = "QUIT" -> DoQUIT(d, code, works)

-----------------------------------------------------------------------------
(* The application *)

\* NewMessage; once SendNext has come to the end of the list, nothing sends what is added to it.
AddsMessage(n) ==
  /\ Len(messages) < MaxMessages
  /\ messages' = Append(messages, [to |-> [i \in 1..n |-> i], submitted |-> FALSE])
  /\ outcome' = [outcome EXCEPT !.why = IF client.index > Len(messages) /\ client.active THEN @ \cup {"late"} ELSE @]
  /\ UNCHANGED <<client, smtp, smtpPc, toClient, toServer, server, replies>>

\* SendMail: a client that is active stays as it is.
SendsMail(connects) ==
  /\ messages # <<>> /\ ~client.active
  /\ Results(ConnectStart([Present EXCEPT !.client.active = TRUE], connects))
  /\ server' = Listening(connects)
  /\ UNCHANGED <<smtpPc, toClient, toServer, replies>>

-----------------------------------------------------------------------------
(* Events of the client *)

\* The server's side of the connection the client is left with after d
Served(d) ==
  IF d.client.index = client.index THEN UNCHANGED <<server, toServer>>
  ELSE server' = Listening(d.c.open) /\ toServer' = <<>>

\* DoRead: n bytes are read, and make a reply or not; a new connection has nothing to be written.
ClientReads(n, works) ==
  LET p == Parse(More, SubSeq(toClient, 1, n))
      code == ParsedCode(p, smtp.command.code)
      read == [Present EXCEPT !.c.command.code = code, !.c.graceful = ~server.open /\ n = Len(toClient)]
      d == CASE p.result = "invalid" -> Because(DisconnectClient(read), "reply")
             [] p.result = "complete" -> Handled([read EXCEPT !.c.status = "csReplyOk"], code, works)
             [] OTHER -> [read EXCEPT !.c.status = "csWaitReply"]
      same == d.client.index = client.index /\ d.c.open
  IN  /\ smtp.open /\ smtpPc = "wait" /\ ~smtp.graceful
      /\ Cuts \/ n = Len(toClient)
      /\ Results(d)
      /\ toClient' = IF same THEN SubSeq(toClient, n + 1, Len(toClient)) ELSE <<>>
      /\ smtpPc' = IF same THEN "write" ELSE "wait"
      /\ replies' = [ends |-> IF same THEN {e - n : e \in {m \in replies.ends : m > n}} ELSE {},
                     misread |-> replies.misread \/ (p.result = "complete" /\ n \notin replies.ends)]
      /\ Served(d)

\* The server has hung up, and everything it said has been read. The connection is closed when that is seen again.
ClientReadsEnd ==
  /\ smtp.open /\ smtpPc = "wait" /\ ~server.open /\ toClient = <<>>
  /\ Results(Because(IF smtp.graceful THEN DisconnectClient(Present) ELSE [Present EXCEPT !.c.graceful = TRUE], "hangup"))
  /\ smtpPc' = "wait"
  /\ UNCHANGED <<toClient, toServer, server, replies>>

\* Mutant of AfterWrite: what a socket has not taken is forgotten.
AfterWriteForgets(whole) == "csWaitReply"
AfterWrite(whole) == IF whole THEN "csWaitReply" ELSE "csRequestSent"

HasCommand == smtp.open /\ smtp.status \in {"csRequestReady", "csRequestSent"}

\* DoWrite, the socket takes n of what there is to be written. A command is two pieces, its data and the line's end.
ClientWrites(n) ==
  LET out == smtp.out \o (IF smtp.status = "csRequestReady" THEN <<smtp.command, "CRLF">> ELSE <<>>)
      written == [Present EXCEPT !.c.out = SubSeq(out, n + 1, Len(out)), !.c.status = AfterWrite(n = Len(out)),
                              !.outcome.plain = @ \/ (smtp.command.name = "AUTH" /\ ~smtp.tls)]
  IN  /\ HasCommand /\ n <= Len(out)
      /\ smtp.status = "csRequestReady" => smtpPc = "write"
      /\ Results(IF smtp.graceful THEN Because(DisconnectClient(Present), "hangup") ELSE written)
      /\ toServer' = IF server.open /\ ~smtp.graceful THEN toServer \o SubSeq(out, 1, n) ELSE <<>>
      /\ smtpPc' = "wait"
      /\ UNCHANGED <<toClient, server, replies>>

\* After a read there may be nothing to write.
NothingToWrite ==
  /\ smtpPc = "write" /\ ~HasCommand
  /\ smtpPc' = "wait"
  /\ UNCHANGED <<messages, client, smtp, toClient, toServer, server, outcome, replies>>

\* CEPollClient::DoTimeOut, for an application that has no handler for it
ClientTimesOut ==
  /\ smtp.open /\ smtpPc = "wait"
  /\ Results(Because(DisconnectClient(Present), "timeout"))
  /\ toClient' = <<>> /\ toServer' = <<>>
  /\ replies' = [replies EXCEPT !.ends = {}]
  /\ UNCHANGED <<smtpPc, server>>

-----------------------------------------------------------------------------
(* The server.  It accepts a message for the recipients it has accepted.     *)

Line(code, separator) == code \o separator \o <<"CR", "LF">>
Forms(code) ==
  {Line(code, <<" ", "text">>), Line(code, <<>>), Line(code, <<"-", "text">>) \o Line(code, <<" ", "text">>)}

Says(code) ==
  \E reply \in Forms(code) :
    /\ toClient' = toClient \o reply
    /\ replies' = [replies EXCEPT !.ends = @ \cup {Len(toClient) + Len(reply)}]

Answers(name) ==
  CASE name \in {"HELLO", "FROM", "CONTENT"} -> {Ok, Refused}
    [] name = "TO" -> {Ok, Forwards, Refused}
    [] name = "STARTTLS" -> {Ready, Refused}
    [] name = "AUTH" -> {Authorized, Refused}
    [] name = "DATA" -> {Begin, Refused}
    [] name = "QUIT" -> {Bye}

ServerGreets ==
  /\ smtp.open /\ server.open /\ ~server.greeted
  /\ server' = [server EXCEPT !.greeted = TRUE]
  /\ \E code \in {Ready, Refused} : Says(code)
  /\ UNCHANGED <<messages, client, smtp, smtpPc, toServer, outcome>>

ServerAnswers(code) ==
  LET command == toServer[1]
      taken == [message |-> command.arg, to |-> server.to]
  IN  /\ smtp.open /\ server.open /\ server.greeted /\ Len(toServer) >= 2
      /\ code \in Answers(command.name)
      /\ Says(code)
      /\ toServer' = SubSeq(toServer, 3, Len(toServer))
      /\ server' = [server EXCEPT !.to = IF command.name = "TO" /\ code # Refused THEN Append(@, command.arg) ELSE @,
                                  !.open = code # Bye]
      /\ outcome' = [outcome EXCEPT !.accepted = IF command.name = "CONTENT" /\ code = Ok THEN Append(@, taken) ELSE @]
      /\ UNCHANGED <<messages, client, smtp, smtpPc>>

\* It may say so before it hangs up.
ServerHangsUp ==
  /\ smtp.open /\ server.open
  /\ server' = [server EXCEPT !.open = FALSE]
  /\ outcome' = [outcome EXCEPT !.why = @ \cup {"hangup"}]
  /\ Says(Unavailable) \/ UNCHANGED <<toClient, replies>>
  /\ UNCHANGED <<messages, client, smtp, smtpPc, toServer>>

SMTPNext ==
  \/ \E n \in Recipients : AddsMessage(n)
  \/ \E connects \in BOOLEAN : SendsMail(connects)
  \/ \E n \in 1..Len(toClient), works \in BOOLEAN : ClientReads(n, works)
  \/ ClientReadsEnd
  \/ \E n \in 1..4 : ClientWrites(n)
  \/ NothingToWrite \/ ClientTimesOut
  \/ ServerGreets
  \/ \E code \in {Ok, Forwards, Ready, Authorized, Begin, Bye, Refused} : ServerAnswers(code)
  \/ ServerHangsUp

SMTPSpec == SMTPInit /\ [][SMTPNext]_smtpVars

-----------------------------------------------------------------------------
(* Properties *)

\* Messages are concluded in their order, each once. One is Done only if the server has accepted it, once and for
\* every recipient; one that failed has not been accepted, unless the server hung up after that (DoTO's m_ToIndex,
\* Submitted, and SendNext, over the connections of several messages).
DoneIsAccepted ==
  /\ \A k \in DOMAIN outcome.concluded :
       LET end == outcome.concluded[k]
           taken == SelectSeq(outcome.accepted, LAMBDA a : a.message = k)
       IN  /\ end.message = k
           /\ end.done => taken = <<[message |-> k, to |-> messages[k].to]>>
           /\ taken # <<>> => end.done \/ "hangup" \in outcome.why
  /\ Len(outcome.accepted) <= Len(outcome.concluded) + 1

\* User name and password are sent only over TLS: m_bStartTls is the client's, and every message has a connection
\* of its own, which begins without TLS (DoCONNECT, DoHELLO, DoSTARTTLS).
AuthOverTls == ~outcome.plain

\* Nobody has anything to do for the client's messages.
Idle ==
  /\ client.active /\ smtpPc = "wait" /\ ~HasCommand
  /\ smtp.open => toClient = <<>> /\ server.open /\ server.greeted /\ Len(toServer) < 2

\* When nothing is left to be done, every message has been concluded, by Done or by Fail, but for those behind one
\* of the events of which the client loses sight: no connection, a greeting that is not 220, an empty text, a
\* handshake that fails, no recipient, a time-out, a server that hangs up, a message added after the last was sent.
NoneForgotten == Idle /\ outcome.why = {} => Len(outcome.concluded) = Len(messages)

\* "The int return value is "1" when a complete request has been parsed" (SMTP.hpp:190)
CompleteReply == ~replies.misread
===============================================================================
