----------------------------- MODULE HTTPParser -----------------------------
(***************************************************************************)
(* The incremental HTTP parsers of libdelphi (src/src/HTTP.cpp):            *)
(* CHTTPRequestParser and CHTTPReplyParser, and the serializers             *)
(* CHTTPRequest::ToBuffers and CHTTPReply::ToBuffers they must invert.      *)
(*                                                                         *)
(* A byte is a string: a character by itself or by its name ("SP", "CR"),   *)
(* and a word ("GET", "Length") stands for letters that the parsers treat   *)
(* alike.  A parser is a record: what the connection remembers from one     *)
(* read to the next (see Memory) and what lives only as long as the read:   *)
(* the bytes left of the buffer, a half-read escape, a half-read chunk size.*)
(***************************************************************************)
EXTENDS Integers, SequencesExt

-----------------------------------------------------------------------------
(* Bytes *)

HexDigits == <<"0", "1", "2", "3", "4", "5", "6", "7", "8", "9", "a", "b", "c", "d", "e", "f">>
Digits == {HexDigits[i] : i \in 1..10}
HexValue == [d \in Range(HexDigits) |-> SelectInSeq(HexDigits, LAMBDA e : e = d) - 1]

Ctl == {"CR", "LF", "TAB", "NUL"}
TSpecial == {":", ";", "/", "?", "=", "SP", "TAB"}

IsHex(b) == b \in DOMAIN HexValue
\* The characters of a method or of a header's name.
IsName(b) == b \notin Ctl \cup TSpecial

\* strtoul in a base, of digits
Number(s, base) == FoldLeft(LAMBDA n, d : n * base + HexValue[d], 0, s)

\* The digits of a small number
IntToStr(n, base) ==
  IF n < base THEN <<HexDigits[n + 1]>> ELSE <<HexDigits[(n \div base) + 1], HexDigits[(n % base) + 1]>>

\* The byte an escape stands for; anything but an escape the model uses is some other byte.
Escapes == [SP |-> <<"2", "0">>]
HexToDec(s) == IF s = Escapes["SP"] THEN "SP" ELSE "other"

URLEncode(s) ==
  FlattenSeq([i \in DOMAIN s |-> IF s[i] \in DOMAIN Escapes THEN <<"%">> \o Escapes[s[i]] ELSE <<s[i]>>])

\* URLDecode fails iff an escape is cut off at the end.
URLDecodes(s) ==
  FoldLeft(LAMBDA skip, b : IF skip > 0 THEN skip - 1 ELSE IF b = "%" THEN 2 ELSE 0, 0, s) = 0

-----------------------------------------------------------------------------
(* Messages *)

NoMessage == [start |-> <<>>, uri |-> <<>>, params |-> <<>>, headers |-> <<>>,
              content |-> <<>>, length |-> 0, form |-> <<>>]

ContentLength == <<"Content-", "Length">>
ContentType == <<"Content-", "Type">>
TransferEncoding == <<"Transfer-Encoding">>

\* CHeaders::operator[]: the value of the first header of that name, or nothing
Value(headers, name) ==
  LET i == SelectInSeq(headers, LAMBDA h : h.name = name)
  IN  IF i = 0 THEN <<>> ELSE headers[i].value

Header(name, value) == [name |-> name, value |-> value]
Version == <<"H", "T", "T", "P", "/", "1", ".", "1">>
CRLF == <<"CR", "LF">>

HeaderBytes(headers) ==
  FlattenSeq([i \in DOMAIN headers |-> headers[i].name \o <<":", "SP">> \o headers[i].value \o CRLF])

\* CHTTPRequest::Prepare: the type and the length of a content that is not empty
Prepared(r) ==
  LET described == << Header(ContentType, r.type), Header(ContentLength, IntToStr(Len(r.content), 10)) >>
  IN  [start |-> r.start, uri |-> r.uri, params |-> r.params, content |-> r.content,
       headers |-> IF r.content = <<>> THEN <<>> ELSE described]

ParamBytes(params) ==
  FlattenSeq([i \in DOMAIN params |-> <<IF i = 1 THEN "?" ELSE "&">> \o params[i]])

RequestBytes(m) ==
  m.start \o <<"SP">> \o m.uri \o ParamBytes(m.params) \o <<"SP">> \o Version \o CRLF
    \o HeaderBytes(m.headers) \o CRLF \o m.content

\* CHTTPReply::InitReply: the content in chunks of a fixed size, then an empty one
Chunks(content, size) ==
  LET count == (Len(content) + size - 1) \div size
      chunk(i) == SubSeq(content, (i - 1) * size + 1, IF i = count THEN Len(content) ELSE i * size)
      coded(s) == IntToStr(Len(s), 16) \o CRLF \o s \o CRLF
  IN  FlattenSeq([i \in 1..count |-> coded(chunk(i))]) \o coded(<<>>)

\* The framing is chosen by content and transfer encoding.
ReplyBytes(m, chunked, size) ==
  LET headers == CASE m.content = <<>> -> <<>>
                   [] m.content # <<>> /\ chunked -> <<Header(TransferEncoding, <<"chunked">>)>>
                   [] OTHER -> <<Header(ContentLength, IntToStr(Len(m.content), 10))>>
      body == IF m.content # <<>> /\ chunked THEN Chunks(m.content, size) ELSE m.content
  IN  Version \o <<"SP">> \o m.start \o <<"SP", "text">> \o CRLF
        \o HeaderBytes(headers) \o CRLF \o body

-----------------------------------------------------------------------------
(* Parsers.  result is that of Consume and Parse: 1 a complete message, 0   *)
(* invalid data, -1 more data is required.                                  *)

\* What m_State, m_ContentLength, m_ChunkedLength and the message keep between two reads.
Fresh(state) == [state |-> state, left |-> 0, chunkLeft |-> 0, msg |-> NoMessage]

\* CHTTPContext, CHTTPReplyContext: MIME and Chunked start out empty in every read.
Reading(memory, bytes) ==
  memory @@ [mime |-> <<>>, chunked |-> <<>>, rest |-> bytes, result |-> -1]

\* Mutant: how much of the content is still to come is not saved.
MemoryForgets(p) == [f \in {"state", "left", "chunkLeft", "msg"} |-> IF f = "left" THEN 0 ELSE p[f]]

\* What the connection saves of a parser that needs more.
Memory(p) == [f \in {"state", "left", "chunkLeft", "msg"} |-> p[f]]

Goto(p, state) == [p EXCEPT !.state = state]
Reject(p) == [p EXCEPT !.result = 0]
Complete(p) == [p EXCEPT !.result = 1]

\* The last string of a list gets one more byte.
Extend(strings, b) == [strings EXCEPT ![Len(strings)] = Append(@, b)]

NewHeader(p, b) == [p EXCEPT !.msg.headers = Append(@, Header(<<b>>, <<>>))]
ToName(p, b) == [p EXCEPT !.msg.headers[Len(p.msg.headers)].name = Append(@, b)]
ToValue(p, b) == [p EXCEPT !.msg.headers[Len(p.msg.headers)].value = Append(@, b)]

(* The states that only check a byte and move on. *)

On(bytes, state) == [b \in bytes |-> state]

\* The version, and what follows it
VersionSteps(end, next) ==
  [http_version_h |-> On({"H"}, "http_version_t_1"),
   http_version_t_1 |-> On({"T"}, "http_version_t_2"),
   http_version_t_2 |-> On({"T"}, "http_version_p"),
   http_version_p |-> On({"P"}, "http_version_slash"),
   http_version_slash |-> On({"/"}, "http_version_major_start"),
   http_version_major_start |-> On(Digits, "http_version_major"),
   http_version_major |-> On(Digits, "http_version_major") @@ On({"."}, "http_version_minor_start"),
   http_version_minor_start |-> On(Digits, "http_version_minor"),
   http_version_minor |-> On(Digits, "http_version_minor") @@ On({end}, next),
   expecting_newline_1 |-> On({"LF"}, "header_line_start"),
   expecting_newline_2 |-> On({"LF"}, "header_line_start"),
   space_before_header_value |-> On({"SP"}, "header_value")]

RequestSteps == VersionSteps("CR", "expecting_newline_1")
ReplySteps == VersionSteps("SP", "http_status_start")

Step(steps, p, b) ==
  IF b \in DOMAIN steps[p.state] THEN Goto(p, steps[p.state][b]) ELSE Reject(p)

(* Headers; optionEnds tells whether a line may end right after a semicolon. *)

HeaderStates == {"header_line_start", "header_lws", "header_name", "header_value",
                 "header_value_options_start", "header_value_options"}

HeaderStep(p, b, optionEnds) ==
  LET at(s) == p.state = s
  IN  CASE at("header_line_start") /\ b = "CR" -> Goto(p, "expecting_newline_3")
        [] at("header_line_start") /\ b \in {"SP", "TAB"} /\ p.msg.headers # <<>> -> Goto(p, "header_lws")
        [] at("header_line_start") /\ IsName(b) -> Goto(NewHeader(p, b), "header_name")
        [] at("header_lws") /\ b \in {"SP", "TAB"} -> p
        [] at("header_lws") /\ b \notin Ctl \cup {"SP"} -> Goto(ToValue(p, b), "header_value")
        [] at("header_name") /\ b = ":" -> Goto(p, "space_before_header_value")
        [] at("header_name") /\ IsName(b) -> ToName(p, b)
        [] p.state \in {"header_lws", "header_value", "header_value_options"} /\ b = "CR" ->
             Goto(p, "expecting_newline_2")
        [] p.state \in {"header_value", "header_value_options"} /\ b = ";" ->
             Goto(ToValue(p, b), "header_value_options_start")
        [] p.state \in {"header_value", "header_value_options"} /\ b \notin Ctl \cup {";"} -> ToValue(p, b)
        [] at("header_value_options_start") /\ b = "CR" /\ optionEnds -> Goto(p, "expecting_newline_2")
        [] at("header_value_options_start") /\ b \in {"SP", "TAB"} -> ToValue(p, b)
        [] at("header_value_options_start") /\ b \notin Ctl \cup {"SP"} ->
             Goto(ToValue(p, b), "header_value_options")
        [] OTHER -> Reject(p)

(* Content.  p.rest holds what follows b in the buffer. *)

ContentStep(p, b) ==
  LET buffer == <<b>> \o p.rest
      n == IF p.left > Len(buffer) THEN Len(buffer) ELSE p.left
      taken == [p EXCEPT !.rest = SubSeq(buffer, n + 1, Len(buffer)),
                         !.left = @ - n,
                         !.msg.content = @ \o SubSeq(buffer, 1, n),
                         !.msg.length = @ + n]
  IN  CASE p.left = 0 -> Complete(p)
        [] p.left # 0 /\ n = p.left -> Complete(taken)
        [] OTHER -> taken

\* After the empty line: without a length the content is the rest of this buffer.
EndOfHead(p) ==
  LET given == Value(p.msg.headers, ContentLength)
  IN  [p EXCEPT !.msg.length = 0,
                !.left = IF given = <<>> THEN Len(p.rest) ELSE Number(given, 10)]

ToContent(p) == IF p.left > 0 THEN Goto(p, "content") ELSE Complete(p)

-----------------------------------------------------------------------------
(* CHTTPRequestParser *)

NewParam(p, b) == [p EXCEPT !.msg.params = Append(@, <<b>>)]
ToParam(p, b) == [p EXCEPT !.msg.params = Extend(@, b)]

RequestLineStates == {"method_start", "method", "uri", "uri_param_start", "uri_param", "uri_param_mime"}

\* uri_param_mime takes any two bytes for an escape.
UriEscape(p, b) ==
  LET code == Append(p.mime, b)
  IN  IF Len(code) = 2 THEN Goto(ToParam([p EXCEPT !.mime = <<>>], HexToDec(code)), "uri_param")
      ELSE [p EXCEPT !.mime = code]

RequestLine(p, b) ==
  LET at(s) == p.state = s
      q == [p EXCEPT !.msg.uri = Append(@, b)]
  IN  CASE at("method_start") /\ IsName(b) ->
             Goto([p EXCEPT !.msg = [NoMessage EXCEPT !.start = <<b>>]], "method")
        [] at("method") /\ b = "SP" -> Goto(p, "uri")
        [] at("method") /\ IsName(b) -> [p EXCEPT !.msg.start = Append(@, b)]
        [] p.state \in {"uri", "uri_param_start", "uri_param"} /\ b = "SP" -> Goto(p, "http_version_h")
        [] at("uri") /\ b = "?" -> Goto(q, "uri_param_start")
        [] at("uri") /\ b \notin Ctl \cup {"SP", "?"} -> q
        [] p.state \in {"uri_param_start", "uri_param"} /\ b = "&" -> Goto(q, "uri_param_start")
        [] at("uri_param_start") /\ b \notin Ctl \cup {"SP", "&"} -> Goto(NewParam(q, b), "uri_param")
        [] at("uri_param") /\ b = "#" -> Goto(q, "uri")
        [] at("uri_param") /\ b = "%" -> Goto([q EXCEPT !.mime = <<>>], "uri_param_mime")
        [] at("uri_param") /\ b = "+" -> ToParam(q, "SP")
        [] at("uri_param") /\ b \notin Ctl \cup {"SP", "&", "#", "%", "+"} -> ToParam(q, b)
        [] at("uri_param_mime") -> UriEscape(q, b)
        [] OTHER -> Reject(p)

RequestHeadEnds(p) ==
  LET q == EndOfHead(p)
      isForm == Contains(Value(p.msg.headers, ContentType), "x-www-form-urlencoded")
  IN  CASE ~URLDecodes(p.msg.uri) -> Reject(p)
        [] URLDecodes(p.msg.uri) /\ isForm -> Goto([q EXCEPT !.msg.length = q.left], "form_data_start")
        [] OTHER -> ToContent(q)

ToForm(p, b) == [p EXCEPT !.msg.form = Extend(@, b)]

\* A form ends with the buffer, once a byte is an escape's.
FormEscape(p, b) ==
  LET code == Append(p.mime, b)
      q == IF Len(code) = 2 THEN Goto(ToForm([p EXCEPT !.mime = <<>>], HexToDec(code)), "form_data")
           ELSE [p EXCEPT !.mime = code]
  IN  IF p.rest = <<>> THEN Complete(q) ELSE q

\* Only an ordinary byte is compared with the length of the form.
FormStep(p, b) ==
  LET q == [p EXCEPT !.msg.content = Append(@, b)]
      at(s) == p.state = s
      plain == ToForm(q, b)
      more == Len(q.msg.content) < q.msg.length
  IN  CASE at("form_data_start") /\ b \notin Ctl ->
             Goto([q EXCEPT !.msg.form = Append(@, <<b>>)], "form_data")
        [] at("form_data") /\ b = "LF" -> Complete(q)
        [] at("form_data") /\ b = "CR" -> q
        [] at("form_data") /\ b = "&" -> Goto(q, "form_data_start")
        [] at("form_data") /\ b = "+" -> ToForm(q, "SP")
        [] at("form_data") /\ b = "%" -> Goto([q EXCEPT !.mime = <<>>], "form_mime")
        [] at("form_data") /\ b \notin Ctl \cup {"&", "+", "%"} -> IF more THEN plain ELSE Complete(plain)
        [] at("form_mime") -> FormEscape(q, b)
        [] OTHER -> Reject(q)

ConsumeRequest(p) ==
  LET b == Head(p.rest)
      q == [p EXCEPT !.rest = Tail(@)]
  IN  CASE q.state \in RequestLineStates -> RequestLine(q, b)
        [] q.state \in DOMAIN RequestSteps -> Step(RequestSteps, q, b)
        [] q.state \in HeaderStates -> HeaderStep(q, b, FALSE)
        [] q.state = "expecting_newline_3" -> IF b = "LF" THEN RequestHeadEnds(q) ELSE Reject(q)
        [] q.state = "content" -> ContentStep(q, b)
        [] q.state \in {"form_data_start", "form_data", "form_mime"} -> FormStep(q, b)

-----------------------------------------------------------------------------
(* CHTTPReplyParser *)

StatusStates == {"http_status_start", "http_status", "http_status_text_start", "http_status_text"}

\* The text of the status is not kept.
StatusStep(p, b) ==
  LET at(s) == p.state = s
  IN  CASE p.state \in {"http_status_start", "http_status"} /\ b \in Digits ->
             Goto([p EXCEPT !.msg.start = Append(@, b)], "http_status")
        [] at("http_status") /\ b = "SP" -> Goto(p, "http_status_text_start")
        [] at("http_status_text") /\ b = "CR" -> Goto(p, "expecting_newline_1")
        [] at("http_status_text_start") \/ (at("http_status_text") /\ b # "CR") -> Goto(p, "http_status_text")
        [] OTHER -> Reject(p)

ReplyHeadEnds(p) ==
  LET q == EndOfHead(p)
      chunked == /\ Value(p.msg.headers, ContentLength) = <<>>
                 /\ Value(p.msg.headers, TransferEncoding) = <<"chunked">>
  IN  IF chunked THEN Goto(q, "content_checking_length") ELSE ToContent(q)

\* Content that reaches to the end of the buffer leaves the state as it is, even if it ends the chunk.
ChunkData(p, b) ==
  LET buffer == <<b>> \o p.rest
      inside == Len(buffer) > p.chunkLeft
      n == IF inside THEN p.chunkLeft ELSE Len(buffer)
      taken == [p EXCEPT !.rest = SubSeq(buffer, n + 1, Len(buffer)),
                         !.chunkLeft = @ - n,
                         !.msg.content = @ \o SubSeq(buffer, 1, n),
                         !.msg.length = @ + n]
  IN  CASE p.chunkLeft = 0 -> Complete(p)
        [] p.chunkLeft # 0 /\ inside -> Goto(taken, "content_checking_newline")
        [] OTHER -> taken

ChunkStep(p, b) ==
  LET at(s) == p.state = s
  IN  CASE at("content_checking_length") /\ IsHex(b) -> [p EXCEPT !.chunked = Append(@, b)]
        [] at("content_checking_length") /\ b = "CR" /\ p.chunked # <<>> ->
             [p EXCEPT !.chunkLeft = Number(p.chunked, 16)]
        [] at("content_checking_length") /\ b = "LF" -> Goto(p, "content_checking_data")
        [] at("content_checking_newline") /\ b = "CR" -> [p EXCEPT !.chunked = <<>>, !.chunkLeft = 0]
        [] at("content_checking_newline") /\ b = "LF" -> Goto(p, "content_checking_length")
        [] at("content_checking_data") -> ChunkData(p, b)
        [] OTHER -> Reject(p)

ConsumeReply(p) ==
  LET b == Head(p.rest)
      q == [p EXCEPT !.rest = Tail(@), !.msg = IF p.state = "http_version_h" THEN NoMessage ELSE @]
  IN  CASE q.state \in DOMAIN ReplySteps -> Step(ReplySteps, q, b)
        [] q.state \in StatusStates -> StatusStep(q, b)
        [] q.state \in HeaderStates -> HeaderStep(q, b, TRUE)
        [] q.state = "expecting_newline_3" -> IF b = "LF" THEN ReplyHeadEnds(q) ELSE Reject(q)
        [] q.state = "content" -> ContentStep(q, b)
        [] OTHER -> ChunkStep(q, b)

-----------------------------------------------------------------------------
(* Parse goes on while the buffer lasts and no result is known.             *)

Parse(p, Consume(_)) ==
  LET after[k \in 0..Len(p.rest)] ==
        IF k = 0 THEN p
        ELSE LET q == after[k - 1] IN IF q.result = -1 /\ q.rest # <<>> THEN Consume(q) ELSE q
  IN  after[Len(p.rest)]

ParseRequest(memory, bytes) == Parse(Reading(memory, bytes), ConsumeRequest)
ParseReply(memory, bytes) == Parse(Reading(memory, bytes), ConsumeReply)
=============================================================================
