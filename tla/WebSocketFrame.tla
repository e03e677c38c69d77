---------------------------- MODULE WebSocketFrame ----------------------------
(***************************************************************************)
(* CWebSocket of libdelphi (src/src/Sockets.cpp): a WebSocket frame, how it *)
(* is written to a stream, and the parser that loads it from what a read    *)
(* has returned and goes on with the next read.                            *)
(*                                                                         *)
(* A byte is a tuple that begins with its part in the frame.  A byte of     *)
(* data carries the key bytes it has been xored with; to xor it twice with  *)
(* the same byte gives the data back, with another one garbage.            *)
(***************************************************************************)
EXTENDS Naturals, SequencesExt

CONSTANTS
  Small,    \* the longest payload whose length is in the second byte (125)
  Medium    \* the longest payload whose length takes two more bytes (0xFFFF)

ASSUME LengthAssumption == Small \in Nat \ {0} /\ Medium \in Nat /\ Small < Medium

WS_PAYLOAD_LENGTH_16 == Small + 1
WS_PAYLOAD_LENGTH_64 == Small + 2

NoKey == 0
Controls == {"close", "ping", "pong"}
Data == {"continuation", "text", "binary"}

FirstByte(fin, opcode) == <<"head", fin, opcode>>
SecondByte(mask, length) == <<"size", mask, length>>
Extended(n, width) == [i \in 1..width |-> <<"extended", n, i>>]
Key(k) == [i \in 1..4 |-> <<"key", k, i>>]
Plain(b) == <<"data", b, {}>>
Xor(byte, k) == [byte EXCEPT ![3] = (@ \cup {k}) \ (@ \cap {k})]

\* The byte of the key that byte i (from 0) of a payload is xored with
KeyByte(k, i) == <<k, i % 4>>

\* RFC 6455, 5.2: what a frame looks like, whoever sends it
Layout(fin, opcode, k, payload) ==
  LET n == Len(payload)
      mask == k # NoKey
  IN  <<FirstByte(fin, opcode)>>
      \o (CASE n <= Small -> <<SecondByte(mask, n)>>
            [] n > Small /\ n <= Medium -> <<SecondByte(mask, WS_PAYLOAD_LENGTH_16)>> \o Extended(n, 2)
            [] n > Medium -> <<SecondByte(mask, WS_PAYLOAD_LENGTH_64)>> \o Extended(n, 8))
      \o (IF mask THEN Key(k) ELSE <<>>)
      \o [i \in 1..n |-> IF mask THEN Xor(Plain(payload[i]), KeyByte(k, i - 1)) ELSE Plain(payload[i])]

-----------------------------------------------------------------------------
(* A frame to be sent *)

NoFrame == [fin |-> TRUE, opcode |-> "none", mask |-> FALSE, length |-> 0, key |-> NoKey]
NewSocket == [state |-> "frame", frame |-> NoFrame, payload |-> <<>>, position |-> 0, size |-> 0, index |-> 0]

\* CWebSocket::SetPayload of data; a key of the application sets the mask, which stays.
SetPayload(w, opcode, data, k) ==
  LET n == Len(data)
      length == CASE n <= Small -> n
                  [] n > Small /\ n <= Medium -> WS_PAYLOAD_LENGTH_16
                  [] n > Medium -> WS_PAYLOAD_LENGTH_64
      frame == [w.frame EXCEPT !.fin = TRUE, !.opcode = opcode, !.length = length]
  IN  [w EXCEPT !.frame = IF k = NoKey THEN frame ELSE [frame EXCEPT !.mask = TRUE, !.key = k],
                !.payload = data, !.position = n]

Encode(w) == [i \in DOMAIN w.payload |-> Xor(w.payload[i], KeyByte(w.frame.key, i - 1))]

\* Mutant of PayloadToStream: the length of a long payload is left out.
PayloadToStreamShort(w) ==
  IF w.frame.mask THEN Key(w.frame.key) \o Encode(w) ELSE w.payload

PayloadToStream(w) ==
  (CASE w.frame.length = WS_PAYLOAD_LENGTH_16 -> Extended(Len(w.payload), 2)
     [] w.frame.length = WS_PAYLOAD_LENGTH_64 -> Extended(Len(w.payload), 8)
     [] OTHER -> <<>>)
  \o (IF w.frame.mask THEN Key(w.frame.key) \o Encode(w) ELSE w.payload)

SaveToStream(w) ==
  <<FirstByte(w.frame.fin, w.frame.opcode), SecondByte(w.frame.mask, w.frame.length)>>
  \o (IF w.frame.length > 0 THEN PayloadToStream(w) ELSE <<>>)

\* CWebSocket::Close, Ping, Pong: what the frame has become, to be saved then
Control(w, opcode) == [w EXCEPT !.frame.fin = TRUE, !.frame.opcode = opcode, !.frame.mask = FALSE]

-----------------------------------------------------------------------------
(* LoadFromStream on r = [w, rest, status]: the stages of a frame, each of    *)
(* which may find the end of the stream.  status is "go" between stages,     *)
(* "error" for an exception, and else names the result: -1, 1 or 0.          *)

Ended(r) == IF r.rest = <<>> THEN [r EXCEPT !.status = "more"] ELSE r
Due(r, stage) == r.status = "go" /\ r.w.state = stage
Fails(r) == [r EXCEPT !.status = "error"]
Consumed(r, n, w) == [r EXCEPT !.rest = SubSeq(@, n + 1, Len(@)), !.w = w]

LoadHeader(r) ==
  LET head == r.rest[1]
      size == r.rest[2]
      wrong == head[3] \in Controls /\ (~head[2] \/ size[3] > Small)
      frame == [r.w.frame EXCEPT !.fin = head[2], !.opcode = head[3], !.mask = size[2], !.length = size[3]]
  IN  IF Len(r.rest) < 2 \/ wrong THEN Fails(r)
      ELSE Ended(Consumed(r, 2, [r.w EXCEPT !.frame = frame, !.state = "extended"]))

LoadExtended(r) ==
  LET width == CASE r.w.frame.length = WS_PAYLOAD_LENGTH_16 -> 2
                 [] r.w.frame.length = WS_PAYLOAD_LENGTH_64 -> 8
                 [] OTHER -> 0
      n == IF width = 0 THEN r.w.frame.length ELSE r.rest[1][2]
      next == IF r.w.frame.mask THEN "masking_key" ELSE "payload_start"
  IN  IF Len(r.rest) < width THEN Fails(r)
      ELSE Ended(Consumed(r, width, [r.w EXCEPT !.size = n, !.state = next]))

LoadMaskingKey(r) ==
  IF Len(r.rest) < 4 THEN Fails(r)
  ELSE Ended(Consumed(r, 4, [r.w EXCEPT !.frame.key = r.rest[1][2], !.state = "payload_start"]))

\* Mutant of PayloadStart: the place in the key goes on from one fragment to the next.
PayloadStartGoesOn(r) ==
  LET first == r.w.frame.opcode # "continuation"
      kept == IF first THEN <<>> ELSE r.w.payload
  IN  Ended([r EXCEPT !.w.payload = kept \o [i \in 1..r.w.size |-> Plain(0)],
                      !.w.position = IF first THEN 0 ELSE @,
                      !.w.index = IF first THEN 0 ELSE @,
                      !.w.state = "payload"])

\* Room for the payload; that of a continuation is added to what there is.
PayloadStart(r) ==
  LET first == r.w.frame.opcode # "continuation"
      kept == IF first THEN <<>> ELSE r.w.payload
  IN  Ended([r EXCEPT !.w.payload = kept \o [i \in 1..r.w.size |-> Plain(0)],
                      !.w.position = IF first THEN 0 ELSE @,
                      !.w.index = 0,
                      !.w.state = "payload"])

\* PayloadFromStream and Decode
PayloadFromStream(r) ==
  LET w == r.w
      room == Len(w.payload) - w.position
      n == IF room > Len(r.rest) THEN Len(r.rest) ELSE room
      byte(i) == IF w.frame.mask THEN Xor(r.rest[i], KeyByte(w.frame.key, w.index + i - 1)) ELSE r.rest[i]
      read == [w EXCEPT !.payload = [j \in DOMAIN @ |->
                                       IF j \in w.position + 1 .. w.position + n THEN byte(j - w.position) ELSE @[j]],
                        !.position = @ + n,
                        !.index = IF w.frame.mask THEN @ + n ELSE @]
      next == Consumed(r, n, read)
  IN  IF n = room THEN [next EXCEPT !.w.state = "frame", !.status = "done"] ELSE Ended(next)

Stage(r, stage) ==
  CASE ~Due(r, stage) -> r
    [] Due(r, stage) /\ stage = "frame" -> LoadHeader(r)
    [] Due(r, stage) /\ stage = "extended" -> LoadExtended(r)
    [] Due(r, stage) /\ stage = "masking_key" -> LoadMaskingKey(r)
    [] Due(r, stage) /\ stage = "payload_start" -> PayloadStart(r)
    [] Due(r, stage) /\ stage = "payload" -> PayloadFromStream(r)

LoadFromStream(w, stream) ==
  Stage(Stage(Stage(Stage(Stage([w |-> w, rest |-> stream, status |-> "go"],
    "frame"), "extended"), "masking_key"), "payload_start"), "payload")
===============================================================================
