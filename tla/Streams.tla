------------------------------- MODULE Streams -------------------------------
(***************************************************************************)
(* CMemoryStream and CString (src/src/Classes.cpp), two growing buffers a  *)
(* program reads and writes as streams, and a file it loads them from and  *)
(* saves them to.  A CString also knows its length, and c_str() writes the *)
(* final NUL where the text ends, so that its buffer must have a byte more *)
(* than the text.                                                          *)
(* Left out: Format, the conversions of numbers, Upper and Lower, and a    *)
(* CString written as a stream without SetLength, whose c_str() cuts the   *)
(* text at its old length.                                                 *)
(***************************************************************************)
EXTENDS SequencesExt, FiniteSets, Integers

CONSTANTS Chars,        \* what a buffer holds
          Texts,        \* what a program writes
          Delta,        \* MemoryDelta, StringDelta: the grain of an allocation
          MaxSize       \* bound: the longest content

VARIABLES buffer,       \* the object: class, m_Data, m_Capacity, m_Size, m_Length, m_Position
          content,      \* what the calls so far have put into it
          place,        \* where the next read or write of it goes
          got,          \* what the last read returned, and should have
          file          \* the content of a file

streamVars == <<buffer, content, place, got, file>>

Garbage == "garbage"    \* memory nobody has written
NUL == "NUL"
EmptyBuffer(class) ==
  [class |-> class, data |-> << >>, size |-> 0, length |-> 0, position |-> 0, overrun |-> FALSE]
Capacity(b) == Len(b.data)
IsString(b) == b.class = "CString"
Holds(b) == SubSeq(b.data, 1, b.size)

-----------------------------------------------------------------------------
(* The streams' own operations.                                            *)

\* Realloc rounds unless the wish is the size the stream has.  A CString
\* rounds up to more than it asked for.
\* Mutant of RoundUp: both round up to what was asked for.
RoundUpBare(b, n) == IF n = 0 \/ n = b.size THEN n ELSE ((n + Delta - 1) \div Delta) * Delta
RoundUp(b, n) ==
  IF n = 0 \/ n = b.size THEN n
  ELSE IF IsString(b) THEN ((n + Delta) \div Delta) * Delta ELSE ((n + Delta - 1) \div Delta) * Delta
\* The first allocation of a CString is zeroed, nothing else is.
Realloc(b, n) ==
  LET cap  == RoundUp(b, n)
      fill == IF IsString(b) /\ b.data = << >> THEN NUL ELSE Garbage
  IN  [i \in 1..cap |-> IF i <= Capacity(b) THEN b.data[i] ELSE fill]
SetBufferCapacity(b, n) == [b EXCEPT !.data = Realloc(b, n)]

SeekTo(b, offset) == [b EXCEPT !.position = offset]
SeekEnd(b, back) == [b EXCEPT !.position = IF b.size > back THEN b.size - back ELSE b.size]
\* SetSize keeps the position unless it is past the new end.
SetSize(b, n) ==
  LET s == [SetBufferCapacity(b, n) EXCEPT !.size = n] IN IF b.position > n THEN SeekEnd(s, 0) ELSE s

WriteAt(b, x) ==
  LET end  == b.position + Len(x)
      room == IF end > Capacity(b) /\ end > b.size THEN SetBufferCapacity(b, end) ELSE b
  IN  IF end = 0 THEN b
      ELSE IF end > Capacity(room) THEN [b EXCEPT !.overrun = TRUE]
      ELSE [room EXCEPT !.size = IF end > @ THEN end ELSE @,
                        !.data = [i \in DOMAIN @ |-> IF i > b.position /\ i <= end THEN x[i - b.position] ELSE @[i]],
                        !.position = end]

\* At most what is left; past the end the difference of the unsigned numbers
\* is huge, and the read is one of other memory.
ReadAt(b, n) ==
  IF b.position > b.size THEN [i \in 1..n |-> Garbage]
  ELSE SubSeq(Holds(b), b.position + 1, IF b.position + n > b.size THEN b.size ELSE b.position + n)
Advance(b, n) == [b EXCEPT !.position = @ + n]

-----------------------------------------------------------------------------
(* CString: the length is set first and the text is then written.          *)

\* A length of zero changes nothing.
SetLength(b, n) == IF n = 0 \/ n = b.length THEN b ELSE [SetSize(b, n) EXCEPT !.length = n]
WriteStr(b, x) == WriteAt(SetLength(b, b.length + Len(x)), x)
AddStr(b, x) == WriteStr(SeekEnd(b, 0), x)
SetStr(b, x) == WriteStr(SeekTo([b EXCEPT !.length = 0], 0), x)
AddChar(b, c, n) == WriteAt(SetLength(SeekEnd(b, 0), b.length + n), [i \in 1..n |-> c])
\* SetChar sets no size and writes one character at a time.
SetChar(b, c, n) == FoldSeq(LAMBDA x, w : WriteAt(w, <<x>>), SeekTo([b EXCEPT !.length = n], 0), [i \in 1..n |-> c])
Cleared(b) == EmptyBuffer(b.class)
\* operator=: the old buffer goes, and an empty text makes none.
Assigned(b, x) == IF x = << >> THEN Cleared(b) ELSE SetStr(Cleared(b), x)
\* Str() writes the NUL at the length.
Terminated(b) ==
  IF b.data = << >> THEN b
  ELSE IF b.length >= Capacity(b) THEN [b EXCEPT !.overrun = TRUE]
  ELSE [b EXCEPT !.data[b.length + 1] = NUL]
CStr(b) ==
  LET t == Terminated(b).data
  IN  IF t = << >> THEN << >>
      ELSE SubSeq(t, 1, (CHOOSE i \in 1..Len(t) : t[i] = NUL /\ \A j \in 1..(i - 1) : t[j] # NUL) - 1)

\* Find: the first place of a pattern in the text, 0 for npos.
FindText(t, p, from) ==
  LET at == {i \in (from + 1)..(Len(t) - Len(p) + 1) : SubSeq(t, i, i + Len(p) - 1) = p}
  IN  IF at = {} THEN 0 ELSE CHOOSE i \in at : \A j \in at : i <= j
\* SubString: a length that reaches past the end leaves NULs there.
SubString(t, start, n) ==
  IF start >= Len(t) THEN << >>
  ELSE [i \in 1..n |-> IF start + i <= Len(t) THEN t[start + i] ELSE NUL]
RECURSIVE ReplaceFrom(_, _, _, _)
ReplaceFrom(t, p, r, from) ==
  LET at == FindText(t, p, from)
  IN  IF at = 0 THEN SubSeq(t, from + 1, Len(t))
      ELSE SubSeq(t, from + 1, at - 1) \o r \o ReplaceFrom(t, p, r, at - 1 + Len(p))
\* Trim; a text of spaces only becomes an empty one.
TrimText(t) ==
  LET dark == {i \in DOMAIN t : t[i] # " "}
  IN  IF dark = {} THEN << >>
      ELSE SubSeq(t, CHOOSE i \in dark : \A j \in dark : i <= j, CHOOSE i \in dark : \A j \in dark : i >= j)
\* TrimLeft goes past the end of a text of spaces and does not return.
TrimLeftReturns(t) == t = << >> \/ \E i \in DOMAIN t : t[i] # " "
TrimLeftText(t) == IF t = << >> THEN t ELSE SubSeq(t, CHOOSE i \in DOMAIN t : t[i] # " " /\ \A j \in 1..(i - 1) : t[j] = " ", Len(t))
\* TrimRight looks at the first character to see whether there is something to do.
TrimRightText(t) ==
  IF t = << >> \/ t[1] # " " THEN t
  ELSE SubSeq(t, 1, Cardinality({i \in DOMAIN t : \E j \in i..Len(t) : t[j] # " "}))

-----------------------------------------------------------------------------
(* The calls.  content and place say what a stream that never runs out of  *)
(* room would hold.                                                        *)

Sized(n) == n <= MaxSize
BufferBecomes(b, c, p) == buffer' = b /\ content' = c /\ place' = p /\ got' = <<{}, {}>> /\ UNCHANGED file
IsText == IsString(buffer) /\ ~buffer.overrun
IsMemory == ~IsString(buffer) /\ ~buffer.overrun
\* A new size of the content; what is added is whatever the memory holds.
Resized(c, b) == [i \in 1..b.size |-> IF i <= Len(c) THEN c[i] ELSE b.data[i]]
Over(c, p, x) ==
  [i \in 1..(IF p + Len(x) > Len(c) THEN p + Len(x) ELSE Len(c)) |->
     IF i > p /\ i <= p + Len(x) THEN x[i - p] ELSE c[i]]

WriteStream == \E x \in Texts :
  /\ IsMemory /\ place <= Len(content) /\ Sized(place + Len(x))
  /\ BufferBecomes(WriteAt(buffer, x), Over(content, place, x), place + Len(x))
\* Read, and ReadBuffer, which throws if it is less than was asked for.
ReadStream == \E n \in 1..MaxSize :
  /\ ~buffer.overrun /\ place <= Len(content)
  /\ LET x == ReadAt(buffer, n)
         y == SubSeq(content, place + 1, IF place + n > Len(content) THEN Len(content) ELSE place + n)
     IN  /\ buffer' = Advance(buffer, Len(x)) /\ place' = place + Len(y)
         /\ got' = <<{x}, {y}>>
         /\ UNCHANGED <<content, file>>
SeekStream == \E n \in 0..Len(content) :
  /\ ~buffer.overrun
  /\ \/ BufferBecomes(SeekTo(buffer, n), content, n)
     \/ BufferBecomes(SeekEnd(buffer, n), content, IF Len(content) > n THEN Len(content) - n ELSE Len(content))
SizeStream == \E n \in 0..MaxSize :
  /\ IsMemory
  /\ LET b == SetSize(buffer, n) IN BufferBecomes(b, Resized(content, b), IF place > n THEN n ELSE place)
ClearStream == ~buffer.overrun /\ BufferBecomes(Cleared(buffer), << >>, 0)

AssignText == \E x \in Texts : IsText /\ BufferBecomes(Assigned(buffer, x), x, Len(x))
AppendText == \E x \in Texts \ {<< >>} :
  /\ IsText /\ Sized(Len(content) + Len(x))
  /\ BufferBecomes(AddStr(buffer, x), content \o x, Len(content) + Len(x))
AppendChars == \E c \in Chars, n \in 1..2 :
  /\ IsText /\ Sized(Len(content) + n)
  /\ BufferBecomes(AddChar(buffer, c, n), content \o [i \in 1..n |-> c], Len(content) + n)
\* Not with a multiple of Delta: a buffer that grew one character at a time is
\* then full, and the NUL of c_str() goes behind it.
AssignChars == \E c \in Chars, n \in 1..MaxSize :
  IsText /\ n % Delta # 0 /\ BufferBecomes(SetChar(Cleared(buffer), c, n), [i \in 1..n |-> c], n)
LengthOfText == \E n \in 1..MaxSize :
  /\ IsText
  /\ LET b == SetLength(buffer, n) IN BufferBecomes(b, Resized(content, b), IF place > n THEN n ELSE place)
\* c_str(), and with it every comparison and search.
UseCStr == IsText /\ BufferBecomes(Terminated(buffer), content, place)
\* The text is replaced by a part of itself.
EditText == \E t \in {SubString(content, i, n) : i \in 0..MaxSize, n \in 1..MaxSize}
                     \cup {ReplaceFrom(content, p, r, 0) : p \in Texts \ {<< >>}, r \in Texts}
                     \cup {TrimText(content), TrimRightText(content)}
                     \cup (IF TrimLeftReturns(content) THEN {TrimLeftText(content)} ELSE {}) :
  /\ IsText /\ ToSet(content) \subseteq Chars /\ Sized(Len(t))
  /\ BufferBecomes(Assigned(Terminated(buffer), t), t, Len(t))

\* LoadFromFile: SetSize or SetLength and one read.  SetLength(0) does
\* nothing, so a CString keeps its text when the file is empty.
LoadStream ==
  /\ ~buffer.overrun
  /\ LET b == IF IsString(buffer) THEN SetLength(buffer, Len(file)) ELSE SetSize(buffer, Len(file))
         c == IF file = << >> /\ IsString(buffer) THEN content ELSE file
     IN  BufferBecomes([b EXCEPT !.data = [i \in DOMAIN @ |-> IF i <= Len(file) THEN file[i] ELSE @[i]]],
                 c, IF place > Len(c) THEN Len(c) ELSE place)
\* SaveToFile: the file is truncated first, and a write that fails leaves it so.
SaveStream ==
  /\ ~buffer.overrun
  /\ file' \in {Holds(buffer), << >>}
  /\ UNCHANGED <<buffer, content, place, got>>
\* CopyFrom another stream, read from its start, that holds the same as the file.
CopyStream ==
  /\ IsMemory /\ file # << >> /\ place <= Len(content) /\ Sized(place + Len(file))
  /\ BufferBecomes(WriteAt(buffer, file), Over(content, place, file), place + Len(file))

StreamInit ==
  /\ \E class \in {"CString", "CMemoryStream"} : buffer = EmptyBuffer(class)
  /\ content = << >> /\ place = 0 /\ got = <<{}, {}>> /\ file = << >>
StreamNext ==
  \/ WriteStream \/ ReadStream \/ SeekStream \/ SizeStream \/ ClearStream
  \/ AssignText \/ AppendText \/ AppendChars \/ AssignChars \/ LengthOfText \/ UseCStr \/ EditText
  \/ LoadStream \/ SaveStream \/ CopyStream

-----------------------------------------------------------------------------
\* A buffer holds what was put into it, whatever it was grown, shrunk and
\* cleared to in between, and a read returns what is there; nothing is
\* written outside it, and behind a CString's text there is room for the NUL
\* that c_str() puts there, so that c_str() is the text.
StreamHolds ==
  /\ ~buffer.overrun
  /\ Holds(buffer) = content /\ buffer.position = place
  /\ got[1] = got[2]
  /\ IsText => /\ buffer.length = Len(content)
               /\ content # << >> => buffer.length < Capacity(buffer)
               /\ NUL \notin ToSet(content) => CStr(buffer) = content
=============================================================================
