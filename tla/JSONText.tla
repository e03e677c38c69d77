------------------------------ MODULE JSONText ------------------------------
(***************************************************************************)
(* JSON documents and their text (src/src/JSON.cpp): the values a document *)
(* is made of, EncodeJsonString and DecodeJsonString, JsonToString and the *)
(* character machine of CJSONParser.                                       *)
(*                                                                         *)
(* Text is a sequence of characters, of which the model has one or more of *)
(* each kind the code tells apart ("ctl" is a control character that is    *)
(* no white space).  A node is a value: m_ValueType, m_Data and what       *)
(* m_Value points at (box: nothing, the value itself, an object's or an    *)
(* array's list), with the members of that list.                           *)
(***************************************************************************)
EXTENDS Integers, Sequences, SequencesExt, FiniteSets

Letters    == {"a", "b", "t", "r", "u", "e", "n", "l", "f", "s"}
Digits     == {"1", "0"}
WhiteSpace == {" ", "\n", "\t", "\r"}
Controls   == {"ctl", "\n", "\t", "\r"}
IsLetter(c)    == c \in Letters \cup {"-"}
IsDigit(c)     == c \in Digits
IsWS(c)        == c \in WhiteSpace
IsCharacter(c) == c \notin Controls

Containers == {"object", "array"}
Node(type, data, box, list) == [type |-> type, data |-> data, box |-> box, list |-> list]
Member(name, value) == [name |-> name, value |-> value]
\* CJSONValue(CJSONValueType)
Fresh(type) == Node(type, << >>, IF type \in Containers THEN type ELSE "none", << >>)
\* CJSONValue(const CString &) and operator=(const CString &) keep the text as it is.
RawString(s) == Node("string", s, "self", << >>)

-----------------------------------------------------------------------------
(* Strings.                                                                *)

EscapeOf == [c \in {"\r", "\n", "\t", "\"", "/", "\\"} |->
               CASE c = "\r" -> "r" [] c = "\n" -> "n" [] c = "\t" -> "t" [] OTHER -> c]
\* Mutant of EncodeChar: a quote is not escaped.
EncodeCharNoQuote(c) == IF c \in DOMAIN EscapeOf /\ c # "\"" THEN <<"\\", EscapeOf[c]>> ELSE <<c>>
EncodeChar(c) == IF c \in DOMAIN EscapeOf THEN <<"\\", EscapeOf[c]>> ELSE <<c>>

RECURSIVE EncodeJsonString(_)
EncodeJsonString(s) == IF s = << >> THEN << >> ELSE EncodeChar(Head(s)) \o EncodeJsonString(Tail(s))

UnescapeOf(c) == CASE c = "r" -> "\r" [] c = "n" -> "\n" [] c = "t" -> "\t" [] OTHER -> c

\* A backslash at the very end stands for the terminating zero, and ends the string.
RECURSIVE DecodeJsonString(_)
DecodeJsonString(s) ==
  CASE s = << >> -> << >>
    [] s # << >> /\ Head(s) # "\\" -> <<Head(s)>> \o DecodeJsonString(Tail(s))
    [] s # << >> /\ Head(s) = "\\" ->
         IF Len(s) = 1 THEN << >>
         ELSE <<UnescapeOf(s[2])>> \o DecodeJsonString(SubSeq(s, 3, Len(s)))

EncodedString(s) == Node("string", EncodeJsonString(s), "none", << >>)

-----------------------------------------------------------------------------
(* Assignment of values, and writing them.                                 *)

Broken == Node("crashed", << >>, "none", << >>)

\* A copy made into a new value: what m_Value was becomes a list of its own.
RECURSIVE Copy(_)
Copy(n) ==
  IF n.type \in Containers
  THEN Node(n.type, n.data, n.type, [i \in DOMAIN n.list |-> Member(n.list[i].name, Copy(n.list[i].value))])
  ELSE Node(n.type, n.data, "none", << >>)

\* GetObject and GetArray: the type changes, and m_Value is cast to it, which
\* gives a null pointer when it was something else.
AsContainer(n, kind) ==
  IF n.box \in {"none", kind} THEN [n EXCEPT !.type = kind, !.box = kind] ELSE [n EXCEPT !.type = kind, !.box = "mismatch"]

\* CJSON::Clear asks m_Value what it is and empties it.
ClearNode(n) == IF n.box \in Containers THEN [n EXCEPT !.type = n.box, !.list = << >>] ELSE n

\* operator=: Clear, the type, and the items of a container.
AssignNode(to, from) ==
  LET clean == [ClearNode(to) EXCEPT !.type = from.type, !.data = from.data]
  IN  IF from.type \notin Containers THEN clean
      ELSE IF clean.box \in {"none", from.type}
           THEN [clean EXCEPT !.box = from.type, !.list = Copy(from).list]
           ELSE Broken

TrueTexts  == {<<"t", "r", "u", "e">>, <<"1">>}
FalseTexts == {<<"f", "a", "l", "s", "e">>, <<"0">>}

Joined(parts) == FoldLeft(LAMBDA text, i : (IF i = 1 THEN text ELSE text \o <<",", " ">>) \o parts[i],
                          << >>, [i \in DOMAIN parts |-> i])

Quoted(data) == <<"\"">> \o data \o <<"\"">>

\* ToString.  AsBoolean throws for any other text; Unreadable looks for one.
RECURSIVE JsonToString(_)
JsonToString(n) ==
  CASE n.type = "string" -> Quoted(n.data)
    [] n.type = "number" -> n.data
    [] n.type = "boolean" -> IF n.data \in TrueTexts THEN <<"t", "r", "u", "e">> ELSE <<"f", "a", "l", "s", "e">>
    [] n.type = "null" -> <<"n", "u", "l", "l">>
    [] n.type = "array" ->
         <<"[">> \o Joined([i \in DOMAIN n.list |-> JsonToString(n.list[i].value)]) \o <<"]">>
    [] n.type = "object" ->
         <<"{">> \o Joined([i \in DOMAIN n.list |->
           <<"\"">> \o n.list[i].name \o <<"\"", ":", " ">> \o JsonToString(n.list[i].value)]) \o <<"}">>
    [] OTHER -> << >>

RECURSIVE Unreadable(_)
Unreadable(n) ==
  \/ n.type = "boolean" /\ n.data \notin TrueTexts \cup FalseTexts
  \/ \E i \in DOMAIN n.list : Unreadable(n.list[i].value)

-----------------------------------------------------------------------------
(* CJSONParser.  The list of open containers is kept as the containers     *)
(* themselves, outermost first: each is the last item of the one before,   *)
(* where a value still to be filled in holds its place.                    *)

Going == -1
Parser(doc) ==
  [state |-> "json_start", result |-> Going, index |-> 0, escape |-> FALSE, open |-> << >>,
   root |-> ClearNode(doc)]

Top(p)        == p.open[Len(p.open)]
Go(p, state)  == [p EXCEPT !.state = state]
Refused(p)    == [p EXCEPT !.result = 0]
\* A null pointer was followed, or Last() of an empty list threw.
Crashed(p)    == [p EXCEPT !.result = 2]
Thrown(p)     == [p EXCEPT !.result = 3]
SetTop(p, n)  == [p EXCEPT !.open[Len(p.open)] = n]
LastValue(n)  == n.list[Len(n.list)].value
SetLast(n, v) == [n EXCEPT !.list[Len(n.list)].value = v]

\* CurrentJson() of an empty list throws; of a failed cast it is null.
Unusable(p) == p.open = << >> \/ Top(p).box = "mismatch"
Failed(p)   == IF p.open = << >> THEN Thrown(p) ELSE Crashed(p)

OpenRoot(p, kind) == [p EXCEPT !.open = <<AsContainer(p.root, kind)>>]

\* DeleteLastJson
CloseTop(p) ==
  IF p.open = << >> THEN Thrown(p)
  ELSE IF Len(p.open) = 1
  THEN [p EXCEPT !.open = << >>,
                 !.root = IF Top(p).box = "mismatch" THEN [@ EXCEPT !.type = Top(p).type] ELSE Top(p)]
  ELSE LET outer == p.open[Len(p.open) - 1]
       IN  [p EXCEPT !.open = Append(SubSeq(@, 1, Len(@) - 2), SetLast(outer, Top(p)))]

\* CreateValue: in an object the value is that of the last member.
CreateValue(p, type) ==
  LET n == Top(p)
      held == IF n.type = "object" THEN SetLast(n, Fresh(type))
                                   ELSE [n EXCEPT !.list = Append(@, Member(<< >>, Fresh(type)))]
  IN  IF type \in Containers THEN [p EXCEPT !.open = Append(SubSeq(@, 1, Len(@) - 1) \o <<held>>, Fresh(type))]
                             ELSE SetTop(p, held)
AppendData(p, c) == SetTop(p, SetLast(Top(p), [LastValue(Top(p)) EXCEPT !.data = Append(@, c)]))

\* What a value ends with, in the states that follow one: '}' and ']' alike
\* close what is open, and ',' goes on with the next member or item.
Closes(c) == c \in {"}", "]"}
Close(p) == LET q == CloseTop(p) IN IF q.result = Going THEN Go(q, "value_end") ELSE q
NextItem(p) == IF Unusable(p) THEN Failed(p)
            ELSE Go(p, IF Top(p).type = "object" THEN "string_start" ELSE "value_start")

Skip(p, c) == IF IsWS(c) THEN p ELSE Refused(p)

Words == [value_true |-> <<"t", "r", "u", "e">>, value_false |-> <<"f", "a", "l", "s", "e">>,
          value_null |-> <<"n", "u", "l", "l">>]

JsonStart(p, c) ==
  CASE c = "{" -> Go(OpenRoot(p, "object"), "string_start")
    [] c = "[" -> Go(OpenRoot(p, "array"), "value_start")
    [] OTHER -> Skip(p, c)

StringStart(p, c) ==
  CASE c = "\"" -> IF Unusable(p) THEN Failed(p)
                   ELSE Go(SetTop(p, [Top(p) EXCEPT !.list = Append(@, Member(<< >>, Fresh("null")))]), "string")
    [] c = "}" -> Close(p)
    [] OTHER -> Skip(p, c)

StringName(p, c) ==
  CASE IsLetter(c) \/ IsDigit(c) -> SetTop(p, [Top(p) EXCEPT !.list[Len(Top(p).list)].name = Append(@, c)])
    [] c = "\"" -> Go(p, "string_end")
    [] OTHER -> Refused(p)

StringEnd(p, c) == IF c = ":" THEN Go(p, "value_start") ELSE Skip(p, c)

\* The literals share m_CharIndex, which only a finished literal resets.
Literal(p, type, state, c) ==
  [AppendData(CreateValue(p, type), c) EXCEPT !.index = @ + 1, !.state = state]
ValueStart(p, c) ==
  CASE Unusable(p) /\ (c \in {"{", "[", "\"", "-", "t", "f", "n"} \/ IsDigit(c)) -> Failed(p)
    [] ~Unusable(p) /\ c = "{"  -> Go(CreateValue(p, "object"), "string_start")
    [] ~Unusable(p) /\ c = "["  -> Go(CreateValue(p, "array"), "value_start")
    [] ~Unusable(p) /\ c = "\"" -> Go(CreateValue(p, "string"), "value_string_start")
    [] ~Unusable(p) /\ (c = "-" \/ IsDigit(c)) -> Go(AppendData(CreateValue(p, "number"), c), "value_digit")
    [] ~Unusable(p) /\ c = "t"  -> Literal(p, "boolean", "value_true", c)
    [] ~Unusable(p) /\ c = "f"  -> Literal(p, "boolean", "value_false", c)
    [] ~Unusable(p) /\ c = "n"  -> Literal(p, "null", "value_null", c)
    [] Closes(c) -> Close(p)
    [] OTHER -> Skip(p, c)

ValueEnd(p, c) ==
  CASE Closes(c) -> LET q == CloseTop(p)
                    IN  IF q.result = Going /\ q.open = << >> THEN [q EXCEPT !.result = 1] ELSE q
    [] c = "," -> NextItem(p)
    [] OTHER -> Skip(p, c)

ValueStringStart(p, c) ==
  CASE c = "\"" -> Go(p, "value_string_end")
    [] c # "\"" /\ IsCharacter(c) -> [AppendData(p, c) EXCEPT !.escape = (c = "\\"), !.state = "value_string"]
    [] OTHER -> Skip(p, c)

ValueString(p, c) ==
  CASE ~p.escape /\ c = "\"" -> Go(p, "value_string_end")
    [] (p.escape \/ c # "\"") /\ IsCharacter(c) -> [AppendData(p, c) EXCEPT !.escape = ~p.escape /\ c = "\\"]
    [] OTHER -> Skip(p, c)

\* After the closing quote any character is passed over, and another quote
\* goes on with the string.
ValueStringEnd(p, c) ==
  CASE Closes(c) -> Close(p)
    [] c = "," -> NextItem(p)
    [] c = "\"" -> Go(p, "value_string")
    [] ~Closes(c) /\ c \notin {",", "\""} /\ IsCharacter(c) -> p
    [] OTHER -> Skip(p, c)

ValueDigit(p, c) ==
  CASE Closes(c) -> Close(p)
    [] c = "," -> NextItem(p)
    [] IsDigit(c) \/ c \in {".", "e", "E", "+", "-"} -> AppendData(p, c)
    [] OTHER -> Skip(p, c)

ValueWord(p, word, c) ==
  CASE Closes(c) -> Close(p)
    [] p.index < Len(word) /\ c = word[p.index + 1] ->
         [AppendData(p, c) EXCEPT !.index = IF p.index + 1 = Len(word) THEN 0 ELSE @ + 1]
    [] c = "," -> NextItem(p)
    [] OTHER -> Skip(p, c)

Consume(p, c) ==
  CASE p.state = "json_start"         -> JsonStart(p, c)
    [] p.state = "string_start"       -> StringStart(p, c)
    [] p.state = "string"             -> StringName(p, c)
    [] p.state = "string_end"         -> StringEnd(p, c)
    [] p.state = "value_start"        -> ValueStart(p, c)
    [] p.state = "value_end"          -> ValueEnd(p, c)
    [] p.state = "value_string_start" -> ValueStringStart(p, c)
    [] p.state = "value_string"       -> ValueString(p, c)
    [] p.state = "value_string_end"   -> ValueStringEnd(p, c)
    [] p.state = "value_digit"        -> ValueDigit(p, c)
    [] p.state \in DOMAIN Words       -> ValueWord(p, Words[p.state], c)

\* The loop of Parse stops at a result and at the end of the text, which no
\* state refuses: StrToJson takes the -1 of an unfinished document for true.
RECURSIVE Feed(_, _)
Feed(p, text) == IF text = << >> \/ p.result # Going THEN p ELSE Feed(Consume(p, Head(text)), Tail(text))

RECURSIVE Finish(_)
Finish(p) == IF p.open = << >> THEN p.root ELSE Finish(CloseTop(p))

Accepted(p) == p.result \in {Going, 1}
\* A closed text is an accepted one whose containers are all closed.
Closed(p) == Accepted(p) /\ p.open = << >> /\ p.state # "json_start"
=============================================================================
