---------------------------- MODULE JSONDocument ----------------------------
(***************************************************************************)
(* A CJSON document (src/src/JSON.cpp, src/include/delphi/JSON.hpp) that a *)
(* program builds, changes, reads from text and writes.  Not modelled:     *)
(* files and streams, the formatting of numbers, reads of a missing member *)
(* (every one is the same shared null value) and the sort of an array.     *)
(***************************************************************************)
EXTENDS JSONText

CONSTANTS Characters,   \* what a text may contain
          Names,        \* the names a program gives members
          Strings,      \* the strings it stores
          MaxWeight     \* bound: characters kept and values made

VARIABLES doc,          \* the document
          parser,       \* the parser of StrToJson while it runs
          reading       \* whether it does

jsonVars == <<doc, parser, reading>>

\* A literal weighs as much as one character.
DataWeight(n) == IF n.type \in {"boolean", "null"} THEN (Len(n.data) + 4) \div 5 ELSE Len(n.data)
RECURSIVE Weight(_)
Weight(n) == 1 + DataWeight(n) +
  FoldLeft(LAMBDA sum, m : sum + Len(m.name) + Weight(m.value), 0, n.list)
ParserWeight(p) == FoldLeft(LAMBDA sum, n : sum + Weight(n), 0, p.open)

Idle == ~reading /\ doc.type # "crashed"

-----------------------------------------------------------------------------
(* StrToJson: the document is emptied, then filled character by character. *)
(* On a syntax error what was read so far stays in the document.           *)

ReadJson == Idle /\ reading' = TRUE /\ parser' = Parser(doc) /\ doc' = ClearNode(doc)

ReadCharacter == \E c \in Characters :
  /\ reading /\ parser.result = Going
  /\ parser' = Consume(parser, c)
  /\ ParserWeight(parser') <= MaxWeight
  /\ UNCHANGED <<doc, reading>>

ReadEnds ==
  /\ reading /\ reading' = FALSE
  /\ doc' = IF parser.result = 2 THEN Broken ELSE Finish(parser)
  /\ parser' = Parser(Fresh("null"))

-----------------------------------------------------------------------------
(* The program's own changes to an object or an array.                     *)

Scalars == {Node("number", <<"1">>, "none", << >>), Node("boolean", <<"1">>, "none", << >>),
            Fresh("object"), Fresh("array")}
Become(d) == Weight(d) <= MaxWeight /\ doc' = d /\ UNCHANGED <<parser, reading>>
IsOne(kind) == Idle /\ doc.type = kind /\ doc.box = kind
WithMember(d, name, v) == [d EXCEPT !.list = Append(@, Member(name, v))]
IndexOfString(d, name) ==
  IF \E i \in DOMAIN d.list : d.list[i].name = name
  THEN CHOOSE i \in DOMAIN d.list : d.list[i].name = name /\ \A j \in 1..(i - 1) : d.list[j].name # name
  ELSE 0

\* Object() or Array() of a document that holds nothing yet.
MakeContainer == \E kind \in Containers :
  Idle /\ doc.box = "none" /\ Become(AsContainer(doc, kind))

\* AddMember, one overload for each kind of value; strings are encoded.
AddMember == \E name \in Names, v \in Scalars \cup {EncodedString(s) : s \in Strings} :
  IsOne("object") /\ Become(WithMember(doc, name, v))

\* Add of an array; a string is kept as it is.
AddElement == \E v \in Scalars \cup {RawString(s) : s \in Strings} :
  IsOne("array") /\ Become(WithMember(doc, << >>, Copy(v)))

\* Insert and InsertPair put a member or an item before another.
InsertValue == \E i \in DOMAIN doc.list, name \in Names :
  LET Put(m) == Become([doc EXCEPT !.list = InsertAt(@, i, m)]) IN
  \/ \E v \in Scalars \cup {EncodedString(s) : s \in Strings} : IsOne("object") /\ Put(Member(name, v))
  \/ \E v \in Scalars \cup {RawString(s) : s \in Strings} : IsOne("array") /\ Put(Member(<< >>, Copy(v)))

\* Values(String, Value): an empty Data, which objects and arrays have as
\* well, removes the member.
PutMember == \E name \in Names, v \in Scalars \cup {RawString(s) : s \in Strings} :
  /\ IsOne("object")
  /\ LET i == IndexOfString(doc, name)
     IN  Become(IF v.data = << >> THEN IF i = 0 THEN doc ELSE [doc EXCEPT !.list = RemoveAt(@, i)]
                ELSE IF i = 0 THEN WithMember(doc, name, Copy(v))
                ELSE [doc EXCEPT !.list = ReplaceAt(@, i, Member(name, Copy(v)))])

\* operator= through a reference to a value that is there.
AssignValue == \E i \in DOMAIN doc.list, v \in Scalars \cup {RawString(s) : s \in Strings} :
  /\ Idle
  /\ LET to == AssignNode(doc.list[i].value, v)
     IN  Become(IF to = Broken THEN Broken ELSE [doc EXCEPT !.list[i].value = to])

\* operator= of a string, a number or a truth value: what m_Value pointed at is forgotten, it points at
\* the value itself.
StoreScalar == \E i \in DOMAIN doc.list,
                  v \in {RawString(s) : s \in Strings} \cup
                        {Node(type, <<"1">>, "self", << >>) : type \in {"number", "boolean"}} :
  Idle /\ Become([doc EXCEPT !.list[i].value = v])

DeleteValue == \E i \in DOMAIN doc.list : Idle /\ Become([doc EXCEPT !.list = RemoveAt(@, i)])

\* Exchange of two items: Temp is a reference, so the second is put in both places.
ExchangeValues == \E i, j \in DOMAIN doc.list :
  /\ IsOne("array")
  /\ LET to == AssignNode(doc.list[i].value, doc.list[j].value)
     IN  Become(IF to = Broken THEN Broken ELSE [doc EXCEPT !.list[i].value = to])

\* Concat of the document with a copy of itself.
ConcatDocument == \E kind \in Containers : IsOne(kind) /\ Become([doc EXCEPT !.list = @ \o Copy(doc).list])

\* The document becomes the only member or item of a new one.
WrapDocument == \E kind, inner \in Containers : \E name \in Names :
  /\ IsOne(inner)
  /\ Become(WithMember(Fresh(kind), IF kind = "object" THEN name ELSE << >>, Copy(doc)))

\* ToJson("") and the destructor's Clear.
ClearDocument == Idle /\ Become(ClearNode(doc))

JsonInit ==
  /\ doc = Fresh("null")
  /\ parser = Parser(Fresh("null"))
  /\ reading = FALSE
JsonNext ==
  \/ ReadJson \/ ReadCharacter \/ ReadEnds
  \/ MakeContainer \/ AddMember \/ AddElement \/ InsertValue \/ PutMember \/ AssignValue \/ StoreScalar \/ DeleteValue
  \/ ExchangeValues \/ ConcatDocument \/ WrapDocument \/ ClearDocument

-----------------------------------------------------------------------------
(* What a document says, whatever way it is stored.                        *)

RECURSIVE Meaning(_)
Meaning(n) ==
  [type |-> n.type,
   text |-> CASE n.type = "string" -> DecodeJsonString(n.data)
              [] n.type = "number" -> n.data
              [] n.type = "boolean" -> IF n.data \in TrueTexts THEN <<"1">> ELSE <<"0">>
              [] OTHER -> << >>,
   list |-> IF n.type \in Containers
            THEN [i \in DOMAIN n.list |-> [name |-> n.list[i].name, value |-> Meaning(n.list[i].value)]]
            ELSE << >>]

\* Text between quotes that the parser takes for one string.
RECURSIVE Quotable(_)
Quotable(s) ==
  CASE s = << >> -> TRUE
    [] s # << >> /\ Head(s) = "\\" -> Len(s) > 1 /\ IsCharacter(s[2]) /\ Quotable(SubSeq(s, 3, Len(s)))
    [] OTHER -> Head(s) # "\"" /\ IsCharacter(Head(s)) /\ Quotable(Tail(s))
\* Every string can stand between quotes and every name is of letters and digits.
RECURSIVE Writable(_)
Writable(n) ==
  /\ n.type = "string" => Quotable(n.data)
  /\ n.type = "number" => n.data # << >>
  /\ n.type \in Containers => \A i \in DOMAIN n.list :
       /\ \A k \in DOMAIN n.list[i].name : IsLetter(n.list[i].name[k]) \/ IsDigit(n.list[i].name[k])
       /\ Writable(n.list[i].value)

ReadBack(n) == Feed(Parser(Fresh("null")), JsonToString(n))
Survives(n) == LET p == ReadBack(n) IN Closed(p) /\ Meaning(p.root) = Meaning(n)

\* A document written with ToString and read again is the same document,
\* however it was built, nested and changed: every container is closed where
\* it was, and the strings a program stored in members come back as it gave
\* them, quotes, slashes and line breaks included.
JsonRoundTrip ==
  /\ Idle /\ doc.type = doc.box /\ Writable(doc) /\ ~Unreadable(doc) => Survives(doc)
  /\ \A s \in Strings : "ctl" \notin ToSet(s) =>
       LET v == EncodedString(s)
       IN  Quotable(v.data) /\ DecodeJsonString(v.data) = s

\* Whatever text was read: once its containers are all closed and its literals
\* are whole, writing the document and reading that gives the document again.
\* The parser's liberties (text after a string's end, '}' for ']', trailing
\* commas) change nothing that is written.
JsonStable ==
  reading /\ Closed(parser) /\ ~Unreadable(parser.root) /\ parser.root.box = parser.root.type
    => Survives(parser.root)

\* What a program builds and what it reads are both written so that they are read back the same.
JsonSurvives == JsonRoundTrip /\ JsonStable
=============================================================================
