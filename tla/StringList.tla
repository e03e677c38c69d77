----------------------------- MODULE StringList -----------------------------
(***************************************************************************)
(* CStrings and CStringList (src/src/Classes.cpp): lines of text, each     *)
(* with an object, read and written as one text and as names and values.   *)
(* Left out: the capacity, which is that of CList (Lists), Exchange, which *)
(* copies the second line over the first and keeps it in both places, and  *)
(* Move, which inserts a line it has freed.                                *)
(***************************************************************************)
EXTENDS SequencesExt, FiniteSets, Integers

CONSTANTS LineNames,    \* names of lines
          LineValues,   \* values, the empty one included
          MaxLines,     \* bound: lines of a list
          MaxObjects    \* bound: objects given to lists

VARIABLES lines,        \* m_pList: String and Object of each item, and whether it is owned
          told,         \* the pairs the program has put there, in order
          objects,      \* the objects that were not freed
          given         \* how many there were

stringVars == <<lines, told, objects, given>>

NoObject == 0
LineBreak == "\n"
QuoteChar == "\""
IsCtl(c) == c \in {"\n", "\t", "ctl"}
Line(s, o) == [text |-> s, object |-> o]
LowerOf(c) == CASE c = "A" -> "a" [] c = "B" -> "b" [] OTHER -> c
SameName(s, t) == s # << >> /\ t # << >> /\ Len(s) = Len(t) /\ \A i \in DOMAIN s : LowerOf(s[i]) = LowerOf(t[i])

-----------------------------------------------------------------------------
(* Names and values: the first separator of a line ends its name.          *)

Separator(s) ==
  IF \E i \in DOMAIN s : s[i] = "="
  THEN CHOOSE i \in DOMAIN s : s[i] = "=" /\ \A j \in 1..(i - 1) : s[j] # "=" ELSE 0
GetName(s) == IF Separator(s) = 0 THEN s ELSE SubSeq(s, 1, Separator(s) - 1)
Pair(n, v) == n \o <<"=">> \o v

IndexOfName(l, n) ==
  IF \E i \in DOMAIN l : SameName(GetName(l[i].text), n)
  THEN CHOOSE i \in DOMAIN l : SameName(GetName(l[i].text), n) /\ \A j \in 1..(i - 1) : ~SameName(GetName(l[j].text), n)
  ELSE 0
IndexOfLine(l, s) ==
  IF \E i \in DOMAIN l : l[i].text = s
  THEN CHOOSE i \in DOMAIN l : l[i].text = s /\ \A j \in 1..(i - 1) : l[j].text # s ELSE 0
\* A value between quotes is given without them; a single quote is both of
\* them and leaves nothing.
GetValue(l, n) ==
  IF IndexOfName(l, n) = 0 THEN << >>
  ELSE LET s == l[IndexOfName(l, n)].text
           v == SubSeq(s, Len(n) + 2, Len(s))
       IN  IF v # << >> /\ v[1] = QuoteChar /\ v[Len(v)] = QuoteChar THEN SubSeq(v, 2, Len(v) - 1) ELSE v
GetValueFromIndex(l, i) ==
  LET s == l[i].text IN IF Separator(s) = 0 THEN << >> ELSE SubSeq(s, Separator(s) + 1, Len(s))

\* Mutant of SetValue: a second line is added for a name that has one.
SetValueAdds(l, n, v) == IF v # << >> THEN Append(l, Line(Pair(n, v), NoObject)) ELSE l
\* An empty value removes the line.
SetValue(l, n, v) ==
  LET i == IndexOfName(l, n)
  IN  IF v # << >> THEN IF i = 0 THEN Append(l, Line(Pair(n, v), NoObject))
                        ELSE [l EXCEPT ![i].text = Pair(n, v)]
      ELSE IF i = 0 THEN l ELSE RemoveAt(l, i)
SetValueFromIndex(l, i, v) ==
  IF v # << >> THEN [l EXCEPT ![i].text = Pair(GetName(@), v)] ELSE RemoveAt(l, i)

-----------------------------------------------------------------------------
(* The lines as one text.                                                  *)

RECURSIVE JoinLines(_)
JoinLines(l) ==
  IF l = << >> THEN << >>
  ELSE l[1].text \o (IF Len(l) > 1 THEN <<LineBreak>> ELSE << >>) \o JoinLines(Tail(l))
\* SetTextStr with the default line break.  Control characters and quotes
\* are dropped.  No text at all leaves no line.
RECURSIVE SplitFrom(_, _, _)
SplitFrom(text, delimiter, l) ==
  IF text = << >> THEN l
  ELSE LET c == Head(text)
       IN  SplitFrom(Tail(text), delimiter,
             IF c \in {LineBreak, delimiter} THEN Append(l, Line(<< >>, NoObject))
             ELSE IF IsCtl(c) \/ c = QuoteChar THEN l
             ELSE [l EXCEPT ![Len(l)].text = Append(@, c)])
SetTextStr(text, delimiter) ==
  IF text = << >> THEN << >> ELSE SplitFrom(text, delimiter, <<Line(<< >>, NoObject)>>)

-----------------------------------------------------------------------------
(* Objects.  A list made with AOwnsObjects frees the object of a line it   *)
(* deletes; a program gives each object to one line.                       *)

KeptObjects(l) == {l[i].object : i \in DOMAIN l} \ {NoObject}
LinesBecome(l, t) == /\ lines' = [lines EXCEPT !.list = l]
                     /\ told' = t
                     /\ objects' = IF lines.owns THEN objects \ (KeptObjects(lines.list) \ KeptObjects(l)) ELSE objects
                     /\ UNCHANGED given
RoomForLine == Len(lines.list) < MaxLines
Rows == lines.list

AddLine == \E s \in LineNames : RoomForLine /\ LinesBecome(Append(Rows, Line(s, NoObject)), Append(told, <<s, << >> >>))
AddPair == \E n \in LineNames, v \in LineValues :
  RoomForLine /\ LinesBecome(Append(Rows, Line(Pair(n, v), NoObject)), Append(told, <<n, v>>))
AddObject == \E n \in LineNames :
  /\ RoomForLine /\ given < MaxObjects
  /\ given' = given + 1 /\ objects' = objects \cup {given + 1}
  /\ lines' = [lines EXCEPT !.list = Append(@, Line(n, given + 1))]
  /\ told' = Append(told, <<n, << >> >>)
\* Insert before another line: the pointers are moved the wrong way, the
\* lines there are lost and what follows is not a line.
InsertLine == \E i \in DOMAIN Rows :
  /\ lines' = [lines EXCEPT !.broken = TRUE, !.list = SubSeq(@, 1, i - 1)]
  /\ told' = SubSeq(told, 1, i - 1)
  /\ UNCHANGED <<objects, given>>

FirstTold(t, n) ==
  IF \E i \in DOMAIN t : SameName(t[i][1], n)
  THEN CHOOSE i \in DOMAIN t : SameName(t[i][1], n) /\ \A j \in 1..(i - 1) : ~SameName(t[j][1], n) ELSE 0
PutValue == \E n \in LineNames, v \in LineValues :
  /\ v # << >> /\ IndexOfName(Rows, n) = 0 => RoomForLine
  /\ LinesBecome(SetValue(Rows, n, v),
       LET i == FirstTold(told, n)
       IN  IF v = << >> THEN IF i = 0 THEN told ELSE RemoveAt(told, i)
           ELSE IF i = 0 THEN Append(told, <<n, v>>) ELSE ReplaceAt(told, i, <<n, v>>))
PutValueAt == \E i \in DOMAIN Rows, v \in LineValues :
  LinesBecome(SetValueFromIndex(Rows, i, v),
    IF v = << >> THEN RemoveAt(told, i) ELSE ReplaceAt(told, i, <<told[i][1], v>>))
PutLine == \E i \in DOMAIN Rows, s \in LineNames :
  LinesBecome([Rows EXCEPT ![i].text = s], ReplaceAt(told, i, <<s, << >> >>))
DeleteLine == \E i \in DOMAIN Rows : LinesBecome(RemoveAt(Rows, i), RemoveAt(told, i))
ClearLines == LinesBecome(<< >>, << >>)
\* Assign from a copy of the list without its objects: it owns none any more.
AssignLines ==
  /\ lines' = [list |-> [i \in DOMAIN Rows |-> Line(Rows[i].text, NoObject)], owns |-> FALSE, broken |-> FALSE]
  /\ objects' = IF lines.owns THEN objects \ KeptObjects(Rows) ELSE objects
  /\ UNCHANGED <<told, given>>
\* AddStrings of a copy.
AppendLines ==
  /\ 2 * Len(Rows) <= MaxLines
  /\ LinesBecome(Rows \o [i \in DOMAIN Rows |-> Line(Rows[i].text, NoObject)], told \o told)
\* Text(...) and operator= of a text of names and values, one on each line.
SetText == \E n \in LineNames, v \in LineValues, m \in LineNames :
  /\ ToSet(v) \cap {",", LineBreak, QuoteChar} = {}
  /\ MaxLines > 1
  /\ LinesBecome(SetTextStr(Pair(n, v) \o <<LineBreak>> \o m, ","), << <<n, v>>, <<m, << >> >> >>)

StringInit ==
  /\ \E owns \in BOOLEAN : lines = [list |-> << >>, owns |-> owns, broken |-> FALSE]
  /\ told = << >> /\ objects = {} /\ given = 0
StringNext ==
  /\ ~lines.broken
  /\ \/ AddLine \/ AddPair \/ AddObject \/ InsertLine
     \/ PutValue \/ PutValueAt \/ PutLine \/ DeleteLine \/ ClearLines
     \/ AssignLines \/ AppendLines \/ SetText

-----------------------------------------------------------------------------
Unquoted(v) == IF v # << >> /\ v[1] = QuoteChar /\ v[Len(v)] = QuoteChar THEN SubSeq(v, 2, Len(v) - 1) ELSE v
IsPlain(l) == l # <<Line(<< >>, NoObject)>> /\ \A i \in DOMAIN l : ToSet(l[i].text) \cap {",", QuoteChar, LineBreak} = {}

\* A list of lines is an ordered map: a name gives the value of the first
\* pair that was put there under it, whatever separators and quotes its value
\* holds and whatever was changed, added and deleted around it.  Its lines, if
\* they have no quotes, delimiters and line breaks, survive being written as
\* one text and read again, the empty ones included; and none has an object
\* that was freed.
LinesKeep ==
  /\ \A n \in LineNames :
       GetValue(Rows, n) = IF FirstTold(told, n) = 0 THEN << >> ELSE Unquoted(told[FirstTold(told, n)][2])
  /\ IsPlain(Rows) =>
       LET back == SetTextStr(JoinLines(Rows), ",")
       IN  [i \in DOMAIN back |-> back[i].text] = [i \in DOMAIN Rows |-> Rows[i].text]
  /\ KeptObjects(Rows) \subseteq objects
=============================================================================
