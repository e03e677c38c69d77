------------------------------- MODULE IniFile -------------------------------
(***************************************************************************)
(* CMemIniFile (src/src/IniFiles.cpp): sections of keys that a program     *)
(* looks up through CHashedStringList, changes, and writes back to a file. *)
(* A hash is built by the first search and kept: only AddSection says that *)
(* the list of sections has changed, and nothing says so of the keys of a  *)
(* section.  Left out: the conversions of numbers, dates and truth values, *)
(* and sub-sections.                                                       *)
(***************************************************************************)
EXTENDS StringList

CONSTANTS SectionNames, KeyNames, KeyValues,
          IniTexts,     \* files there may be, each with what it says
          MaxBufSize,   \* what is read of a file at most, 0xF000 in Classes.hpp
          MaxRows       \* bound: lines of the file, two of each section without keys

VARIABLES ini,          \* m_Sections, the hash of their names, m_Modified
          answers,      \* what the program was told of each key, or Unknown
          disk,         \* the file
          saved         \* the sections the file stands for

iniVars == <<ini, answers, disk, saved>>

NoHash == [valid |-> FALSE, keys |-> << >>]
Unknown == <<"unknown">>
IniThrows == <<"throws">>
Default == <<"default">>
Section(name) == [name |-> name, rows |-> << >>, hash |-> NoHash]
NoIni == [sections |-> << >>, hash |-> NoHash, modified |-> FALSE]

-----------------------------------------------------------------------------
(* CHashedStringList.                                                      *)

NameKeys(rows) == [i \in DOMAIN rows |-> IF Separator(rows[i].text) = 0 THEN Unknown ELSE GetName(rows[i].text)]
SectionKeys(sections) == [i \in DOMAIN sections |-> sections[i].name]
\* Mutant of UpdateHash: of a name that is there twice the last is found.
UpdateHashLast(hash, keys) ==
  IF hash.valid THEN hash
  ELSE [valid |-> TRUE, keys |-> [i \in DOMAIN keys |->
          IF \E j \in (i + 1)..Len(keys) : keys[j] = keys[i] THEN Unknown ELSE keys[i]]]
UpdateHash(hash, keys) == IF hash.valid THEN hash ELSE [valid |-> TRUE, keys |-> keys]
ValueOf(hash, key) ==
  IF \E i \in DOMAIN hash.keys : hash.keys[i] = key
  THEN CHOOSE i \in DOMAIN hash.keys : hash.keys[i] = key /\ \A j \in 1..(i - 1) : hash.keys[j] # key ELSE 0

HashSections(f) == [f EXCEPT !.hash = UpdateHash(@, SectionKeys(f.sections))]
IndexOfSection(f, s) == ValueOf(HashSections(f).hash, s)
HashKeys(f, i) == [f EXCEPT !.sections[i].hash = UpdateHash(@, NameKeys(f.sections[i].rows))]
IndexOfKey(f, i, k) == ValueOf(HashKeys(f, i).sections[i].hash, k)

-----------------------------------------------------------------------------
(* CMemIniFile.                                                            *)

AddSection(f, s) == [f EXCEPT !.sections = Append(@, Section(s)), !.hash.valid = FALSE]
Trim(t) ==
  LET dark == {i \in DOMAIN t : t[i] # " "}
  IN  IF dark = {} THEN << >>
      ELSE SubSeq(t, CHOOSE i \in dark : \A j \in dark : i <= j, CHOOSE i \in dark : \A j \in dark : i >= j)
Trimmed(t) ==
  IF Separator(t) = 0 THEN t
  ELSE Pair(Trim(SubSeq(t, 1, Separator(t) - 1)), Trim(SubSeq(t, Separator(t) + 1, Len(t))))
\* One line of SetStrings; lines before the first section are skipped.
TakeRow(f, row, number) ==
  LET t == Trim(row)
      last == Len(f.sections)
  IN  IF t = << >> \/ t[1] \in {"#", ";"} THEN f
      ELSE IF t[1] = "[" /\ t[Len(t)] = "]" THEN AddSection(f, Trim(SubSeq(t, 2, Len(t) - 1)))
      ELSE IF last = 0 THEN f
      ELSE [f EXCEPT !.sections[last].rows = Append(@, Line(Trimmed(t), number))]
RECURSIVE TakeRows(_, _, _)
TakeRows(f, rows, number) ==
  IF rows = << >> THEN f ELSE TakeRows(TakeRow(f, Head(rows).text, number), Tail(rows), number + 1)
\* Clear keeps the hash of the sections that are gone.
ClearIni(f) == [f EXCEPT !.modified = @ \/ f.sections # << >>, !.sections = << >>]
SetStrings(f, rows) == [TakeRows(ClearIni(f), rows, 1) EXCEPT !.modified = TRUE]
\* LoadFromStream: what is behind MaxBufSize is not read, and nobody is told.
LoadFromStream == SetTextStr(SubSeq(disk, 1, Min({Len(disk), MaxBufSize})), LineBreak)
\* LoadValues: the lines of the file end with a line break only.
LoadValues(f) == [SetStrings(f, LoadFromStream) EXCEPT !.modified = FALSE]
GetStrings(f) ==
  FlattenSeq([i \in DOMAIN f.sections |->
    <<Line(<<"[">> \o f.sections[i].name \o <<"]">>, NoObject)>> \o f.sections[i].rows \o <<Line(<< >>, NoObject)>>])

\* ReadString: a hash that is older than the list may give an index that is
\* past its end, or another line.
ReadString(f, s, k) ==
  LET i == IndexOfSection(f, s) IN
  IF i = 0 THEN Default
  ELSE IF i > Len(f.sections) THEN IniThrows
  ELSE LET j == IndexOfKey(f, i, k) IN
       IF j = 0 THEN Default
       ELSE IF j > Len(f.sections[i].rows) THEN IniThrows
       ELSE SubSeq(f.sections[i].rows[j].text, Len(k) + 2, Len(f.sections[i].rows[j].text))
\* What a search leaves: the hashes it has built.
Searched(f, s) ==
  LET i == IndexOfSection(f, s)
  IN  IF i = 0 \/ i > Len(f.sections) THEN HashSections(f) ELSE HashKeys(HashSections(f), i)

\* WriteString; a key that is not found is added, and the hash of the keys
\* stays as it is.  The exception of a stale index leaves the searches.
WriteString(f, s, k, v) ==
  LET at == IndexOfSection(f, s)
      g  == IF at = 0 THEN AddSection(HashSections(f), s) ELSE HashSections(f)
      i  == IF at = 0 THEN Len(g.sections) ELSE at
  IN  IF i > Len(g.sections) THEN g
      ELSE LET h == HashKeys(g, i)
               j == IndexOfKey(g, i, k)
           IN  IF j = 0 THEN [h EXCEPT !.sections[i].rows = Append(@, Line(Pair(k, v), NoObject)), !.modified = TRUE]
               ELSE IF j > Len(h.sections[i].rows) THEN h
               ELSE [h EXCEPT !.sections[i].rows[j].text = Pair(k, v), !.modified = TRUE]
DeleteKey(f, s, k) ==
  LET g == Searched(f, s)
      i == IndexOfSection(f, s)
  IN  IF i = 0 \/ i > Len(f.sections) \/ IndexOfKey(f, i, k) \notin DOMAIN f.sections[i].rows THEN g
      ELSE [g EXCEPT !.sections[i].rows = RemoveAt(@, IndexOfKey(f, i, k)), !.modified = TRUE]
EraseSection(f, s) ==
  LET i == IndexOfSection(f, s)
  IN  IF i \notin DOMAIN f.sections THEN HashSections(f)
      ELSE [HashSections(f) EXCEPT !.sections = RemoveAt(@, i), !.modified = TRUE]

-----------------------------------------------------------------------------
(* The program.                                                            *)

\* The hashes a search for a key of a section would use are those of the lists.
Fits(f, s) ==
  /\ f.hash.valid => f.hash.keys = SectionKeys(f.sections)
  /\ LET i == IndexOfSection(f, s)
     IN  i # 0 /\ f.sections[i].hash.valid => f.sections[i].hash.keys = NameKeys(f.sections[i].rows)
Stands(f) == [i \in DOMAIN f.sections |->
  [name |-> f.sections[i].name,
   pairs |-> [j \in DOMAIN f.sections[i].rows |->
                <<GetName(f.sections[i].rows[j].text), GetValueFromIndex(f.sections[i].rows, j)>>]]]
\* What a file says of a key: the first one in the first section of the name.
Says(sections, s, k) ==
  IF \A i \in DOMAIN sections : sections[i].name # s THEN Default
  ELSE LET i == CHOOSE i \in DOMAIN sections : sections[i].name = s /\ \A j \in 1..(i - 1) : sections[j].name # s
           p == sections[i].pairs
       IN  IF \A j \in DOMAIN p : p[j][1] # k THEN Default
           ELSE p[CHOOSE j \in DOMAIN p : p[j][1] = k /\ \A h \in 1..(j - 1) : p[h][1] # k][2]
AllSaid(sections) == [s \in SectionNames |-> [k \in KeyNames |-> Says(sections, s, k)]]

ReadKey == \E s \in SectionNames :
  ini' = Searched(ini, s) /\ UNCHANGED <<answers, disk, saved>>
WriteKey == \E s \in SectionNames, k \in KeyNames, v \in KeyValues :
  LET f == WriteString(ini, s, k, v) IN
  /\ Len(GetStrings(f)) <= MaxRows
  /\ ini' = f
  /\ answers' = IF Fits(ini, s) THEN [answers EXCEPT ![s][k] = v]
                ELSE [t \in SectionNames |-> [l \in KeyNames |-> Unknown]]
  /\ UNCHANGED <<disk, saved>>
DropKey == \E s \in SectionNames, k \in KeyNames :
  /\ ini' = DeleteKey(ini, s, k)
  /\ answers' = IF Fits(ini, s) THEN [answers EXCEPT ![s][k] = Unknown]
                ELSE [t \in SectionNames |-> [l \in KeyNames |-> Unknown]]
  /\ UNCHANGED <<disk, saved>>
DropSection == \E s \in SectionNames :
  /\ ini' = EraseSection(ini, s)
  /\ answers' = [t \in SectionNames |-> [l \in KeyNames |->
                   IF Fits(ini, s) /\ t # s THEN answers[t][l] ELSE Unknown]]
  /\ UNCHANGED <<disk, saved>>
EmptyIni ==
  /\ ini' = ClearIni(ini)
  /\ answers' = [s \in SectionNames |-> [k \in KeyNames |-> Default]]
  /\ UNCHANGED <<disk, saved>>
\* UpdateFile, and the destructor with AutoSave: whatever goes wrong is
\* ignored, and the file may keep its old content or have lost it.
SaveIni ==
  /\ ini' = [ini EXCEPT !.modified = FALSE]
  /\ \/ disk' = JoinLines(GetStrings(ini)) /\ saved' = Stands(ini)
     \/ UNCHANGED <<disk, saved>>
     \/ disk' = << >> /\ saved' = << >>
  /\ UNCHANGED answers
\* Rename with Reload, and a new CIniFile for the same file; what is left of
\* a file that was cut is all that the program can be told.
LoadIni == \E f \in {ini, NoIni} :
  /\ ini' = LoadValues(f)
  /\ answers' = AllSaid(IF Len(disk) <= MaxBufSize THEN saved ELSE Stands(LoadValues(NoIni)))
  /\ UNCHANGED <<disk, saved>>

IniInit ==
  /\ ini = NoIni
  /\ answers = [s \in SectionNames |-> [k \in KeyNames |-> Unknown]]
  /\ \E file \in IniTexts : disk = file.text /\ saved = file.says
IniNext ==
  \/ ReadKey \/ WriteKey \/ DropKey \/ DropSection \/ EmptyIni \/ SaveIni \/ LoadIni

-----------------------------------------------------------------------------
\* A program gets for each key the value it wrote last or the file had, as
\* long as no list was changed behind a hash that was built for it: what a
\* stale hash answers, which the code does nothing about, is not in it.
IniAnswers ==
  \A s \in SectionNames, k \in KeyNames :
    answers[s][k] # Unknown /\ Fits(ini, s) => ReadString(ini, s, k) = answers[s][k]

\* What was read of a file that was cut: its first sections, and of the last
\* of them the first pairs and one line that may be half a pair or half the
\* name of the next section.
Begins(read, said) ==
  /\ Len(read) <= Len(said)
  /\ \A i \in DOMAIN read :
       /\ read[i].name = said[i].name
       /\ LET whole == Len(read[i].pairs) - (IF i = Len(read) THEN 1 ELSE 0)
          IN  \A j \in 1..whole : j \in DOMAIN said[i].pairs /\ read[i].pairs[j] = said[i].pairs[j]
       /\ i < Len(read) => Len(read[i].pairs) = Len(said[i].pairs)

\* A file that was saved is read back as the sections, keys and values that
\* were saved, whatever stale searches did to them before; comments, spaces
\* and lines outside a section mean nothing.  That holds for a file of up to
\* MaxBufSize bytes; of a longer one the beginning is read, and no key in it
\* gets another value, but for the line that the limit cuts.
IniSurvives ==
  LET read == Stands(LoadValues(NoIni))
  IN  IF Len(disk) <= MaxBufSize THEN read = saved ELSE Begins(read, saved)

\* The configuration means the same to the program that holds it and to the one
\* that reads the file.
IniKeeps == IniAnswers /\ IniSurvives
=============================================================================
