---------------------------- MODULE MCDocuments ----------------------------
(***************************************************************************)
(* Instances for TLC of the modules on the data the library keeps: lists,  *)
(* collections and queues, buffers and files, lines, ini files, JSON       *)
(* documents, Base64 and dates.  They share no state: each behaviour is of *)
(* one part, and the variables of the others keep one initial value.       *)
(***************************************************************************)
EXTENDS Collections, Streams, IniFile, JSONDocument, Base64, Dates

VARIABLE part

vars == <<part, listVars, collVars, streamVars, stringVars, iniVars, jsonVars, base64Vars, dateVars>>

\* The parts with several initial states have them only when they are the one that moves.
Init ==
  /\ part \in {"lists", "collections", "streams", "strings", "ini", "json", "base64", "dates"}
  /\ ListInit /\ (part # "lists" => kind = "CList" /\ source = <<1, 1>>)
  /\ CollInit
  /\ StreamInit /\ (part # "streams" => buffer.class = "CString")
  /\ StringInit /\ (part # "strings" => ~lines.owns)
  /\ IniInit /\ (part # "ini" => disk = << >>)
  /\ JsonInit
  /\ Base64Init
  /\ DateInit
Next ==
  /\ UNCHANGED part
  /\ \/ part = "lists" /\ ListNext /\ UNCHANGED <<collVars, streamVars, stringVars, iniVars, jsonVars, base64Vars, dateVars>>
     \/ part = "collections" /\ CollNext /\ UNCHANGED <<listVars, streamVars, stringVars, iniVars, jsonVars, base64Vars, dateVars>>
     \/ part = "streams" /\ StreamNext /\ UNCHANGED <<listVars, collVars, stringVars, iniVars, jsonVars, base64Vars, dateVars>>
     \/ part = "strings" /\ StringNext /\ UNCHANGED <<listVars, collVars, streamVars, iniVars, jsonVars, base64Vars, dateVars>>
     \/ part = "ini" /\ IniNext /\ UNCHANGED <<listVars, collVars, streamVars, stringVars, jsonVars, base64Vars, dateVars>>
     \/ part = "json" /\ JsonNext /\ UNCHANGED <<listVars, collVars, streamVars, stringVars, iniVars, base64Vars, dateVars>>
     \/ part = "base64" /\ Base64Next /\ UNCHANGED <<listVars, collVars, streamVars, stringVars, iniVars, jsonVars, dateVars>>
     \/ part = "dates" /\ DateNext /\ UNCHANGED <<listVars, collVars, streamVars, stringVars, iniVars, jsonVars, base64Vars>>
Spec == Init /\ [][Next]_vars

MCTexts      == {<< >>, <<"a">>, <<" ">>, <<"a", " ">>}
MCLineNames  == {<<"a">>, <<"A">>, <<"a", "b">>}
MCLineValues == {<< >>, <<"v">>, <<"=">>, <<"\"", "v", "\"">>, <<",">>}
MCSectionNames == {<<"s">>, <<"t">>}
MCKeyNames     == {<<"k">>, <<"l">>}
MCKeyValues    == {<<"=", "w">>}
\* No file, and files with lines outside a section, comments, empty lines, spaces and a key
\* twice; none is longer than the limit, and what is saved may be.
MCIniTexts ==
  {[text |-> << >>, says |-> << >>],
   [text |-> <<"x", "\n", "[", "s", "]", "\n", "#", "k", "\n", "k", "=", "w">>,
    says |-> << [name |-> <<"s">>, pairs |-> << <<<<"k">>, <<"w">>>> >>] >>],
   [text |-> <<"[", "s", "]", "\n", "k", "=", " ", "v", "\n", "k", "=", "w">>,
    says |-> << [name |-> <<"s">>, pairs |-> << <<<<"k">>, <<"v">>>>, <<<<"k">>, <<"w">>>> >>] >>],
   [text |-> <<"\n", ";", "\n", "[", "s", "]", "\n", " ", "k", "=", "w">>,
    says |-> << [name |-> <<"s">>, pairs |-> << <<<<"k">>, <<"w">>>> >>] >>]}
MCCharacters == {"{", "}", "[", "]", ":", ",", "\"", "\\", "t", "r", "u", "e", "1", " ", "\n", "ctl"}
MCNames      == {<<"a">>, <<"b">>}
MCClocks     == {<<0, 0, 0>>, <<23, 59, 59>>, <<24, 0, 0>>}
MCOffsets    == {0, 330, 0 - 720}
MCStrings    == {<<"a">>, <<"\"">>, <<"\\", "n">>, <<"\n", "/">>, <<"ctl">>, << >>}
=============================================================================
