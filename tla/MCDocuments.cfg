SPECIFICATION Spec
CONSTANTS
  Values = {1, 2}
  MaxCount = 3
  SourceCount = 2
  Groups = {g1, g2}
  NoGroup = none
  Handles = {1, 2, 3}
  Keys = {1, 2}
  Work = {11, 12}
  MaxId = 2
  MaxWork = 2
  Chars = {"a", " "}
  Texts <- MCTexts
  Delta = 3
  MaxSize = 3
  LineNames <- MCLineNames
  LineValues <- MCLineValues
  MaxLines = 2
  MaxObjects = 1
  SectionNames <- MCSectionNames
  KeyNames <- MCKeyNames
  KeyValues <- MCKeyValues
  IniTexts <- MCIniTexts
  MaxBufSize = 12
  MaxRows = 5
  Characters <- MCCharacters
  Names <- MCNames
  Strings <- MCStrings
  MaxWeight = 5
  Bytes = {0, 1, 62, 128, 255}
  Symbols = {0, 29, 55, 63, 64, 65}
  MaxBytes = 5
  MaxSymbols = 5
  Years = {1, 1899, 1900, 2000, 2399, 9999}
  MaxDays = 366
  Clocks <- MCClocks
  Offsets <- MCOffsets
CHECK_DEADLOCK FALSE
INVARIANTS CopiesOwnedOnce CollectionsAgree StreamHolds LinesKeep IniKeeps JsonSurvives Base64RoundTrip DatesRoundTrip
PROPERTIES ListIsSequence
