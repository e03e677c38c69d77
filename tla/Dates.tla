------------------------------- MODULE Dates -------------------------------
(***************************************************************************)
(* CDateTime of src/src/SysUtils.cpp: the days since December 30, 1899,    *)
(* with the time of day as a fraction that is added to a date from then on *)
(* and subtracted from an earlier one.  A value is [day, ms], the whole    *)
(* number of days below it and the milliseconds above that: a double holds *)
(* both exactly in the years 1 to 9999.  A text is a sequence of marks and *)
(* numbers, a number being its value and how many digits it has.  Left     *)
(* out: texts of wide characters, whose parser differs in what is a space, *)
(* and the clock.                                                          *)
(***************************************************************************)
EXTENDS SequencesExt, FiniteSets, Integers

CONSTANTS Years,   \* a walk through the calendar starts in each, on January 1
          MaxDays, \* bound: days of a walk
          Clocks,  \* times of day, <<hour, minute, second>>
          Offsets  \* of zones, in minutes

VARIABLES today,   \* [year, month, day] by the rules of the calendar
          number   \* [start, day]: where the walk began, and the days since 1899-12-30

dateVars == <<today, number>>

MSecsPerMin == 60 * 1000
MSecsPerDay == 24 * 60 * MSecsPerMin
DateDelta   == 693594
\* The exceptions of EncodeDate, EncodeTime and StrToDateTime
InvalidDate == [day |-> -DateDelta - 1, ms |-> 0]

IsLeapYear(year) == year % 4 = 0 /\ (year % 100 # 0 \/ year % 400 = 0)
MonthDays  == [leap \in BOOLEAN |-> <<31, IF leap THEN 29 ELSE 28, 31, 30, 31, 30, 31, 31, 30, 31, 30, 31>>]
DaysBefore ==
  [leap \in BOOLEAN |-> [month \in 1..12 |->
     FoldLeft(LAMBDA sum, days : sum + days, 0, SubSeq(MonthDays[leap], 1, month - 1))]]

-----------------------------------------------------------------------------
(* Encoding.                                                               *)

Moment(day, ms) == [day |-> day + ms \div MSecsPerDay, ms |-> ms % MSecsPerDay]

EncodeDate(year, month, day) ==
  IF year \notin 1..9999 \/ month \notin 1..12 \/ day \notin 1..31 THEN InvalidDate
  ELSE IF day > MonthDays[IsLeapYear(year)][month] THEN InvalidDate
  ELSE LET i == year - 1
       IN  Moment(i * 365 + i \div 4 - i \div 100 + i \div 400 + DaysBefore[IsLeapYear(year)][month] + day
                    - DateDelta, 0)

\* The milliseconds of a time of day, or -1.
EncodeTime(hour, min, sec) ==
  IF hour < 24 /\ min < 60 /\ sec < 60 THEN ((hour * 60 + min) * 60 + sec) * 1000 ELSE -1

\* Mutant of SystemTimeToDateTime: the time is added to any date.
SystemTimeToDateTimeAdds(tm) ==
  LET date == EncodeDate(tm.year, tm.month, tm.day)
      time == EncodeTime(tm.hour, tm.min, tm.sec)
  IN  IF date = InvalidDate \/ time = -1 THEN InvalidDate
      ELSE Moment(date.day, time - tm.offset * MSecsPerMin)
SystemTimeToDateTime(tm) ==
  LET date == EncodeDate(tm.year, tm.month, tm.day)
      time == EncodeTime(tm.hour, tm.min, tm.sec)
  IN  IF date = InvalidDate \/ time = -1 THEN InvalidDate
      ELSE Moment(date.day, (IF date.day >= 0 THEN time ELSE -time) - tm.offset * MSecsPerMin)

-----------------------------------------------------------------------------
(* Decoding: division of a negative number goes towards zero.              *)

DateTimeToTimeStamp(v) ==
  [Date |-> DateDelta + (IF v.day >= 0 \/ v.ms = 0 THEN v.day ELSE v.day + 1),
   Time |-> IF v.day >= 0 THEN v.ms ELSE (MSecsPerDay - v.ms) % MSecsPerDay]

D1   == 365
D4   == D1 * 4 + 1
D100 == D4 * 25 - 1
D400 == D100 * 4 + 1
\* The last day of four centuries, and of four years, belongs to the fourth.
LastOfFour(n) == IF n = 4 THEN 3 ELSE n

DecodeDateFully(v) ==
  LET t == DateTimeToTimeStamp(v).Date
      in400     == (t - 1) % D400
      centuries == LastOfFour(in400 \div D100)
      in100     == in400 - centuries * D100
      fours     == in100 \div D4
      in4       == in100 % D4
      years     == LastOfFour(in4 \div D1)
      in1       == in4 - years * D1
      year      == 1 + 400 * ((t - 1) \div D400) + 100 * centuries + 4 * fours + years
      leap      == IsLeapYear(year)
      month     == CHOOSE m \in 1..12 :
                     DaysBefore[leap][m] <= in1 /\ in1 < DaysBefore[leap][m] + MonthDays[leap][m]
  IN  IF t <= 0 THEN [year |-> 0, month |-> 0, day |-> 0, dow |-> 0]
      ELSE [year |-> year, month |-> month, day |-> in1 - DaysBefore[leap][month] + 1, dow |-> (t % 7) + 1]
DecodeDate(v) == LET d == DecodeDateFully(v) IN [year |-> d.year, month |-> d.month, day |-> d.day]
DecodeTime(v) ==
  LET s == DateTimeToTimeStamp(v).Time \div 1000 IN <<s \div 3600, (s \div 60) % 60, s % 60>>

-----------------------------------------------------------------------------
(* Texts.                                                                  *)

Mark(m)      == [mark |-> m, digits |-> 0, value |-> 0]
Num(n, size) == [mark |-> "number", digits |-> size, value |-> n]

Is(t, i, m)     == i \in DOMAIN t /\ t[i].mark = m
HasDigits(t, i, n) == Is(t, i, "number") /\ t[i].digits = n
AfterSpaces(t, i) == CHOOSE j \in i..(Len(t) + 1) : ~Is(t, j, " ") /\ \A k \in i..(j - 1) : Is(t, k, " ")

HasDate(t, i) ==
  HasDigits(t, i, 4) /\ Is(t, i + 1, "-") /\ HasDigits(t, i + 2, 2) /\ Is(t, i + 3, "-") /\ HasDigits(t, i + 4, 2)
\* The time is announced by "T" or by a space, which then must be followed by one.
StartsTime(t, i) == Is(t, i, "T") \/ Is(t, i, " ")
HasTime(t, i) ==
  HasDigits(t, i + 1, 2) /\ Is(t, i + 2, ":") /\ HasDigits(t, i + 3, 2) /\ Is(t, i + 4, ":") /\ HasDigits(t, i + 5, 2)

\* [offset, next] of the zone at place i; next is 0 for one that is refused.
\* Four digits are hours and minutes; a third or a fifth is left over.
Zone(t, i) ==
  LET sign == IF Is(t, i, "+") THEN 1 ELSE -1
      num  == t[i + 1]
      refused == [offset |-> 0, next |-> 0]
  IN  CASE Is(t, i, "Z") \/ Is(t, i, "UTC") -> [offset |-> 0, next |-> i + 1]
        [] Is(t, i, "+") \/ Is(t, i, "-") ->
             IF ~Is(t, i + 1, "number") THEN refused
             ELSE IF num.digits = 4
             THEN [offset |-> sign * ((num.value \div 100) * 60 + (num.value % 100)), next |-> i + 2]
             ELSE IF num.digits # 2 THEN refused
             ELSE IF ~Is(t, i + 2, ":") THEN [offset |-> sign * num.value * 60, next |-> i + 2]
             ELSE IF HasDigits(t, i + 3, 2) THEN [offset |-> sign * (num.value * 60 + t[i + 3].value), next |-> i + 4]
             ELSE refused
        [] OTHER -> [offset |-> 0, next |-> i]

\* ParseISO8601 and what StrToDateTime makes of it.
StrToDateTime(t) ==
  LET i    == AfterSpaces(t, 1)
      time == StartsTime(t, i + 5)
      zone == Zone(t, AfterSpaces(t, IF time THEN i + 11 ELSE i + 5))
      At(k) == IF time THEN t[i + k].value ELSE 0
  IN  IF ~HasDate(t, i) \/ (time /\ ~HasTime(t, i + 5)) THEN InvalidDate
      ELSE IF zone.next = 0 \/ AfterSpaces(t, zone.next) # Len(t) + 1 THEN InvalidDate
      ELSE SystemTimeToDateTime(
             [year |-> t[i].value, month |-> t[i + 2].value, day |-> t[i + 4].value,
              hour |-> At(6), min |-> At(8), sec |-> At(10), offset |-> zone.offset])

\* "%Y-%m-%d %H:%M:%S", of a year of four digits
DateText(d) == <<Num(d.year, 4), Mark("-"), Num(d.month, 2), Mark("-"), Num(d.day, 2)>>
TimeText(c) == <<Num(c[1], 2), Mark(":"), Num(c[2], 2), Mark(":"), Num(c[3], 2)>>
DateTimeToStr(v) == DateText(DecodeDate(v)) \o <<Mark(" ")>> \o TimeText(DecodeTime(v))

-----------------------------------------------------------------------------
(* The calendar, one day after another.                                    *)

MonthEnds(d) == d.day = MonthDays[IsLeapYear(d.year)][d.month]
Following(d) ==
  IF ~MonthEnds(d) THEN [d EXCEPT !.day = @ + 1]
  ELSE IF d.month < 12 THEN [d EXCEPT !.day = 1, !.month = @ + 1]
  ELSE [year |-> d.year + 1, month |-> 1, day |-> 1]
\* What a date below the first of January of the year 1 is decoded to.
NoDate == [year |-> 0, month |-> 0, day |-> 0]

StartWalk == \E year \in Years :
  /\ today = NoDate
  /\ today' = [year |-> year, month |-> 1, day |-> 1]
  /\ LET day == 365 * (year - 1) + Cardinality({y \in 1..(year - 1) : IsLeapYear(y)}) + 1 - DateDelta
     IN  number' = [start |-> day, day |-> day]
Tomorrow ==
  /\ today # NoDate
  /\ number.day - number.start < MaxDays
  /\ Following(today).year <= 9999
  /\ today' = Following(today)
  /\ number' = [number EXCEPT !.day = @ + 1]

DateInit == today = NoDate /\ number = [start |-> -DateDelta, day |-> -DateDelta]
DateNext == StartWalk \/ Tomorrow

-----------------------------------------------------------------------------
ZoneTexts(o) ==
  LET size == IF o < 0 THEN -o ELSE o
      sign == Mark(IF o < 0 THEN "-" ELSE "+")
  IN  {<<sign, Num(size \div 60, 2), Mark(":"), Num(size % 60, 2)>>, <<sign, Num((size \div 60) * 100 + (size % 60), 4)>>}
      \cup (IF size % 60 = 0 THEN {<<sign, Num(size \div 60, 2)>>} ELSE {})
      \cup (IF o = 0 THEN {<< >>, <<Mark("Z")>>, <<Mark(" "), Mark("UTC"), Mark(" ")>>} ELSE {})

\* A day of the calendar is encoded as its number and decoded again, with its
\* day of the week, and there are no others.
DaysAgree ==
  LET v == EncodeDate(today.year, today.month, today.day)
  IN  /\ v = Moment(number.day, 0)
      /\ DecodeDate(v) = today
      /\ DecodeDateFully(v).dow = ((number.day + 6) % 7) + 1
      /\ \A day \in {0, 29, 30, 31, 32} :
           EncodeDate(today.year, today.month, day) # InvalidDate
             <=> day \in 1..MonthDays[IsLeapYear(today.year)][today.month]

\* A text with a time and a zone stands for that moment; before the epoch,
\* where a fraction counts backwards, this is so in the zone UTC only.  The
\* text of a moment in a year of four digits is read back as that moment, and
\* of a text that is cut only what ends with its date, its time or the hours of
\* its zone is accepted.
TextsAgree ==
  \A c \in Clocks, o \in Offsets : \A zone \in ZoneTexts(o), between \in {Mark("T"), Mark(" ")} :
    LET text == DateText(today) \o <<between>> \o TimeText(c) \o zone
        v    == StrToDateTime(text)
        ms   == EncodeTime(c[1], c[2], c[3])
        want == Moment(number.day, ms - o * MSecsPerMin)
    IN  /\ ms = -1 <=> v = InvalidDate
        /\ ms # -1 /\ number.day >= 0 => v = want
        /\ ms # -1 /\ (o = 0 \/ v.day >= 0) /\ (number.day >= 0 \/ o = 0) =>
             /\ DecodeTime(v) = DecodeTime(IF number.day >= 0 THEN want ELSE Moment(0, ms))
             /\ o = 0 => DecodeDate(v) = today
             /\ DecodeDate(v).year \in 1000..9999 => StrToDateTime(DateTimeToStr(v)) = v
        /\ \A n \in 1..(Len(text) - 1) :
             StrToDateTime(SubSeq(text, 1, n)) # InvalidDate => n = 5 \/ (ms # -1 /\ n \in {11, 12, 13})

\* Dates and times are what they were before they were encoded or written.
DatesRoundTrip == today # NoDate => DaysAgree /\ TextsAgree
=============================================================================
