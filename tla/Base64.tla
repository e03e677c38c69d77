------------------------------- MODULE Base64 -------------------------------
(***************************************************************************)
(* The two encodings of src/src/Base64.cpp, plain and for URLs, with and   *)
(* without their fill.  A text is a sequence of symbols: 0..63 are the     *)
(* letters of the alphabet, by their index, and two more occur in fills.   *)
(***************************************************************************)
EXTENDS SequencesExt, Integers

CONSTANTS Bytes,        \* of the data to encode
          Symbols,      \* of the text to decode
          MaxBytes, MaxSymbols \* bounds: their lengths

VARIABLES plain, coded

base64Vars == <<plain, coded>>

Equals == 64
Percent == 65
Alphabet == 0..63
Octets == 0..255

ASSUME DataAssumption == Bytes \subseteq Octets /\ Symbols \subseteq Alphabet \cup {Equals, Percent}

\* "=" and "%3d", whose 3 and d are letters of the alphabet as well
Fill(url) == IF url THEN <<Percent, 55, 29>> ELSE <<Equals>>
\* The exception "Invalid input"
Invalid == <<-1>>

\* The triple of a group, of three octets or of four sextets, and what a shift and a mask take of it.
OfOctets(a, b, c) == a * 65536 + b * 256 + c
OfSextets(s, t, u, v) == s * 262144 + t * 4096 + u * 64 + v
OctetUnit == <<65536, 256, 1>>
SextetUnit == <<262144, 4096, 64, 1>>
Field(triple, unit, size) == (triple \div unit) % size
\* What is missing in an incomplete group is 0.
At(s, i) == IF i <= Len(s) THEN s[i] ELSE 0

\* The groups of three bytes and, at the end, one or two bytes and the fill.
Triple(bin, group) == OfOctets(At(bin, 3 * group + 1), At(bin, 3 * group + 2), At(bin, 3 * group + 3))
Sextet(bin, i) == Field(Triple(bin, (i - 1) \div 4), SextetUnit[((i - 1) % 4) + 1], 64)
\* Mutant of Sextets: an incomplete group has all its letters.
SextetsAll(bin) == [i \in 1..(4 * ((Len(bin) + 2) \div 3)) |-> Sextet(bin, i)]
Sextets(bin) ==
  LET over == Len(bin) % 3
  IN  [i \in 1..(4 * (Len(bin) \div 3) + (IF over = 0 THEN 0 ELSE over + 1)) |-> Sextet(bin, i)]
Repeated(s, n) == [i \in 1..(n * Len(s)) |-> s[((i - 1) % Len(s)) + 1]]
encode(bin, url) == Sextets(bin) \o Repeated(Fill(url), (3 - (Len(bin) % 3)) % 3)

\* Fills are taken off the end while something is left before them; there
\* may be two.
EndsWith(base, fill, n) ==
  LET size == Len(base) - n * Len(fill)
  IN  size > Len(fill) /\ SubSeq(base, size - Len(fill) + 1, size) = fill
Fills(base, fill) ==
  CHOOSE n \in 0..Len(base) : ~EndsWith(base, fill, n) /\ \A k \in 0..(n - 1) : EndsWith(base, fill, k)
Quad(base, group) ==
  OfSextets(At(base, 4 * group + 1), At(base, 4 * group + 2), At(base, 4 * group + 3), At(base, 4 * group + 4))
OctetOf(base, i) == Field(Quad(base, (i - 1) \div 3), OctetUnit[((i - 1) % 3) + 1], 256)
decode(base, url) ==
  LET fill == Fill(url)
      cnt  == Fills(base, fill)
      size == Len(base) - cnt * Len(fill)
      body == SubSeq(base, 1, size)
  IN  IF cnt > 2 \/ (size + cnt) % 4 # 0 \/ ToSet(body) \cap {Equals, Percent} # {} THEN Invalid
      ELSE [i \in 1..(3 * (size \div 4) + ((3 - cnt) % 3)) |-> OctetOf(body, i)]
pad(base, url) == base \o Repeated(Fill(url), (4 - (Len(base) % 4)) % 4)
\* From the first fill on, wherever it is.
trim(base, url) ==
  LET fill == Fill(url)
      at == {i \in 1..(Len(base) - Len(fill) + 1) : SubSeq(base, i, i + Len(fill) - 1) = fill}
  IN  IF at = {} THEN base ELSE SubSeq(base, 1, (CHOOSE i \in at : \A j \in at : i <= j) - 1)

AddByte == \E b \in Bytes :
  Len(plain) < MaxBytes /\ coded = << >> /\ plain' = Append(plain, b) /\ UNCHANGED coded
AddSymbol == \E c \in Symbols :
  Len(coded) < MaxSymbols /\ plain = << >> /\ coded' = Append(coded, c) /\ UNCHANGED plain
Base64Init == plain = << >> /\ coded = << >>
Base64Next == AddByte \/ AddSymbol

-----------------------------------------------------------------------------
\* What is encoded is decoded to the same bytes, in both alphabets, with the
\* fill and without; and a text that is accepted is the encoding of what it is
\* decoded to, but for the bits that its last letter has too many.
Base64RoundTrip ==
  /\ \A url \in BOOLEAN :
       /\ decode(encode(plain, url), url) = plain
       /\ decode(pad(trim(encode(plain, url), url), url), url) = plain
  /\ \A url \in BOOLEAN :
       LET bytes == decode(coded, url)
           again == encode(bytes, url)
           cnt   == Fills(coded, Fill(url))
           last  == Len(coded) - cnt * Len(Fill(url))
       IN  bytes # Invalid =>
             /\ Len(again) = Len(coded)
             /\ \A i \in DOMAIN coded : i # last \/ cnt = 0 => coded[i] = again[i]
=============================================================================
