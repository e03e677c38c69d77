--------------------------- MODULE DocumentProofs ---------------------------
(***************************************************************************)
(* Proofs about the data the library keeps.                                *)
(*                                                                         *)
(* Base64, for data and texts of any length: what a group of three octets  *)
(* or of four letters is made of comes out of it again, whatever it is,    *)
(* and so does what the groups of a text are made of.                      *)
(*                                                                         *)
(* CList and TList, for lists of any length and any values: each call on   *)
(* the cells (Block) and on the copies a TList owns (TLists) is what       *)
(* ListSequence says of the sequence of items, QuickSort and the loops of  *)
(* Assign included.  A loop is a function of the turns made so far: that   *)
(* there is one is LoopIs, from Recursion in ListLemmas, and KeepsAll or   *)
(* Turns carry a fact from each turn to the next.                          *)
(*                                                                         *)
(* The collections and CQueue, for any items, keys and calls: CollInv says *)
(* of the state (Tidy) that item and collection name each other and that   *)
(* the numbers differ, and of the queues (Queues) that each key with work  *)
(* has one item, which holds it in order.                                  *)
(***************************************************************************)
EXTENDS Base64, Collections, ListLemmas

LEMMA Quotient ==
  ASSUME NEW d \in {3, 4, 16, 64, 256, 4096, 65536, 262144}, NEW q \in Int, NEW r \in Int, 0 <= r, r < d, NEW x \in Int, x = q * d + r
  PROVE  x \div d = q
<1>1. CASE d = 3 BY <1>1
<1>2. CASE d = 4 BY <1>2
<1>3. CASE d = 16 BY <1>3
<1>4. CASE d = 64 BY <1>4
<1>5. CASE d = 256 BY <1>5
<1>6. CASE d = 4096 BY <1>6
<1>7. CASE d = 65536 BY <1>7
<1>8. CASE d = 262144 BY <1>8
<1> QED BY <1>1, <1>2, <1>3, <1>4, <1>5, <1>6, <1>7, <1>8

LEMMA Remainder ==
  ASSUME NEW d \in {3, 4, 16, 64, 256, 4096, 65536, 262144}, NEW q \in Int, NEW r \in Int, 0 <= r, r < d, NEW x \in Int, x = q * d + r
  PROVE  x % d = r
<1>1. CASE d = 3 BY <1>1
<1>2. CASE d = 4 BY <1>2
<1>3. CASE d = 16 BY <1>3
<1>4. CASE d = 64 BY <1>4
<1>5. CASE d = 256 BY <1>5
<1>6. CASE d = 4096 BY <1>6
<1>7. CASE d = 65536 BY <1>7
<1>8. CASE d = 262144 BY <1>8
<1> QED BY <1>1, <1>2, <1>3, <1>4, <1>5, <1>6, <1>7, <1>8

LEMMA SextetsOf ==
  ASSUME NEW s \in Alphabet, NEW t \in Alphabet, NEW u \in Alphabet, NEW v \in Alphabet
  PROVE  /\ OfSextets(s, t, u, v) \in Nat
         /\ Field(OfSextets(s, t, u, v), 262144, 64) = s
         /\ Field(OfSextets(s, t, u, v), 4096, 64) = t
         /\ Field(OfSextets(s, t, u, v), 64, 64) = u
         /\ Field(OfSextets(s, t, u, v), 1, 64) = v
<1> USE DEF Alphabet
<1>0. PICK T \in Nat : T = s * 262144 + t * 4096 + u * 64 + v OBVIOUS
<1>1. T \div 262144 = s
  <2>1. PICK r \in Int : r = t * 4096 + u * 64 + v OBVIOUS
  <2>2. 0 <= r /\ r < 262144 /\ T = s * 262144 + r BY <1>0, <2>1
  <2> QED BY <2>2, Quotient
<1>2. PICK p \in Int : p = s * 64 + t OBVIOUS
<1>3. PICK q \in Int : q = p * 64 + u BY <1>2
<1>4. T \div 4096 = p
  <2>1. PICK r \in Int : r = u * 64 + v OBVIOUS
  <2>2. 0 <= r /\ r < 4096 /\ T = p * 4096 + r BY <1>0, <1>2, <2>1
  <2> QED BY <2>2, Quotient
<1>5. T = q * 64 + v BY <1>0, <1>2, <1>3
<1>6. T \div 64 = q BY <1>5, Quotient
<1>7. T \div 1 = T OBVIOUS
<1>8. s % 64 = s OBVIOUS
<1>9. p % 64 = t BY <1>2, Remainder
<1>10. q % 64 = u BY <1>3, Remainder
<1>11. T % 64 = v BY <1>5, Remainder
<1>12. OfSextets(s, t, u, v) = T BY <1>0 DEF OfSextets
<1>13. Field(T, 262144, 64) = s /\ Field(T, 4096, 64) = t /\ Field(T, 64, 64) = u /\ Field(T, 1, 64) = v
  BY <1>1, <1>4, <1>6, <1>7, <1>8, <1>9, <1>10, <1>11 DEF Field
<1> QED BY <1>12, <1>13

LEMMA OctetsOf ==
  ASSUME NEW a \in Octets, NEW b \in Octets, NEW c \in Octets
  PROVE  /\ OfOctets(a, b, c) \in Nat
         /\ Field(OfOctets(a, b, c), 65536, 256) = a
         /\ Field(OfOctets(a, b, c), 256, 256) = b
         /\ Field(OfOctets(a, b, c), 1, 256) = c
<1> USE DEF Octets
<1>0. PICK T \in Nat : T = a * 65536 + b * 256 + c OBVIOUS
<1>1. T \div 65536 = a
  <2>1. PICK r \in Int : r = b * 256 + c OBVIOUS
  <2>2. 0 <= r /\ r < 65536 /\ T = a * 65536 + r BY <1>0, <2>1
  <2> QED BY <2>2, Quotient
<1>2. PICK p \in Int : p = a * 256 + b OBVIOUS
<1>3. T = p * 256 + c BY <1>0, <1>2
<1>4. T \div 256 = p BY <1>3, Quotient
<1>5. T \div 1 = T OBVIOUS
<1>6. a % 256 = a OBVIOUS
<1>7. p % 256 = b BY <1>2, Remainder
<1>8. T % 256 = c BY <1>3, Remainder
<1>9. OfOctets(a, b, c) = T BY <1>0 DEF OfOctets
<1>10. Field(T, 65536, 256) = a /\ Field(T, 256, 256) = b /\ Field(T, 1, 256) = c
  BY <1>1, <1>4, <1>5, <1>6, <1>7, <1>8 DEF Field
<1> QED BY <1>9, <1>10

LEMMA BytesReturn ==
  ASSUME NEW a \in Octets, NEW b \in Octets, NEW c \in Octets, NEW T, T = OfOctets(a, b, c),
         NEW s, NEW t, NEW u, NEW v,
         s = Field(T, 262144, 64), t = Field(T, 4096, 64), u = Field(T, 64, 64), v = Field(T, 1, 64)
  PROVE  /\ s \in Alphabet /\ t \in Alphabet /\ u \in Alphabet /\ v \in Alphabet
         /\ OfSextets(s, t, u, v) = T
         /\ c = 0 => v = 0
         /\ b = 0 /\ c = 0 => u = 0
<1>1. PICK i \in Alphabet, x \in 0..3 : a = i * 4 + x
  <2>1. a \div 4 \in 0..63 /\ a % 4 \in 0..3 /\ a = (a \div 4) * 4 + (a % 4) BY DEF Octets
  <2> QED BY <2>1 DEF Alphabet
<1>2. PICK y \in 0..15, z \in 0..15 : b = y * 16 + z
  <2>1. b \div 16 \in 0..15 /\ b % 16 \in 0..15 /\ b = (b \div 16) * 16 + (b % 16) BY DEF Octets
  <2> QED BY <2>1
<1>3. PICK w \in 0..3, j \in Alphabet : c = w * 64 + j
  <2>1. c \div 64 \in 0..3 /\ c % 64 \in 0..63 /\ c = (c \div 64) * 64 + (c % 64) BY DEF Octets
  <2> QED BY <2>1 DEF Alphabet
<1>4. PICK p \in Alphabet : p = x * 16 + y BY DEF Alphabet
<1>5. PICK q \in Alphabet : q = z * 4 + w BY DEF Alphabet
<1>6. T = OfSextets(i, p, q, j) BY <1>1, <1>2, <1>3, <1>4, <1>5 DEF OfSextets, OfOctets, Alphabet, Octets
<1>7. s = i /\ t = p /\ u = q /\ v = j BY <1>6, SextetsOf
<1>8. c = 0 => j = 0 BY <1>3 DEF Alphabet
<1>9. b = 0 /\ c = 0 => q = 0
  <2>1. b = 0 => z = 0 BY <1>2
  <2>2. c = 0 => w = 0 BY <1>3 DEF Alphabet
  <2> QED BY <2>1, <2>2, <1>5
<1> QED BY <1>6, <1>7, <1>8, <1>9

LEMMA LettersReturn ==
  ASSUME NEW s \in Alphabet, NEW t \in Alphabet, NEW u \in Alphabet, NEW v \in Alphabet, NEW T, T = OfSextets(s, t, u, v),
         NEW a, NEW b, NEW c, a = Field(T, 65536, 256), b = Field(T, 256, 256), c = Field(T, 1, 256)
  PROVE  /\ a \in Octets /\ b \in Octets /\ c \in Octets
         /\ OfOctets(a, b, c) = T
         /\ Field(OfOctets(a, 0, 0), 262144, 64) = s
         /\ Field(OfOctets(a, b, 0), 262144, 64) = s
         /\ Field(OfOctets(a, b, 0), 4096, 64) = t
<1>1. PICK x \in 0..3, y \in 0..15 : t = x * 16 + y
  <2>1. t \div 16 \in 0..3 /\ t % 16 \in 0..15 /\ t = (t \div 16) * 16 + (t % 16) BY DEF Alphabet
  <2> QED BY <2>1
<1>2. PICK z \in 0..15, w \in 0..3 : u = z * 4 + w
  <2>1. u \div 4 \in 0..15 /\ u % 4 \in 0..3 /\ u = (u \div 4) * 4 + (u % 4) BY DEF Alphabet
  <2> QED BY <2>1
<1>3. PICK i \in Octets : i = s * 4 + x BY DEF Alphabet, Octets
<1>4. PICK j \in Octets : j = y * 16 + z BY DEF Alphabet, Octets
<1>5. PICK k \in Octets : k = w * 64 + v BY DEF Alphabet, Octets
<1>6. T = OfOctets(i, j, k) BY <1>1, <1>2, <1>3, <1>4, <1>5 DEF OfSextets, OfOctets, Alphabet, Octets
<1>7. a = i /\ b = j /\ c = k BY <1>6, OctetsOf
<1>8. PICK m \in Alphabet : m = x * 16 BY DEF Alphabet
<1>9. PICK n \in Alphabet : n = z * 4 BY DEF Alphabet
<1>10. 0 \in Alphabet BY DEF Alphabet
<1>11. OfOctets(a, 0, 0) = OfSextets(s, m, 0, 0) BY <1>3, <1>7, <1>8 DEF OfSextets, OfOctets, Alphabet, Octets
<1>12. OfOctets(a, b, 0) = OfSextets(s, t, n, 0)
  <2>1. (s * 4 + x) * 65536 + (y * 16 + z) * 256 + 0 = s * 262144 + (x * 16 + y) * 4096 + (z * 4) * 64 + 0
    BY ONLY s \in Alphabet, x \in 0..3, y \in 0..15, z \in 0..15 DEF Alphabet
  <2> QED BY <1>1, <1>3, <1>4, <1>7, <1>9, <2>1 DEF OfSextets, OfOctets
<1> QED BY <1>6, <1>7, <1>10, <1>11, <1>12, SextetsOf

\* The place of a symbol, or of an octet, in its group
LEMMA OfGroup ==
  ASSUME NEW d \in {3, 4}, NEW h \in Nat, NEW k \in 1..d, NEW i \in Int, i = d * h + k
  PROVE  (i - 1) \div d = h /\ ((i - 1) % d) + 1 = k
<1>1. PICK r \in Int : r = k - 1 OBVIOUS
<1>2. PICK x \in Int : x = i - 1 OBVIOUS
<1>3. 0 <= r /\ r < d BY <1>1
<1>4. CASE d = 3
  <2>1. x = h * 3 + r BY <1>1, <1>2, <1>4
  <2>2. x \div 3 = h /\ x % 3 = r BY <1>3, <1>4, <2>1, Quotient, Remainder
  <2> QED BY <1>1, <1>2, <1>4, <2>2
<1>5. CASE d = 4
  <2>1. x = h * 4 + r BY <1>1, <1>2, <1>5
  <2>2. x \div 4 = h /\ x % 4 = r BY <1>3, <1>5, <2>1, Quotient, Remainder
  <2> QED BY <1>1, <1>2, <1>5, <2>2
<1> QED BY <1>4, <1>5

LEMMA Grouped ==
  ASSUME NEW d \in {3, 4}, NEW i \in Nat, i >= 1
  PROVE  \E h \in Nat : \E k \in 1..d : i = d * h + k
<1>1. PICK x \in Nat : x = i - 1 OBVIOUS
<1>2. CASE d = 3
  <2>1. PICK h \in Nat : h = x \div 3 OBVIOUS
  <2>2. PICK k \in 1..3 : k = (x % 3) + 1 OBVIOUS
  <2>3. x = 3 * (x \div 3) + (x % 3) OBVIOUS
  <2>4. i = 3 * h + k BY <1>1, <2>1, <2>2, <2>3
  <2> QED BY <1>2, <2>4
<1>3. CASE d = 4
  <2>1. PICK h \in Nat : h = x \div 4 OBVIOUS
  <2>2. PICK k \in 1..4 : k = (x % 4) + 1 OBVIOUS
  <2>3. x = 4 * (x \div 4) + (x % 4) OBVIOUS
  <2>4. i = 4 * h + k BY <1>1, <2>1, <2>2, <2>3
  <2> QED BY <1>3, <2>4
<1> QED BY <1>2, <1>3

LEMMA OctetFields ==
  ASSUME NEW a \in Octets, NEW b \in Octets, NEW c \in Octets, NEW j \in 1..3
  PROVE  Field(OfOctets(a, b, c), OctetUnit[j], 256) = <<a, b, c>>[j]
<1>1. CASE j = 1 BY <1>1, OctetsOf DEF OctetUnit
<1>2. CASE j = 2 BY <1>2, OctetsOf DEF OctetUnit
<1>3. CASE j = 3 BY <1>3, OctetsOf DEF OctetUnit
<1> QED BY <1>1, <1>2, <1>3

\* The letters a text of n octets has: r is what n has over g triples.
Over(r) == IF r = 0 THEN 0 ELSE r + 1

LEMMA FieldsAre ==
  ASSUME NEW x \in Nat
  PROVE  /\ \A k \in 1..4 : Field(x, SextetUnit[k], 64) \in Alphabet
         /\ \A j \in 1..3 : Field(x, OctetUnit[j], 256) \in Octets
<1>1. \A q \in Int : q % 64 \in Alphabet BY DEF Alphabet
<1>2. \A q \in Int : q % 256 \in Octets BY DEF Octets
<1>3. x \div 262144 \in Int /\ x \div 4096 \in Int /\ x \div 64 \in Int OBVIOUS
<1>4. x \div 65536 \in Int /\ x \div 256 \in Int /\ x \div 1 \in Int OBVIOUS
<1>5. ASSUME NEW k \in 1..4 PROVE Field(x, SextetUnit[k], 64) \in Alphabet
  <2>1. CASE k = 1 BY <1>1, <1>3, <2>1 DEF Field, SextetUnit
  <2>2. CASE k = 2 BY <1>1, <1>3, <2>2 DEF Field, SextetUnit
  <2>3. CASE k = 3 BY <1>1, <1>3, <2>3 DEF Field, SextetUnit
  <2>4. CASE k = 4 BY <1>1, <1>4, <2>4 DEF Field, SextetUnit
  <2> QED BY <2>1, <2>2, <2>3, <2>4
<1>6. ASSUME NEW j \in 1..3 PROVE Field(x, OctetUnit[j], 256) \in Octets
  <2>1. CASE j = 1 BY <1>2, <1>4, <2>1 DEF Field, OctetUnit
  <2>2. CASE j = 2 BY <1>2, <1>4, <2>2 DEF Field, OctetUnit
  <2>3. CASE j = 3 BY <1>2, <1>4, <2>3 DEF Field, OctetUnit
  <2> QED BY <2>1, <2>2, <2>3
<1> QED BY <1>5, <1>6

LEMMA TripleIs ==
  ASSUME NEW bin \in Seq(Octets), NEW h \in Nat
  PROVE  /\ \A i \in Nat : i >= 1 => At(bin, i) \in Octets
         /\ Triple(bin, h) \in Nat
<1>1. 0 \in Octets BY DEF Octets
<1>2. \A i \in Nat : i >= 1 => At(bin, i) \in Octets BY <1>1 DEF At
<1>3. 3 * h + 1 \in Nat /\ 3 * h + 2 \in Nat /\ 3 * h + 3 \in Nat OBVIOUS
<1>4. At(bin, 3 * h + 1) \in Octets /\ At(bin, 3 * h + 2) \in Octets /\ At(bin, 3 * h + 3) \in Octets
  BY <1>2, <1>3
<1> QED BY <1>2, <1>4, OctetsOf DEF Triple

LEMMA SextetsAre ==
  ASSUME NEW bin \in Seq(Octets), NEW g \in Nat, NEW r \in 0..2, Len(bin) = 3 * g + r
  PROVE  /\ Len(bin) \div 3 = g /\ Len(bin) % 3 = r
         /\ Sextets(bin) \in Seq(Alphabet)
         /\ Len(Sextets(bin)) = 4 * g + Over(r)
         /\ \A h \in Nat : \A k \in 1..4 : 4 * h + k <= Len(Sextets(bin)) =>
              Sextets(bin)[4 * h + k] = Field(Triple(bin, h), SextetUnit[k], 64)
<1>1. Len(bin) \div 3 = g /\ Len(bin) % 3 = r
  <2>1. Len(bin) = g * 3 + r /\ Len(bin) \in Nat OBVIOUS
  <2> QED BY <2>1, Quotient, Remainder
<1>2. PICK m \in Nat : m = 4 * g + Over(r) BY DEF Over
<1>3. Sextets(bin) = [i \in 1..m |-> Sextet(bin, i)] BY <1>1, <1>2 DEF Sextets, Over
<1>4. ASSUME NEW h \in Nat, NEW k \in 1..4 PROVE Sextet(bin, 4 * h + k) = Field(Triple(bin, h), SextetUnit[k], 64)
  <2>1. PICK i \in Int : i = 4 * h + k OBVIOUS
  <2>2. (i - 1) \div 4 = h /\ ((i - 1) % 4) + 1 = k BY <2>1, OfGroup
  <2> QED BY <2>1, <2>2 DEF Sextet
<1>5. ASSUME NEW i \in 1..m PROVE Sextet(bin, i) \in Alphabet
  <2>1. PICK h \in Nat, k \in 1..4 : i = 4 * h + k
    <3>1. i \in Nat /\ i >= 1 OBVIOUS
    <3>2. \E h \in Nat : \E k \in 1..4 : i = 4 * h + k BY <3>1, Grouped
    <3> QED BY <3>2
  <2>2. Field(Triple(bin, h), SextetUnit[k], 64) \in Alphabet BY TripleIs, FieldsAre
  <2> QED BY <1>4, <2>1, <2>2
<1>6. Sextets(bin) \in Seq(Alphabet) /\ Len(Sextets(bin)) = m BY <1>3, <1>5
<1>7. ASSUME NEW h \in Nat, NEW k \in 1..4, 4 * h + k <= m
      PROVE  Sextets(bin)[4 * h + k] = Field(Triple(bin, h), SextetUnit[k], 64)
  <2>1. 4 * h + k \in 1..m BY <1>7
  <2> QED BY <1>3, <1>4, <2>1
<1> QED BY <1>1, <1>2, <1>6, <1>7

\* Encoding loses nothing: an octet is found again in the letters of its triple.
LEMMA OctetsReturn ==
  ASSUME NEW bin \in Seq(Octets), NEW i \in 1..Len(bin)
  PROVE  OctetOf(Sextets(bin), i) = bin[i]
<1>0. Len(bin) \in Nat /\ i \in Nat /\ i >= 1 /\ i <= Len(bin) OBVIOUS
<1>1. PICK h \in Nat, j \in 1..3 : i = 3 * h + j
  <2>1. \E h \in Nat : \E j \in 1..3 : i = 3 * h + j BY <1>0, Grouped
  <2> QED BY <2>1
<1>2. PICK g \in Nat, r \in 0..2 : Len(bin) = 3 * g + r
  <2>1. PICK n \in Nat : n = Len(bin) BY <1>0
  <2>2. n \div 3 \in Nat /\ n % 3 \in 0..2 /\ n = 3 * (n \div 3) + (n % 3) OBVIOUS
  <2> QED BY <2>1, <2>2
<1> DEFINE s == Sextets(bin)
           T == Triple(bin, h)
<1>3. /\ s \in Seq(Alphabet) /\ Len(s) = 4 * g + Over(r)
      /\ \A k \in 1..4 : 4 * h + k <= Len(s) => s[4 * h + k] = Field(T, SextetUnit[k], 64)
  BY <1>2, SextetsAre
<1>4. PICK a \in Octets, b \in Octets, c \in Octets :
        a = At(bin, 3 * h + 1) /\ b = At(bin, 3 * h + 2) /\ c = At(bin, 3 * h + 3)
  <2>1. 3 * h + 1 \in Nat /\ 3 * h + 2 \in Nat /\ 3 * h + 3 \in Nat OBVIOUS
  <2> QED BY <2>1, TripleIs
<1>5. T = OfOctets(a, b, c) BY <1>4 DEF Triple
<1> HIDE DEF s, T
<1>6. PICK p, q, u, v : p = Field(T, 262144, 64) /\ q = Field(T, 4096, 64) /\ u = Field(T, 64, 64) /\ v = Field(T, 1, 64)
  OBVIOUS
<1>7. /\ p \in Alphabet /\ q \in Alphabet /\ u \in Alphabet /\ v \in Alphabet
      /\ OfSextets(p, q, u, v) = T
      /\ c = 0 => v = 0
      /\ b = 0 /\ c = 0 => u = 0
  BY <1>5, <1>6, BytesReturn
<1>8. h < g \/ (h = g /\ r >= 1) BY <1>0, <1>1, <1>2
<1>9. At(s, 4 * h + 1) = p
  <2>1. 4 * h + 1 <= Len(s) BY <1>3, <1>8 DEF Over
  <2> QED BY <1>3, <1>6, <2>1 DEF At, SextetUnit
<1>10. At(s, 4 * h + 2) = q
  <2>1. 4 * h + 2 <= Len(s) BY <1>3, <1>8 DEF Over
  <2> QED BY <1>3, <1>6, <2>1 DEF At, SextetUnit
<1>11. At(s, 4 * h + 3) = u
  <2>1. CASE 4 * h + 3 <= Len(s) BY <1>3, <1>6, <2>1 DEF At, SextetUnit
  <2>2. CASE ~(4 * h + 3 <= Len(s))
    <3>1. h = g /\ r = 1 BY <1>3, <1>8, <2>2 DEF Over
    <3>2. Len(bin) < 3 * h + 2 /\ Len(bin) < 3 * h + 3 BY <1>2, <3>1
    <3>3. b = 0 /\ c = 0 BY <1>0, <1>4, <3>2 DEF At
    <3> QED BY <1>7, <2>2, <3>3 DEF At
  <2> QED BY <2>1, <2>2
<1>12. At(s, 4 * h + 4) = v
  <2>1. CASE 4 * h + 4 <= Len(s) BY <1>3, <1>6, <2>1 DEF At, SextetUnit
  <2>2. CASE ~(4 * h + 4 <= Len(s))
    <3>1. h = g /\ r <= 2 BY <1>3, <1>8, <2>2 DEF Over
    <3>2. Len(bin) < 3 * h + 3 BY <1>2, <3>1
    <3>3. c = 0 BY <1>0, <1>4, <3>2 DEF At
    <3> QED BY <1>7, <2>2, <3>3 DEF At
  <2> QED BY <2>1, <2>2
<1>13. Quad(s, h) = T BY <1>7, <1>9, <1>10, <1>11, <1>12 DEF Quad
<1>14. OctetOf(s, i) = Field(T, OctetUnit[j], 256)
  <2>1. (i - 1) \div 3 = h /\ ((i - 1) % 3) + 1 = j BY <1>1, OfGroup
  <2> QED BY <1>13, <2>1 DEF OctetOf
<1>15. Field(T, OctetUnit[j], 256) = <<a, b, c>>[j] BY <1>5, OctetFields
<1>16. <<a, b, c>>[j] = bin[i]
  <2>1. CASE j = 1 BY <1>0, <1>1, <1>4, <2>1 DEF At
  <2>2. CASE j = 2 BY <1>0, <1>1, <1>4, <2>2 DEF At
  <2>3. CASE j = 3 BY <1>0, <1>1, <1>4, <2>3 DEF At
  <2> QED BY <2>1, <2>2, <2>3
<1> QED BY <1>14, <1>15, <1>16 DEF s

LEMMA SextetFields ==
  ASSUME NEW s \in Alphabet, NEW t \in Alphabet, NEW u \in Alphabet, NEW v \in Alphabet, NEW k \in 1..4
  PROVE  Field(OfSextets(s, t, u, v), SextetUnit[k], 64) = <<s, t, u, v>>[k]
<1>1. CASE k = 1 BY <1>1, SextetsOf DEF SextetUnit
<1>2. CASE k = 2 BY <1>2, SextetsOf DEF SextetUnit
<1>3. CASE k = 3 BY <1>3, SextetsOf DEF SextetUnit
<1>4. CASE k = 4 BY <1>4, SextetsOf DEF SextetUnit
<1> QED BY <1>1, <1>2, <1>3, <1>4

\* The octets a text of letters stands for: e is what its length has over groups of four.
Short(e) == IF e = 0 THEN 0 ELSE e - 1

LEMMA OctetsAre ==
  ASSUME NEW base \in Seq(Alphabet), NEW n \in Nat, NEW bytes, bytes = [i \in 1..n |-> OctetOf(base, i)]
  PROVE  /\ \A i \in Nat : i >= 1 => At(base, i) \in Alphabet
         /\ bytes \in Seq(Octets) /\ Len(bytes) = n
         /\ \A h \in Nat : \A j \in 1..3 : 3 * h + j <= n =>
              bytes[3 * h + j] = Field(Quad(base, h), OctetUnit[j], 256)
<1>1. 0 \in Alphabet BY DEF Alphabet
<1>2. \A i \in Nat : i >= 1 => At(base, i) \in Alphabet BY <1>1 DEF At
<1>3. ASSUME NEW h \in Nat PROVE Quad(base, h) \in Nat
  <2>1. 4 * h + 1 \in Nat /\ 4 * h + 2 \in Nat /\ 4 * h + 3 \in Nat /\ 4 * h + 4 \in Nat OBVIOUS
  <2>2. /\ At(base, 4 * h + 1) \in Alphabet /\ At(base, 4 * h + 2) \in Alphabet
        /\ At(base, 4 * h + 3) \in Alphabet /\ At(base, 4 * h + 4) \in Alphabet
    BY <1>2, <2>1
  <2> QED BY <2>2, SextetsOf DEF Quad
<1>4. ASSUME NEW h \in Nat, NEW j \in 1..3
      PROVE  OctetOf(base, 3 * h + j) = Field(Quad(base, h), OctetUnit[j], 256)
  <2>1. PICK i \in Int : i = 3 * h + j OBVIOUS
  <2>2. (i - 1) \div 3 = h /\ ((i - 1) % 3) + 1 = j BY <2>1, OfGroup
  <2> QED BY <2>1, <2>2 DEF OctetOf
<1>5. ASSUME NEW i \in 1..n PROVE OctetOf(base, i) \in Octets
  <2>1. PICK h \in Nat, j \in 1..3 : i = 3 * h + j
    <3>1. i \in Nat /\ i >= 1 OBVIOUS
    <3>2. \E h \in Nat : \E j \in 1..3 : i = 3 * h + j BY <3>1, Grouped
    <3> QED BY <3>2
  <2>2. Field(Quad(base, h), OctetUnit[j], 256) \in Octets BY <1>3, FieldsAre
  <2> QED BY <1>4, <2>1, <2>2
<1>6. bytes \in Seq(Octets) /\ Len(bytes) = n BY <1>5
<1>7. ASSUME NEW h \in Nat, NEW j \in 1..3, 3 * h + j <= n
      PROVE  bytes[3 * h + j] = Field(Quad(base, h), OctetUnit[j], 256)
  <2>1. 3 * h + j \in 1..n BY <1>7
  <2> QED BY <1>4, <2>1
<1> QED BY <1>2, <1>6, <1>7

ButTheLast(s, base, e) == \A i \in 1..Len(base) : i # Len(base) \/ e = 0 => s[i] = base[i]

Quads(base, p, e) == Len(base) = 4 * p + e
OctetsOfQuads(base, p, e) == [i \in 1..(3 * p + Short(e)) |-> OctetOf(base, i)]

\* Decoding loses nothing but the low bits of the last letter of an incomplete group.
LEMMA LettersAgain ==
  ASSUME NEW base \in Seq(Alphabet), NEW p \in Nat, NEW e \in {0, 2, 3}, Quads(base, p, e),
         NEW bytes, bytes = OctetsOfQuads(base, p, e)
  PROVE  /\ bytes \in Seq(Octets) /\ Len(bytes) = 3 * p + Short(e)
         /\ Len(Sextets(bytes)) = Len(base)
         /\ ButTheLast(Sextets(bytes), base, e)
<1>0. Len(base) = 4 * p + e /\ bytes = [i \in 1..(3 * p + Short(e)) |-> OctetOf(base, i)] BY DEF Quads, OctetsOfQuads
<1>1. PICK r \in 0..2 : r = Short(e) /\ Over(r) = e BY DEF Short, Over
<1>2. PICK n \in Nat : n = 3 * p + r OBVIOUS
<1>3. /\ \A i \in Nat : i >= 1 => At(base, i) \in Alphabet
      /\ bytes \in Seq(Octets) /\ Len(bytes) = n
      /\ \A h \in Nat : \A j \in 1..3 : 3 * h + j <= n =>
           bytes[3 * h + j] = Field(Quad(base, h), OctetUnit[j], 256)
  <2>1. bytes = [i \in 1..n |-> OctetOf(base, i)] BY <1>0, <1>1, <1>2
  <2> QED BY ONLY <2>1, base \in Seq(Alphabet), n \in Nat, OctetsAre
<1>4. /\ Len(Sextets(bytes)) = 4 * p + Over(r)
      /\ \A h \in Nat : \A k \in 1..4 : 4 * h + k <= Len(Sextets(bytes)) =>
           Sextets(bytes)[4 * h + k] = Field(Triple(bytes, h), SextetUnit[k], 64)
  <2>1. bytes \in Seq(Octets) /\ Len(bytes) = 3 * p + r BY <1>2, <1>3
  <2> QED BY <2>1, SextetsAre
<1>5. Len(Sextets(bytes)) = Len(base) BY <1>0, <1>1, <1>4
<1>6. ASSUME NEW i \in 1..Len(base), i # Len(base) \/ e = 0
      PROVE  Sextets(bytes)[i] = base[i]
  <2>0. i \in Nat /\ i >= 1 /\ i <= Len(base) OBVIOUS
  <2>1. PICK h \in Nat, k \in 1..4 : i = 4 * h + k
    <3>1. \E h \in Nat : \E k \in 1..4 : i = 4 * h + k BY <2>0, Grouped
    <3> QED BY <3>1
  <2>2. PICK s \in Alphabet, t \in Alphabet, u \in Alphabet, v \in Alphabet :
          /\ s = At(base, 4 * h + 1) /\ t = At(base, 4 * h + 2)
          /\ u = At(base, 4 * h + 3) /\ v = At(base, 4 * h + 4)
    <3>1. 4 * h + 1 \in Nat /\ 4 * h + 2 \in Nat /\ 4 * h + 3 \in Nat /\ 4 * h + 4 \in Nat OBVIOUS
    <3> QED BY <1>3, <3>1
  <2>3. PICK T : T = OfSextets(s, t, u, v) OBVIOUS
  <2>4. Quad(base, h) = T BY <2>2, <2>3 DEF Quad
  <2>5. PICK a, b, c : a = Field(T, 65536, 256) /\ b = Field(T, 256, 256) /\ c = Field(T, 1, 256) OBVIOUS
  <2>6. /\ OfOctets(a, b, c) = T
        /\ Field(OfOctets(a, 0, 0), 262144, 64) = s
        /\ Field(OfOctets(a, b, 0), 262144, 64) = s
        /\ Field(OfOctets(a, b, 0), 4096, 64) = t
    BY <2>3, <2>5, LettersReturn
  <2>7. /\ 3 * h + 1 <= n => At(bytes, 3 * h + 1) = a
        /\ 3 * h + 2 <= n => At(bytes, 3 * h + 2) = b
        /\ 3 * h + 3 <= n => At(bytes, 3 * h + 3) = c
    <3>1. Len(bytes) = n BY <1>3
    <3>0. 1 \in 1..3 /\ 2 \in 1..3 /\ 3 \in 1..3 OBVIOUS
    <3>2. 3 * h + 1 <= n => bytes[3 * h + 1] = a BY <1>3, <2>4, <2>5, <3>0 DEF OctetUnit
    <3>3. 3 * h + 2 <= n => bytes[3 * h + 2] = b BY <1>3, <2>4, <2>5, <3>0 DEF OctetUnit
    <3>4. 3 * h + 3 <= n => bytes[3 * h + 3] = c BY <1>3, <2>4, <2>5, <3>0 DEF OctetUnit
    <3> QED BY <3>1, <3>2, <3>3, <3>4 DEF At
  <2>8. /\ ~(3 * h + 2 <= n) => At(bytes, 3 * h + 2) = 0
        /\ ~(3 * h + 3 <= n) => At(bytes, 3 * h + 3) = 0
    BY <1>3 DEF At
  <2>9. Sextets(bytes)[i] = Field(Triple(bytes, h), SextetUnit[k], 64) BY <1>4, <1>5, <2>0, <2>1
  <2>10. base[i] = <<s, t, u, v>>[k]
    <3>1. CASE k = 1 BY <2>0, <2>1, <2>2, <3>1 DEF At
    <3>2. CASE k = 2 BY <2>0, <2>1, <2>2, <3>2 DEF At
    <3>3. CASE k = 3 BY <2>0, <2>1, <2>2, <3>3 DEF At
    <3>4. CASE k = 4 BY <2>0, <2>1, <2>2, <3>4 DEF At
    <3> QED BY <3>1, <3>2, <3>3, <3>4
  <2>11. CASE h < p
    <3>1. 3 * h + 1 <= n /\ 3 * h + 2 <= n /\ 3 * h + 3 <= n BY <1>2, <2>11
    <3>2. Triple(bytes, h) = T BY <2>6, <2>7, <3>1 DEF Triple
    <3>3. Field(T, SextetUnit[k], 64) = <<s, t, u, v>>[k] BY <2>3, SextetFields
    <3> QED BY <2>9, <2>10, <3>2, <3>3
  <2>12. CASE ~(h < p)
    <3>1. h = p /\ k < e BY <1>0, <1>6, <2>0, <2>1, <2>12
    <3>2. CASE e = 3
      <4>1. r = 2 BY <1>1, <3>2 DEF Short
      <4>2. 3 * h + 1 <= n /\ 3 * h + 2 <= n /\ ~(3 * h + 3 <= n) BY <1>2, <3>1, <4>1
      <4>3. Triple(bytes, h) = OfOctets(a, b, 0) BY <2>7, <2>8, <4>2 DEF Triple
      <4>4. k = 1 \/ k = 2 BY <3>1, <3>2
      <4> QED BY <2>6, <2>9, <2>10, <4>3, <4>4 DEF SextetUnit
    <3>3. CASE e = 2
      <4>1. r = 1 BY <1>1, <3>3 DEF Short
      <4>2. 3 * h + 1 <= n /\ ~(3 * h + 2 <= n) /\ ~(3 * h + 3 <= n) BY <1>2, <3>1, <4>1
      <4>3. Triple(bytes, h) = OfOctets(a, 0, 0) BY <2>7, <2>8, <4>2 DEF Triple
      <4>4. k = 1 BY <3>1, <3>3
      <4> QED BY <2>6, <2>9, <2>10, <4>3, <4>4 DEF SextetUnit
    <3> QED BY <3>1, <3>2, <3>3
  <2> QED BY <2>11, <2>12
<1> QED BY <1>1, <1>2, <1>3, <1>5, <1>6 DEF ButTheLast

\* Fills
Signs == Alphabet \cup {Equals, Percent}
IsFill(fill) == fill \in {<<Equals>>, <<Percent, 55, 29>>}

LEMMA FillIs ==
  ASSUME NEW fill, IsFill(fill)
  PROVE  /\ fill \in Seq(Signs) /\ Len(fill) \in {1, 3} /\ Len(fill) \in Nat /\ DOMAIN fill = 1..Len(fill)
         /\ 1 \in 1..Len(fill) /\ fill[1] \notin Alphabet
<1>1. Equals \in Signs /\ Percent \in Signs /\ 55 \in Signs /\ 29 \in Signs BY DEF Signs, Alphabet
<1>2. Equals \notin Alphabet /\ Percent \notin Alphabet BY DEF Equals, Percent, Alphabet
<1>3. CASE fill = <<Equals>> BY <1>1, <1>2, <1>3
<1>4. CASE fill = <<Percent, 55, 29>> BY <1>1, <1>2, <1>4
<1> QED BY <1>3, <1>4 DEF IsFill

LEMMA UrlFill == \A url \in BOOLEAN : IsFill(Fill(url))
BY DEF IsFill, Fill

LEMMA RepeatedIs ==
  ASSUME NEW fill, IsFill(fill), NEW c \in 0..2
  PROVE  /\ Repeated(fill, c) \in Seq(Signs) /\ Len(Repeated(fill, c)) = c * Len(fill) /\ c * Len(fill) \in Nat
         /\ \A b \in 0..(c - 1) : \A j \in 1..Len(fill) : Repeated(fill, c)[b * Len(fill) + j] = fill[j]
<1>1. /\ fill \in Seq(Signs) /\ Len(fill) \in {1, 3} /\ Len(fill) \in Nat /\ DOMAIN fill = 1..Len(fill)
  BY FillIs
<1>2. PICK L \in {1, 3} : L = Len(fill) BY <1>1
<1>3. PICK n \in Nat : n = c * L BY <1>2
<1>4. \A i \in 1..n : ((i - 1) % L) + 1 \in 1..L
  <2>1. CASE L = 1 BY <2>1
  <2>2. CASE L = 3 BY <2>2
  <2> QED BY <2>1, <2>2
<1>5. Repeated(fill, c) = [i \in 1..n |-> fill[((i - 1) % L) + 1]] BY <1>2, <1>3 DEF Repeated
<1>6. \A i \in 1..n : fill[((i - 1) % L) + 1] \in Signs BY <1>1, <1>2, <1>4
<1>7. Repeated(fill, c) \in Seq(Signs) /\ Len(Repeated(fill, c)) = n BY <1>5, <1>6
<1>8. ASSUME NEW b \in 0..(c - 1), NEW j \in 1..L
      PROVE  b * L + j \in 1..n /\ ((b * L + j - 1) % L) + 1 = j
  <2>1. CASE L = 1 BY <1>3, <2>1
  <2>2. CASE L = 3
    <3>1. b = 0 \/ b = 1 OBVIOUS
    <3>2. j = 1 \/ j = 2 \/ j = 3 BY <2>2
    <3> QED BY <1>3, <2>2, <3>1, <3>2
  <2> QED BY <2>1, <2>2
<1>9. ASSUME NEW b \in 0..(c - 1), NEW j \in 1..L PROVE Repeated(fill, c)[b * L + j] = fill[j]
  <2>1. PICK i \in 1..n : i = b * L + j BY <1>8
  <2>2. ((i - 1) % L) + 1 = j BY <1>8, <2>1
  <2> QED BY <1>5, <2>1, <2>2
<1> QED BY <1>2, <1>3, <1>7, <1>9

LEMMA Blocks ==
  ASSUME NEW L \in {1, 3}, NEW c \in 0..2, NEW i \in 1..(c * L)
  PROVE  \E b \in 0..(c - 1) : \E j \in 1..L : i = b * L + j
<1>1. CASE L = 1
  <2>1. PICK b \in 0..(c - 1) : b = i - 1 BY <1>1
  <2>2. 1 \in 1..L /\ i = b * L + 1 BY <1>1, <2>1
  <2> QED BY <2>2
<1>2. CASE L = 3
  <2>1. CASE i <= 3
    <3>1. 0 \in 0..(c - 1) /\ i \in 1..L /\ i = 0 * L + i BY <1>2, <2>1
    <3> QED BY <3>1
  <2>2. CASE i > 3
    <3>1. 1 \in 0..(c - 1) /\ i - 3 \in 1..L /\ i = 1 * L + (i - 3) BY <1>2, <2>2
    <3> QED BY <3>1
  <2> QED BY <2>1, <2>2
<1> QED BY <1>1, <1>2

Shows(base, i, fill) == \A j \in 1..Len(fill) : base[i + j - 1] = fill[j]

LEMMA FoundAt ==
  ASSUME NEW base \in Seq(Signs), NEW fill, IsFill(fill), NEW i \in Nat, i >= 1, NEW l \in Nat,
         l = i + Len(fill) - 1, l <= Len(base)
  PROVE  SubSeq(base, i, l) = fill <=> Shows(base, i, fill)
<1>1. /\ fill \in Seq(Signs) /\ Len(fill) \in {1, 3} /\ Len(fill) \in Nat /\ DOMAIN fill = 1..Len(fill)
  BY FillIs
<1>2. \A k \in i..l : base[k] \in Signs
  <2>1. \A k \in i..l : k \in 1..Len(base) OBVIOUS
  <2> QED BY <2>1
<1>3. /\ SubSeq(base, i, l) \in Seq(Signs) /\ Len(SubSeq(base, i, l)) = IF i <= l THEN l - i + 1 ELSE 0
      /\ \A j \in 1..(l - i + 1) : SubSeq(base, i, l)[j] = base[i + j - 1]
  BY <1>2, SubSeqProperties
<1>4. i <= l /\ l - i + 1 = Len(fill) BY <1>1
<1> DEFINE found == SubSeq(base, i, l)
<1>5. found \in Seq(Signs) /\ Len(found) = Len(fill) /\ \A j \in 1..Len(fill) : found[j] = base[i + j - 1]
  BY <1>3, <1>4
<1> HIDE DEF found
<1>6. found = fill => \A j \in 1..Len(fill) : base[i + j - 1] = fill[j] BY <1>5
<1>7. (\A j \in 1..Len(fill) : base[i + j - 1] = fill[j]) => found = fill
  <2> SUFFICES ASSUME \A j \in 1..Len(fill) : base[i + j - 1] = fill[j] PROVE found = fill OBVIOUS
  <2>1. \A j \in 1..Len(found) : found[j] = fill[j] BY <1>5
  <2> QED BY <1>1, <1>5, <2>1, SeqEqual
<1> QED BY <1>6, <1>7 DEF found, Shows

LEMMA FillsIs ==
  ASSUME NEW base, NEW fill, NEW c \in 0..Len(base), ~EndsWith(base, fill, c),
         \A k \in 0..(c - 1) : EndsWith(base, fill, k), Len(base) \in Nat
  PROVE  Fills(base, fill) = c
<1>1. \A n \in 0..Len(base) :
        ~EndsWith(base, fill, n) /\ (\A k \in 0..(n - 1) : EndsWith(base, fill, k)) => n = c
  <2> TAKE n \in 0..Len(base)
  <2>1. CASE n < c
    <3>1. n \in 0..(c - 1) BY <2>1
    <3> QED BY <3>1
  <2>2. CASE c < n
    <3>1. c \in 0..(n - 1) BY <2>2
    <3> QED BY <3>1
  <2>3. CASE n = c BY <2>3
  <2> QED BY <2>1, <2>2, <2>3
<1> QED BY <1>1 DEF Fills

LEMMA FillsExist ==
  ASSUME NEW base \in Seq(Signs), NEW fill, IsFill(fill)
  PROVE  /\ Fills(base, fill) \in 0..Len(base) /\ ~EndsWith(base, fill, Fills(base, fill))
         /\ \A k \in 0..(Fills(base, fill) - 1) : EndsWith(base, fill, k)
<1>1. Len(fill) \in {1, 3} BY FillIs
<1>2. Len(base) \in Nat OBVIOUS
<1> DEFINE I == {n \in Nat : ~EndsWith(base, fill, n)}
<1>3. Len(base) \in I
  <2>1. ~(Len(base) - Len(base) * Len(fill) > Len(fill))
    <3>1. CASE Len(fill) = 1 BY <1>2, <3>1
    <3>2. CASE Len(fill) = 3 BY <1>2, <3>2
    <3> QED BY <1>1, <3>1, <3>2
  <2> QED BY <1>2, <2>1 DEF EndsWith
<1>4. PICK c \in I : \A n \in I : c <= n BY <1>3, LeastIndex
<1>5. c \in 0..Len(base) /\ ~EndsWith(base, fill, c) BY <1>2, <1>3, <1>4
<1>6. \A k \in 0..(c - 1) : EndsWith(base, fill, k)
  <2> TAKE k \in 0..(c - 1)
  <2>1. k \in Nat /\ ~(c <= k) BY <1>4
  <2> QED BY <1>4, <2>1
<1>7. Fills(base, fill) = c BY <1>2, <1>5, <1>6, FillsIs
<1> QED BY <1>5, <1>6, <1>7

\* A text of letters with its fill: the fills are found, and nothing else is.
Filled(s, fill, f) == s \o Repeated(fill, f)
Behind(base, s, fill, f) ==
  \A b \in 0..(f - 1) : \A j \in 1..Len(fill) : base[Len(s) + b * Len(fill) + j] = fill[j]
Before(base, s) == \A i \in 1..Len(s) : base[i] = s[i]

LEMMA FilledIs ==
  ASSUME NEW s \in Seq(Alphabet), NEW fill, IsFill(fill), NEW f \in 0..2,
         NEW base, base = Filled(s, fill, f)
  PROVE  /\ base \in Seq(Signs) /\ Len(base) = Len(s) + f * Len(fill) /\ f * Len(fill) \in Nat
         /\ Before(base, s) /\ Behind(base, s, fill, f)
         /\ SubSeq(base, 1, Len(s)) = s
<1>1. Len(fill) \in {1, 3} /\ Len(fill) \in Nat BY FillIs
<1>2. Len(s) \in Nat /\ s \in Seq(Signs) /\ \A i \in 1..Len(s) : s[i] \in Signs BY DEF Signs
<1>3. PICK t : t = Repeated(fill, f) OBVIOUS
<1>4. /\ t \in Seq(Signs) /\ Len(t) = f * Len(fill) /\ f * Len(fill) \in Nat
      /\ \A b \in 0..(f - 1) : \A j \in 1..Len(fill) : t[b * Len(fill) + j] = fill[j]
  BY <1>3, RepeatedIs
<1>5. base = s \o t BY <1>3 DEF Filled
<1>6. s \in Seq(Signs) /\ t \in Seq(Signs) BY <1>2, <1>4
<1>7. /\ base \in Seq(Signs) /\ Len(base) = Len(s) + Len(t)
      /\ \A i \in 1..(Len(s) + Len(t)) : base[i] = IF i <= Len(s) THEN s[i] ELSE t[i - Len(s)]
  BY ONLY <1>5, <1>6, ConcatProperties
<1>8. \A i \in 1..Len(s) : base[i] = s[i] BY <1>2, <1>4, <1>7
<1>9. ASSUME NEW b \in 0..(f - 1), NEW j \in 1..Len(fill)
      PROVE  base[Len(s) + b * Len(fill) + j] = fill[j]
  <2>1. PICK i \in 1..(f * Len(fill)) : i = b * Len(fill) + j
    <3>1. CASE Len(fill) = 1 BY <3>1
    <3>2. CASE Len(fill) = 3 BY <3>2
    <3> QED BY <1>1, <3>1, <3>2
  <2>2. PICK n \in 1..(Len(s) + Len(t)) : n = Len(s) + i BY <1>2, <1>4, <2>1
  <2>3. base[n] = t[i] BY <1>2, <1>7, <2>1, <2>2
  <2>4. t[i] = fill[j] BY <1>4, <2>1
  <2>5. Len(s) + b * Len(fill) + j = n BY <1>1, <1>2, <2>1, <2>2
  <2> QED BY <2>3, <2>4, <2>5
<1>10. SubSeq(base, 1, Len(s)) = s
  <2>1. \A i \in 1..Len(s) : base[i] \in Signs BY <1>2, <1>8
  <2>2. /\ SubSeq(base, 1, Len(s)) \in Seq(Signs) /\ Len(SubSeq(base, 1, Len(s))) = Len(s)
        /\ \A i \in 1..Len(s) : SubSeq(base, 1, Len(s))[i] = base[i]
    BY <1>2, <2>1, SubSeqProperties
  <2> QED BY <1>2, <1>8, <2>2, SeqEqual
<1>11. Before(base, s) BY <1>8 DEF Before
<1>12. Behind(base, s, fill, f) BY <1>9 DEF Behind
<1> QED BY <1>4, <1>7, <1>10, <1>11, <1>12

LEMMA FilledEnds ==
  ASSUME NEW s \in Seq(Alphabet), NEW fill, IsFill(fill), NEW f \in 0..2, f > 0 => Len(s) > 0,
         NEW base, base = Filled(s, fill, f)
  PROVE  Fills(base, fill) = f
<1>1. PICK L \in {1, 3} : L = Len(fill) BY FillIs
<1>2. 1 \in 1..L /\ fill[1] \notin Alphabet BY <1>1, FillIs
<1>3. /\ base \in Seq(Signs) /\ Len(base) = Len(s) + f * L /\ f * L \in Nat
      /\ Before(base, s) /\ Behind(base, s, fill, f)
  BY <1>1, FilledIs
<1>4. Len(s) \in Nat /\ \A i \in 1..Len(s) : s[i] \in Alphabet OBVIOUS
<1>5. ASSUME NEW k \in 0..(f - 1) PROVE EndsWith(base, fill, k)
  <2>1. PICK b \in 0..(f - 1) : b = f - 1 - k OBVIOUS
  <2>2. PICK i \in Nat : i = Len(s) + b * L + 1
    <3>1. CASE L = 1 BY <1>4, <3>1
    <3>2. CASE L = 3 BY <1>4, <3>2
    <3> QED BY <3>1, <3>2
  <2>3. PICK l \in Nat : l = Len(base) - k * L /\ i >= 1 /\ l > L /\ l - L + 1 = i /\ l = i + L - 1 /\ l <= Len(base)
    <3>1. CASE L = 1 BY <1>3, <1>4, <2>1, <2>2, <3>1
    <3>2. CASE L = 3 BY <1>3, <1>4, <2>1, <2>2, <3>2
    <3> QED BY <3>1, <3>2
  <2>4. Shows(base, i, fill)
    <3>1. ASSUME NEW j \in 1..Len(fill) PROVE base[i + j - 1] = fill[j]
      <4>1. i + j - 1 = Len(s) + b * Len(fill) + j BY <1>1, <1>4, <2>2
      <4> QED BY <1>3, <4>1 DEF Behind
    <3> QED BY <3>1 DEF Shows
  <2>5. l = i + Len(fill) - 1 BY <1>1, <2>3
  <2>6. base \in Seq(Signs) BY <1>3
  <2>7. i >= 1 /\ l <= Len(base) BY <2>3
  <2>8. SubSeq(base, i, l) = fill
    BY ONLY <2>4, <2>5, <2>6, <2>7, IsFill(fill), i \in Nat, l \in Nat, FoundAt
  <2> QED BY <1>1, <2>3, <2>8 DEF EndsWith
<1>6. ~EndsWith(base, fill, f)
  <2>1. Len(base) - f * Len(fill) = Len(s) BY <1>1, <1>3, <1>4
  <2>2. CASE ~(Len(s) > L) BY <1>1, <2>1, <2>2 DEF EndsWith
  <2>3. CASE Len(s) > L
    <3>1. PICK i \in Nat : i = Len(s) - L + 1 BY <1>4, <2>3
    <3>2. i >= 1 /\ i <= Len(s) BY <1>4, <2>3, <3>1
    <3>3. base[i] = s[i] /\ s[i] \in Alphabet BY <1>3, <1>4, <3>2 DEF Before
    <3>4. i + 1 - 1 = i OBVIOUS
    <3>5. Len(s) = i + Len(fill) - 1 /\ Len(s) <= Len(base) BY <1>1, <1>3, <1>4, <3>1
    <3>6. ~Shows(base, i, fill) BY <1>1, <1>2, <3>3, <3>4 DEF Shows
    <3>7. SubSeq(base, i, Len(s)) # fill BY <1>3, <1>4, <3>2, <3>5, <3>6, FoundAt
    <3> QED BY <1>1, <2>1, <3>1, <3>7 DEF EndsWith
  <2> QED BY <2>2, <2>3
<1>7. f \in 0..Len(base) /\ Len(base) \in Nat
  <2>1. CASE L = 1 BY <1>3, <1>4, <2>1
  <2>2. CASE L = 3 BY <1>3, <1>4, <2>2
  <2> QED BY <2>1, <2>2
<1> QED BY <1>5, <1>6, <1>7, FillsIs

LEMMA FilledTrims ==
  ASSUME NEW s \in Seq(Alphabet), NEW url \in BOOLEAN, NEW f \in 0..2, f > 0 => Len(s) > 0,
         NEW base, base = Filled(s, Fill(url), f)
  PROVE  trim(base, url) = s
<1>1. PICK fill : fill = Fill(url) /\ IsFill(fill) BY UrlFill
<1>2. PICK L \in {1, 3} : L = Len(fill) BY <1>1, FillIs
<1>3. 1 \in 1..Len(fill) /\ fill[1] \notin Alphabet BY <1>1, FillIs
<1>4. base = Filled(s, fill, f) BY <1>1
<1>5. /\ base \in Seq(Signs) /\ Len(base) = Len(s) + f * Len(fill) /\ f * Len(fill) \in Nat
      /\ Before(base, s) /\ Behind(base, s, fill, f) /\ SubSeq(base, 1, Len(s)) = s
  BY <1>1, <1>4, FilledIs
<1>6. Len(s) \in Nat /\ Len(base) \in Nat /\ \A i \in 1..Len(s) : s[i] \in Alphabet BY <1>5
<1>7. PICK at : at = {i \in 1..(Len(base) - Len(fill) + 1) : SubSeq(base, i, i + Len(fill) - 1) = fill} OBVIOUS
<1>8. trim(base, url) = IF at = {} THEN base ELSE SubSeq(base, 1, (CHOOSE i \in at : \A j \in at : i <= j) - 1)
  BY <1>1, <1>7 DEF trim
<1>9. ASSUME NEW i \in Nat, NEW l \in Nat, i >= 1, l = i + Len(fill) - 1, l <= Len(base), SubSeq(base, i, l) = fill
      PROVE  i > Len(s)
  <2> SUFFICES ASSUME i <= Len(s) PROVE FALSE BY <1>6
  <2>1. base[i] = s[i] /\ s[i] \in Alphabet BY <1>5, <1>6, <1>9 DEF Before
  <2>2. i + 1 - 1 = i OBVIOUS
  <2>3. Shows(base, i, fill) BY <1>1, <1>5, <1>9, FoundAt
  <2> QED BY <1>3, <2>1, <2>2, <2>3 DEF Shows
<1>10. \A i \in at : i \in Nat /\ i >= 1 /\ i + Len(fill) - 1 \in Nat /\ i + Len(fill) - 1 <= Len(base)
  BY <1>2, <1>6, <1>7
<1>11. \A i \in at : i > Len(s)
  <2> TAKE i \in at
  <2>1. SubSeq(base, i, i + Len(fill) - 1) = fill BY <1>7
  <2> QED BY <1>9, <1>10, <2>1
<1>12. CASE f = 0
  <2>0. 0 * Len(fill) = 0 BY <1>2
  <2>1. Len(base) = Len(s)
    <3>1. Len(base) = Len(s) + 0 * Len(fill) BY <1>5, <1>12
    <3> QED BY <1>6, <2>0, <3>1
  <2>2. base = s
    <3>1. s \in Seq(Signs) BY DEF Signs
    <3> QED BY <1>5, <2>1, <3>1, SeqEqual DEF Before
  <2>3. at = {}
    <3> SUFFICES ASSUME NEW i \in at PROVE FALSE OBVIOUS
    <3>1. i \in Nat /\ i + L - 1 <= Len(s) /\ i > Len(s) BY <1>2, <1>10, <1>11, <2>1
    <3> QED BY <1>6, <3>1
  <2> QED BY <1>8, <2>2, <2>3
<1>13. CASE f > 0
  <2>1. PICK m \in Nat : m = Len(s) + 1 BY <1>6
  <2>2. PICK l \in Nat : l = m + Len(fill) - 1 /\ l <= Len(base)
    <3>1. CASE L = 1 BY <1>2, <1>5, <1>6, <1>13, <2>1, <3>1
    <3>2. CASE L = 3 BY <1>2, <1>5, <1>6, <1>13, <2>1, <3>2
    <3> QED BY <3>1, <3>2
  <2>3. m >= 1 BY <1>6, <2>1
  <2>4. Shows(base, m, fill)
    <3>1. ASSUME NEW j \in 1..Len(fill) PROVE base[m + j - 1] = fill[j]
      <4>1. m + j - 1 = Len(s) + 0 * Len(fill) + j BY <1>2, <1>6, <2>1
      <4>2. 0 \in 0..(f - 1) BY <1>13
      <4> QED BY <1>5, <4>1, <4>2 DEF Behind
    <3> QED BY <3>1 DEF Shows
  <2>5. SubSeq(base, m, l) = fill
    <3>1. IsFill(fill) /\ base \in Seq(Signs) BY <1>1, <1>5
    <3>2. l = m + Len(fill) - 1 /\ l <= Len(base) BY <2>2
    <3> QED BY ONLY <2>3, <2>4, <3>1, <3>2, m \in Nat, l \in Nat, FoundAt
  <2>6. m \in at
    <3>1. m \in 1..(Len(base) - Len(fill) + 1) BY <1>2, <1>6, <2>2, <2>3
    <3> QED BY <1>7, <2>2, <2>5, <3>1
  <2>7. \A j \in at : m <= j BY <1>6, <1>10, <1>11, <2>1
  <2>8. \A i \in at : (\A j \in at : i <= j) => i = m
    <3> TAKE i \in at
    <3>1. i \in Nat /\ m <= i BY <1>10, <2>7
    <3>2. (\A j \in at : i <= j) => i <= m BY <2>6
    <3> QED BY <3>1, <3>2
  <2>9. (CHOOSE i \in at : \A j \in at : i <= j) = m BY <2>6, <2>7, <2>8
  <2>10. m - 1 = Len(s) BY <1>6, <2>1
  <2> QED BY <1>5, <1>8, <2>6, <2>9, <2>10
<1> QED BY <1>12, <1>13

\* The fills of an encoding, and the octets of a group that has them: either way what is missing of three
Lacking(n) == (3 - n) % 3

LEMMA LackingIs == /\ Lacking(0) = 0 /\ Lacking(1) = 2 /\ Lacking(2) = 1
BY DEF Lacking

LEMMA EncodedIs ==
  ASSUME NEW bin \in Seq(Octets), NEW g \in Nat, NEW r \in 0..2, Len(bin) = 3 * g + r, NEW url
  PROVE  encode(bin, url) = Filled(Sextets(bin), Fill(url), Lacking(r))
<1>1. Len(bin) % 3 = r BY SextetsAre
<1> QED BY <1>1 DEF encode, Filled, Lacking

\* A text is parted into its letters, size of them, and c fills.
Parted(base, url, c, size, body) ==
  c = Fills(base, Fill(url)) /\ size = Len(base) - c * Len(Fill(url)) /\ body = SubSeq(base, 1, size)

LEMMA DecodeIs ==
  ASSUME NEW base, NEW url, NEW c, NEW size, NEW body, Parted(base, url, c, size, body)
  PROVE  decode(base, url) =
           IF c > 2 \/ (size + c) % 4 # 0 \/ ToSet(body) \cap {Equals, Percent} # {} THEN Invalid
           ELSE [i \in 1..(3 * (size \div 4) + Lacking(c)) |-> OctetOf(body, i)]
BY DEF decode, Lacking, Parted

LEMMA EncodedReturns ==
  ASSUME NEW bin \in Seq(Octets), NEW url \in BOOLEAN
  PROVE  /\ decode(encode(bin, url), url) = bin
         /\ decode(pad(trim(encode(bin, url), url), url), url) = bin
<1>1. PICK g \in Nat, r \in 0..2 : Len(bin) = 3 * g + r
  <2>1. PICK n \in Nat : n = Len(bin) OBVIOUS
  <2>2. n \div 3 \in Nat /\ n % 3 \in 0..2 /\ n = 3 * (n \div 3) + (n % 3) OBVIOUS
  <2> QED BY <2>1, <2>2
<1>2. PICK fill : fill = Fill(url) /\ IsFill(fill) BY UrlFill
<1>3. PICK s \in Seq(Alphabet) : s = Sextets(bin) /\ Len(s) = 4 * g + Over(r) BY <1>1, SextetsAre
<1>4. PICK f \in 0..2, o \in 0..3 : f = Lacking(r) /\ o = Over(r) /\ r = Lacking(f) /\ (o = 0 <=> f = 0) /\ o + f \in {0, 4}
  <2>1. CASE r = 0 BY <2>1, LackingIs DEF Over
  <2>2. CASE r = 1 BY <2>2, LackingIs DEF Over
  <2>3. CASE r = 2 BY <2>3, LackingIs DEF Over
  <2> QED BY <2>1, <2>2, <2>3
<1>5. PICK base : base = encode(bin, url) OBVIOUS
<1>6. base = Filled(s, fill, f) BY <1>1, <1>2, <1>3, <1>4, <1>5, EncodedIs
<1>7. PICK x \in Nat : x = Len(s) /\ x = g * 4 + o /\ (f > 0 => x > 0) BY <1>3, <1>4
<1>8. Fills(base, fill) = f
  <2>1. f > 0 => Len(s) > 0 BY <1>7
  <2> QED BY <1>2, <1>6, <2>1, FilledEnds
<1>9. /\ base \in Seq(Signs) /\ Len(base) = Len(s) + f * Len(fill) /\ f * Len(fill) \in Nat
      /\ SubSeq(base, 1, Len(s)) = s
  BY <1>2, <1>6, FilledIs
<1>10. x = Len(base) - f * Len(fill) BY <1>7, <1>9
<1>11. (x + f) % 4 = 0 /\ x \div 4 = g /\ x % 4 = o
  <2>1. x \div 4 = g /\ x % 4 = o BY <1>7, Quotient, Remainder
  <2>3. PICK y \in Nat : y = x + f OBVIOUS
  <2>4. CASE o + f = 0
    <3>1. y = g * 4 + 0 BY <1>7, <2>3, <2>4
    <3> QED BY <2>1, <2>3, <3>1, Remainder
  <2>5. CASE o + f = 4
    <3>1. y = (g + 1) * 4 + 0 BY <1>7, <2>3, <2>5
    <3>2. PICK h \in Nat : h = g + 1 OBVIOUS
    <3>3. y = h * 4 + 0 BY <3>1, <3>2
    <3> QED BY <2>1, <2>3, <3>3, Remainder
  <2> QED BY <1>4, <2>4, <2>5
<1>12. ToSet(s) \cap {Equals, Percent} = {}
  <2>1. \A v \in ToSet(s) : v \in Alphabet BY <1>3 DEF ToSet
  <2>2. Equals \notin Alphabet /\ Percent \notin Alphabet BY DEF Equals, Percent, Alphabet
  <2> QED BY <2>1, <2>2
<1>13. decode(base, url) = [i \in 1..(3 * g + r) |-> OctetOf(s, i)]
  <2>1. Parted(base, url, f, x, s) BY <1>2, <1>7, <1>8, <1>9, <1>10 DEF Parted
  <2>2. decode(base, url) =
          IF f > 2 \/ (x + f) % 4 # 0 \/ ToSet(s) \cap {Equals, Percent} # {} THEN Invalid
          ELSE [i \in 1..(3 * (x \div 4) + Lacking(f)) |-> OctetOf(s, i)]
    BY <2>1, DecodeIs
  <2>3. ~(f > 2) OBVIOUS
  <2>4. decode(base, url) = [i \in 1..(3 * (x \div 4) + Lacking(f)) |-> OctetOf(s, i)]
    BY <1>11, <1>12, <2>2, <2>3
  <2>5. Lacking(f) = r BY <1>4
  <2> QED BY <1>11, <2>4, <2>5
<1>14. [i \in 1..(3 * g + r) |-> OctetOf(s, i)] = bin
  <2>1. PICK out : out = [i \in 1..Len(bin) |-> OctetOf(s, i)] OBVIOUS
  <2>2. \A i \in 1..Len(bin) : OctetOf(s, i) = bin[i] BY <1>3, OctetsReturn
  <2>3. out = [i \in 1..Len(bin) |-> bin[i]] BY <2>1, <2>2
  <2>4. bin = [i \in 1..Len(bin) |-> bin[i]] OBVIOUS
  <2> QED BY <1>1, <2>1, <2>3, <2>4
<1>15. pad(trim(base, url), url) = base
  <2>1. trim(base, url) = s BY <1>2, <1>6, <1>7, FilledTrims
  <2>2. (4 - o) % 4 = f
    <3>1. CASE o + f = 0 BY <1>4, <3>1
    <3>2. CASE o + f = 4
      <4>1. 4 - o = f BY <1>4, <3>2
      <4> QED BY <4>1
    <3> QED BY <1>4, <3>1, <3>2
  <2> QED BY <1>2, <1>6, <1>7, <1>11, <2>1, <2>2 DEF pad, Filled
<1> QED BY <1>5, <1>13, <1>14, <1>15

\* A text that is accepted is letters and, behind them, its fills.
LEMMA AcceptedIs ==
  ASSUME NEW base \in Seq(Signs), NEW url \in BOOLEAN, decode(base, url) # Invalid,
         NEW fill, fill = Fill(url), NEW c, NEW size, NEW body, Parted(base, url, c, size, body)
  PROVE  /\ c \in 0..2 /\ size \in Nat /\ (size + c) % 4 = 0
         /\ body \in Seq(Alphabet) /\ Len(body) = size
         /\ Before(base, body) /\ Behind(base, body, fill, c)
         /\ decode(base, url) = [i \in 1..(3 * (size \div 4) + Lacking(c)) |-> OctetOf(body, i)]
<1>1. IsFill(fill) BY UrlFill
<1>2. PICK L \in {1, 3} : L = Len(fill) BY <1>1, FillIs
<1>3. c \in 0..Len(base) /\ \A k \in 0..(c - 1) : EndsWith(base, fill, k) BY <1>1, FillsExist DEF Parted
<1>4. decode(base, url) =
        IF c > 2 \/ (size + c) % 4 # 0 \/ ToSet(body) \cap {Equals, Percent} # {} THEN Invalid
        ELSE [i \in 1..(3 * (size \div 4) + Lacking(c)) |-> OctetOf(body, i)]
  BY DecodeIs
<1>5. /\ ~(c > 2) /\ (size + c) % 4 = 0 /\ ToSet(body) \cap {Equals, Percent} = {}
      /\ decode(base, url) = [i \in 1..(3 * (size \div 4) + Lacking(c)) |-> OctetOf(body, i)]
  BY <1>4
<1>6. Len(base) \in Nat OBVIOUS
<1>7. c \in 0..2
  <2>1. c \in Nat BY <1>3, <1>6
  <2> QED BY <1>5, <2>1
<1>8. PICK m \in Nat : m = c * L BY <1>7
<1>9. size = Len(base) - m BY <1>2, <1>8 DEF Parted
<1>10. m <= Len(base)
  <2>1. CASE c = 0 BY <1>6, <1>8, <2>1
  <2>2. CASE c > 0
    <3>1. PICK k \in 0..(c - 1) : k = c - 1 BY <1>7, <2>2
    <3>2. Len(base) - k * L > L BY <1>2, <1>3 DEF EndsWith
    <3>3. CASE L = 1 BY <1>6, <1>7, <1>8, <3>1, <3>2, <3>3
    <3>4. CASE L = 3 BY <1>6, <1>7, <1>8, <3>1, <3>2, <3>4
    <3> QED BY <3>3, <3>4
  <2> QED BY <1>7, <2>1, <2>2
<1>11. size \in Nat /\ size <= Len(base) BY <1>6, <1>9, <1>10
<1>12. /\ body \in Seq(Signs) /\ Len(body) = size
       /\ \A i \in 1..size : body[i] = base[i]
  <2>1. \A i \in 1..size : base[i] \in Signs
    <3>1. \A i \in 1..size : i \in 1..Len(base) BY <1>6, <1>11
    <3> QED BY <3>1
  <2>2. body = SubSeq(base, 1, size) BY DEF Parted
  <2> QED BY <1>11, <2>1, <2>2, SubSeqProperties
<1>13. body \in Seq(Alphabet)
  <2>1. \A i \in 1..size : body[i] \in Signs /\ body[i] \in ToSet(body) BY <1>12 DEF ToSet
  <2>2. \A v \in ToSet(body) : v \in Signs => v \in Alphabet BY <1>5 DEF Signs
  <2>3. \A i \in 1..size : body[i] \in Alphabet BY <2>1, <2>2
  <2>4. body \in [1..size -> Alphabet] BY <1>12, <2>3
  <2> QED BY <1>11, <2>4
<1>14. ASSUME NEW b \in 0..(c - 1), NEW j \in 1..Len(fill)
       PROVE  base[size + b * Len(fill) + j] = fill[j]
  <2>1. PICK k \in 0..(c - 1) : k = c - 1 - b BY <1>7
  <2>2. PICK i \in Nat : i = size + b * L + 1
    <3>1. CASE L = 1 BY <1>11, <3>1
    <3>2. CASE L = 3 BY <1>11, <3>2
    <3> QED BY <3>1, <3>2
  <2>3. PICK l \in Nat : l = i + L - 1 BY <2>2
  <2>4. l = Len(base) - k * L /\ i >= 1 /\ l - L + 1 = i /\ l <= Len(base)
    <3>1. CASE L = 1 BY <1>6, <1>7, <1>8, <1>9, <1>11, <2>1, <2>2, <2>3, <3>1
    <3>2. CASE L = 3 BY <1>6, <1>7, <1>8, <1>9, <1>11, <2>1, <2>2, <2>3, <3>2
    <3> QED BY <3>1, <3>2
  <2>5. SubSeq(base, i, l) = fill BY <1>2, <1>3, <2>4 DEF EndsWith
  <2>6. i >= 1 /\ l = i + Len(fill) - 1 /\ l <= Len(base) BY <1>2, <2>3, <2>4
  <2>7. Shows(base, i, fill)
    BY ONLY <1>1, <2>5, <2>6, base \in Seq(Signs), i \in Nat, l \in Nat, FoundAt
  <2>8. i + j - 1 = size + b * Len(fill) + j BY <1>2, <1>11, <2>2
  <2> QED BY <2>7, <2>8 DEF Shows
<1>15. Before(base, body) BY <1>12 DEF Before
<1>16. Behind(base, body, fill, c)
  <2>1. Len(body) = size BY <1>12
  <2> QED BY <1>14, <2>1 DEF Behind
<1> QED BY <1>5, <1>7, <1>11, <1>12, <1>13, <1>15, <1>16

LEMMA DecodedReturns ==
  ASSUME NEW base \in Seq(Signs), NEW url \in BOOLEAN, decode(base, url) # Invalid,
         NEW again, again = encode(decode(base, url), url),
         NEW c, NEW last, NEW body, Parted(base, url, c, last, body)
  PROVE  Len(again) = Len(base) /\ \A i \in DOMAIN base : i # last \/ c = 0 => base[i] = again[i]
<1>1. PICK fill : fill = Fill(url) /\ IsFill(fill) BY UrlFill
<1>2. PICK L \in {1, 3} : L = Len(fill) BY <1>1, FillIs
<1>4. /\ c \in 0..2 /\ last \in Nat /\ (last + c) % 4 = 0
      /\ body \in Seq(Alphabet) /\ Len(body) = last
      /\ Before(base, body) /\ Behind(base, body, fill, c)
      /\ decode(base, url) = [i \in 1..(3 * (last \div 4) + Lacking(c)) |-> OctetOf(body, i)]
  BY <1>1, AcceptedIs
<1>5. PICK p \in Nat, e \in {0, 2, 3}, r \in 0..2 :
        /\ last = 4 * p + e /\ last \div 4 = p
        /\ r = Short(e) /\ Lacking(c) = r /\ Lacking(r) = c /\ (c = 0 => e = 0)
  <2>1. PICK x \in Nat : x = last BY <1>4
  <2>2. x = 4 * (x \div 4) + (x % 4) /\ x \div 4 \in Nat OBVIOUS
  <2>3. PICK e \in 0..3 : e = x % 4 OBVIOUS
  <2>4. (x + c) % 4 = 0 BY <1>4, <2>1
  <2>5. CASE c = 0
    <3>1. e = 0 /\ e \in {0, 2, 3} BY <2>3, <2>4, <2>5
    <3> QED BY <2>1, <2>2, <2>3, <2>5, <3>1, LackingIs DEF Short
  <2>6. CASE c = 1
    <3>1. (x + 1) % 4 = 0 BY <2>4, <2>6
    <3>2. e = 3 /\ e \in {0, 2, 3} BY <2>3, <3>1
    <3> QED BY <2>1, <2>2, <2>3, <2>6, <3>2, LackingIs DEF Short
  <2>7. CASE c = 2
    <3>1. (x + 2) % 4 = 0 BY <2>4, <2>7
    <3>2. e = 2 /\ e \in {0, 2, 3} BY <2>3, <3>1
    <3> QED BY <2>1, <2>2, <2>3, <2>7, <3>2, LackingIs DEF Short
  <2> QED BY <1>4, <2>5, <2>6, <2>7
<1>6. PICK bytes : bytes = decode(base, url) OBVIOUS
<1>7. bytes = OctetsOfQuads(body, p, e) BY <1>4, <1>5, <1>6 DEF OctetsOfQuads
<1>8. Quads(body, p, e) BY <1>4, <1>5 DEF Quads
<1>9. /\ bytes \in Seq(Octets) /\ Len(bytes) = 3 * p + Short(e)
      /\ Len(Sextets(bytes)) = Len(body)
      /\ ButTheLast(Sextets(bytes), body, e)
  <2>1. body \in Seq(Alphabet) BY <1>4
  <2> QED BY ONLY <1>7, <1>8, <2>1, p \in Nat, e \in {0, 2, 3}, LettersAgain
<1>10. Len(bytes) = 3 * p + r BY <1>5, <1>9
<1>11. PICK s \in Seq(Alphabet) : s = Sextets(bytes) BY <1>9, <1>10, SextetsAre
<1>12. again = Filled(s, fill, c)
  <2>1. encode(bytes, url) = Filled(Sextets(bytes), Fill(url), Lacking(r)) BY <1>9, <1>10, EncodedIs
  <2> QED BY <1>1, <1>5, <1>6, <1>11, <2>1
<1>13. /\ again \in Seq(Signs) /\ Len(again) = Len(s) + c * Len(fill)
       /\ Before(again, s) /\ Behind(again, s, fill, c)
  BY <1>1, <1>4, <1>12, FilledIs
<1>14. PICK m \in Nat : m = c * L /\ m = c * Len(fill)
  <2>1. CASE L = 1 BY <1>2, <1>4, <2>1
  <2>2. CASE L = 3 BY <1>2, <1>4, <2>2
  <2> QED BY <2>1, <2>2
<1>15. Len(s) = last BY <1>4, <1>9, <1>11
<1>16. Len(base) \in Nat /\ Len(base) = last + m
  <2>1. Len(base) \in Nat OBVIOUS
  <2>2. last = Len(base) - m BY <1>1, <1>14 DEF Parted
  <2> QED BY <1>4, <2>1, <2>2
<1>17. Len(again) = Len(base) BY <1>13, <1>14, <1>15, <1>16
<1>18. ASSUME NEW i \in DOMAIN base, i # last \/ c = 0 PROVE base[i] = again[i]
  <2>1. i \in 1..Len(base) OBVIOUS
  <2>2. CASE i <= last
    <3>1. i \in 1..last BY <1>4, <2>1, <2>2
    <3>2. i # last \/ e = 0 BY <1>5, <1>18
    <3>3. base[i] = body[i] BY <1>4, <3>1 DEF Before
    <3>4. body[i] = s[i] BY <1>4, <1>9, <1>11, <3>1, <3>2 DEF ButTheLast
    <3>5. again[i] = s[i] BY <1>13, <1>15, <3>1 DEF Before
    <3> QED BY <3>3, <3>4, <3>5
  <2>3. CASE i > last
    <3>1. PICK x \in 1..m : x = i - last BY <1>4, <1>16, <2>1, <2>3
    <3>2. PICK b \in 0..(c - 1), j \in 1..L : x = b * L + j
      <4>1. c \in 0..2 /\ x \in 1..(c * L) BY <1>4, <1>14
      <4>2. \E b \in 0..(c - 1) : \E j \in 1..L : x = b * L + j BY <4>1, Blocks
      <4> QED BY <4>2
    <3>3. PICK y \in Int : y = b * L
      <4>1. CASE L = 1 BY <1>4, <4>1
      <4>2. CASE L = 3 BY <1>4, <4>2
      <4> QED BY <4>1, <4>2
    <3>8. x = y + j BY <3>2, <3>3
    <3>4. i = last + y + j BY <1>4, <2>1, <3>1, <3>8
    <3>5. base[Len(body) + b * Len(fill) + j] = fill[j] BY <1>2, <1>4 DEF Behind
    <3>6. again[Len(s) + b * Len(fill) + j] = fill[j] BY <1>2, <1>13 DEF Behind
    <3>7. Len(body) = last BY <1>4
    <3> QED BY <1>2, <1>15, <3>3, <3>4, <3>5, <3>6, <3>7
  <2> QED BY <1>4, <2>1, <2>2, <2>3
<1> QED BY <1>17, <1>18

Base64Spec == Base64Init /\ [][Base64Next]_base64Vars
Base64Texts == plain \in Seq(Octets) /\ coded \in Seq(Signs)

\* Both alphabets encode without loss, with the fill and when it is trimmed and padded again, and what decode accepts
\* is the encoding of what it returns, but for the low bits of the last letter of an incomplete group
\* (base::encode, decode, pad and trim).  It holds for data and texts of any length.
THEOREM Base64LosesNothing == Base64Spec => []Base64RoundTrip
<1>1. Base64Init => Base64Texts BY DEF Base64Init, Base64Texts
<1>2. Base64Texts /\ [Base64Next]_base64Vars => Base64Texts'
  <2> SUFFICES ASSUME Base64Texts, [Base64Next]_base64Vars PROVE Base64Texts' OBVIOUS
  <2>1. CASE UNCHANGED base64Vars BY <2>1 DEF Base64Texts, base64Vars
  <2>2. CASE AddByte
    <3>1. PICK b \in Bytes : plain' = Append(plain, b) /\ coded' = coded BY <2>2 DEF AddByte
    <3>2. b \in Octets BY DataAssumption
    <3> QED BY <3>1, <3>2, AppendProperties DEF Base64Texts
  <2>3. CASE AddSymbol
    <3>1. PICK c \in Symbols : coded' = Append(coded, c) /\ plain' = plain BY <2>3 DEF AddSymbol
    <3>2. c \in Signs BY DataAssumption DEF Signs
    <3> QED BY <3>1, <3>2, AppendProperties DEF Base64Texts
  <2> QED BY <2>1, <2>2, <2>3 DEF Base64Next
<1>3. Base64Texts => Base64RoundTrip
  <2> SUFFICES ASSUME Base64Texts PROVE Base64RoundTrip OBVIOUS
  <2>1. \A url \in BOOLEAN : /\ decode(encode(plain, url), url) = plain
                             /\ decode(pad(trim(encode(plain, url), url), url), url) = plain
    BY EncodedReturns DEF Base64Texts
  <2>2. ASSUME NEW url \in BOOLEAN, decode(coded, url) # Invalid
        PROVE  /\ Len(encode(decode(coded, url), url)) = Len(coded)
               /\ \A i \in DOMAIN coded :
                    i # Len(coded) - Fills(coded, Fill(url)) * Len(Fill(url)) \/ Fills(coded, Fill(url)) = 0 =>
                      coded[i] = encode(decode(coded, url), url)[i]
    <3>1. PICK c, last, body : Parted(coded, url, c, last, body) BY DEF Parted
    <3>2. /\ Len(encode(decode(coded, url), url)) = Len(coded)
          /\ \A i \in DOMAIN coded : i # last \/ c = 0 => coded[i] = encode(decode(coded, url), url)[i]
      BY <2>2, <3>1, DecodedReturns DEF Base64Texts
    <3> QED BY <3>1, <3>2 DEF Parted
  <2> QED BY <2>1, <2>2 DEF Base64RoundTrip
<1> QED BY <1>1, <1>2, <1>3, PTL DEF Base64Spec

-----------------------------------------------------------------------------
Block == UNION {[cells : [0..(n - 1) -> Int], capacity : {n}, count : 0..n] : n \in Nat}

LEMMA BlockIs ==
  ASSUME NEW l
  PROVE  l \in Block <=> /\ l = [cells |-> l.cells, capacity |-> l.capacity, count |-> l.count]
                         /\ l.capacity \in Nat /\ l.count \in 0..l.capacity
                         /\ l.cells \in [0..(l.capacity - 1) -> Int]
<1>1. ASSUME l \in Block
      PROVE  /\ l = [cells |-> l.cells, capacity |-> l.capacity, count |-> l.count]
             /\ l.capacity \in Nat /\ l.count \in 0..l.capacity
             /\ l.cells \in [0..(l.capacity - 1) -> Int]
  <2>1. PICK n \in Nat : l \in [cells : [0..(n - 1) -> Int], capacity : {n}, count : 0..n] BY <1>1 DEF Block
  <2> QED BY <2>1
<1>2. ASSUME l = [cells |-> l.cells, capacity |-> l.capacity, count |-> l.count],
             l.capacity \in Nat, l.count \in 0..l.capacity, l.cells \in [0..(l.capacity - 1) -> Int]
      PROVE  l \in Block
  <2>1. PICK n \in Nat : n = l.capacity BY <1>2
  <2>2. l \in [cells : [0..(n - 1) -> Int], capacity : {n}, count : 0..n] BY <1>2, <2>1
  <2> QED BY <2>2 DEF Block
<1> QED BY <1>1, <1>2

\* The record of a list is made of its parts.
LEMMA BlockMade ==
  ASSUME NEW n \in Nat, NEW k \in 0..n, NEW c \in [0..(n - 1) -> Int], NEW l,
         l = [cells |-> c, capacity |-> n, count |-> k]
  PROVE  l \in Block /\ l.cells = c /\ l.capacity = n /\ l.count = k
BY BlockIs

LEMMA SequenceEqual ==
  ASSUME NEW S, NEW s \in Seq(S), NEW t \in Seq(S), Len(s) = Len(t), \A i \in 1..Len(s) : s[i] = t[i]
  PROVE  s = t
<1>1. /\ s = [i \in 1..Len(s) |-> s[i]] /\ t = [i \in 1..Len(t) |-> t[i]] OBVIOUS
<1> QED BY <1>1

LEMMA ContentsAre ==
  ASSUME NEW l \in Block
  PROVE  /\ Contents(l) \in Seq(Int) /\ Len(Contents(l)) = l.count
         /\ l.count \in Nat
         /\ \A i \in 1..l.count : Contents(l)[i] = l.cells[i - 1] /\ l.cells[i - 1] \in Int
<1>1. l.capacity \in Nat /\ l.count \in 0..l.capacity /\ l.cells \in [0..(l.capacity - 1) -> Int] BY BlockIs
<1>2. PICK k \in Nat : k = l.count BY <1>1
<1>3. \A i \in 1..k : l.cells[i - 1] \in Int BY <1>1, <1>2
<1>4. Contents(l) = [i \in 1..k |-> l.cells[i - 1]] BY <1>2 DEF Contents
<1> QED BY <1>2, <1>3, <1>4

\* What a list is given by, to compare it with a sequence.
LEMMA ContentsEqual ==
  ASSUME NEW l \in Block, NEW s \in Seq(Int), Len(s) = l.count, \A i \in 1..l.count : l.cells[i - 1] = s[i]
  PROVE  Contents(l) = s
BY ContentsAre, SequenceEqual

LEMMA CapacityKeeps ==
  ASSUME NEW l \in Block, NEW n \in Nat, l.count <= n
  PROVE  /\ SetCapacity(l, n) \in Block
         /\ SetCapacity(l, n).capacity = n /\ SetCapacity(l, n).count = l.count
         /\ \A i \in 0..(l.count - 1) : SetCapacity(l, n).cells[i] = l.cells[i]
         /\ Contents(SetCapacity(l, n)) = Contents(l)
<1>1. /\ l = [cells |-> l.cells, capacity |-> l.capacity, count |-> l.count]
      /\ l.capacity \in Nat /\ l.count \in 0..l.capacity /\ l.cells \in [0..(l.capacity - 1) -> Int] BY BlockIs
<1> DEFINE c == [i \in 0..(n - 1) |-> IF i < l.capacity THEN l.cells[i] ELSE Junk]
<1>2. \A i \in 0..(n - 1) : (IF i < l.capacity THEN l.cells[i] ELSE Junk) \in Int BY <1>1 DEF Junk
<1>3. c \in [0..(n - 1) -> Int] BY <1>2
<1>4. \A i \in 0..(l.count - 1) : c[i] = l.cells[i] BY <1>1
<1>5. PICK e : e = SetCapacity(l, n) OBVIOUS
<1>50. /\ e = [cells |-> e.cells, capacity |-> e.capacity, count |-> e.count]
       /\ e.cells = c /\ e.capacity = n /\ e.count = l.count
  BY <1>1, <1>5 DEF SetCapacity
<1> HIDE DEF c
<1>6. /\ SetCapacity(l, n) \in Block /\ SetCapacity(l, n).capacity = n /\ SetCapacity(l, n).count = l.count
      /\ SetCapacity(l, n).cells = c
  BY <1>1, <1>3, <1>5, <1>50, BlockMade
<1>7. /\ Contents(l) \in Seq(Int) /\ Len(Contents(l)) = l.count
      /\ \A i \in 1..l.count : Contents(l)[i] = l.cells[i - 1]
  BY ContentsAre
<1>8. \A i \in 1..l.count : i - 1 \in 0..(l.count - 1) BY <1>1
<1>9. Contents(SetCapacity(l, n)) = Contents(l) BY <1>4, <1>6, <1>7, <1>8, ContentsEqual
<1> QED BY <1>4, <1>6, <1>9

LEMMA ExpandKeeps ==
  ASSUME NEW l \in Block
  PROVE  /\ Expand(l) \in Block
         /\ Expand(l).count = l.count /\ l.count < Expand(l).capacity
         /\ \A i \in 0..(l.count - 1) : Expand(l).cells[i] = l.cells[i]
         /\ Contents(Expand(l)) = Contents(l)
<1>1. l.capacity \in Nat /\ l.count \in 0..l.capacity BY BlockIs
<1>2. CASE l.count = l.capacity
  <2>1. GrowDelta(l.capacity) \in Nat \ {0}
    <3>1. l.capacity > 64 => l.capacity \div 4 \in Nat \ {0} BY <1>1
    <3> QED BY <3>1 DEF GrowDelta
  <2>2. PICK n \in Nat : n = l.capacity + GrowDelta(l.capacity) /\ l.count < n BY <1>1, <1>2, <2>1
  <2>3. Expand(l) = SetCapacity(l, n) BY <1>2, <2>2 DEF Expand
  <2> QED BY <1>1, <2>2, <2>3, CapacityKeeps
<1>3. CASE l.count # l.capacity
  <2>1. Expand(l) = l BY <1>3 DEF Expand
  <2> QED BY <1>1, <1>3, <2>1
<1> QED BY <1>2, <1>3

\* CList::Add
LEMMA AddAppends ==
  ASSUME NEW l \in Block, NEW x \in Int
  PROVE  /\ ListAdd(l, x) \in Block
         /\ ListAdd(l, x).count = l.count + 1
         /\ Contents(ListAdd(l, x)) = Append(Contents(l), x)
<1>1. PICK e : e = Expand(l) OBVIOUS
<1>2. /\ e \in Block /\ e.count = l.count /\ l.count < e.capacity
      /\ \A i \in 0..(l.count - 1) : e.cells[i] = l.cells[i]
  BY <1>1, ExpandKeeps
<1>3. /\ e = [cells |-> e.cells, capacity |-> e.capacity, count |-> e.count]
      /\ e.capacity \in Nat /\ e.count \in 0..e.capacity /\ e.cells \in [0..(e.capacity - 1) -> Int] BY <1>2, BlockIs
<1>4. PICK c : c = [e.cells EXCEPT ![e.count] = x] OBVIOUS
<1>5. PICK d : d = ListAdd(l, x) OBVIOUS
<1>50. /\ d = [cells |-> d.cells, capacity |-> d.capacity, count |-> d.count]
       /\ d.cells = c /\ d.capacity = e.capacity /\ d.count = e.count + 1
  BY <1>1, <1>3, <1>4, <1>5 DEF ListAdd
<1>6. c \in [0..(e.capacity - 1) -> Int] BY <1>3, <1>4
<1>7. e.count + 1 \in 0..e.capacity BY <1>2, <1>3
<1>8. /\ ListAdd(l, x) \in Block /\ ListAdd(l, x).cells = c /\ ListAdd(l, x).count = l.count + 1
  BY <1>2, <1>3, <1>5, <1>50, <1>6, <1>7, BlockMade
<1>9. /\ Contents(l) \in Seq(Int) /\ Len(Contents(l)) = l.count
      /\ \A i \in 1..l.count : Contents(l)[i] = l.cells[i - 1]
  BY ContentsAre
<1>10. /\ Append(Contents(l), x) \in Seq(Int) /\ Len(Append(Contents(l), x)) = l.count + 1
       /\ \A i \in 1..l.count : Append(Contents(l), x)[i] = l.cells[i - 1]
       /\ Append(Contents(l), x)[l.count + 1] = x
  BY <1>9, AppendProperties
<1>11. \A i \in 1..(l.count + 1) : c[i - 1] = Append(Contents(l), x)[i]
  <2> TAKE i \in 1..(l.count + 1)
  <2>1. CASE i = l.count + 1
    <3>1. c[l.count] = x BY <1>2, <1>3, <1>4
    <3> QED BY <1>2, <1>3, <1>10, <2>1, <3>1
  <2>2. CASE i # l.count + 1
    <3>1. i \in 1..l.count /\ i - 1 \in 0..(l.count - 1) /\ i - 1 # e.count BY <1>2, <1>3, <2>2
    <3>2. c[i - 1] = e.cells[i - 1] BY <1>2, <1>3, <1>4, <3>1
    <3> QED BY <1>2, <1>10, <3>1, <3>2
  <2> QED BY <2>1, <2>2
<1>12. Contents(ListAdd(l, x)) = Append(Contents(l), x)
  BY <1>8, <1>10, <1>11, ContentsEqual
<1> QED BY <1>8, <1>12

-----------------------------------------------------------------------------
\* r is s with x put in as its k-th item.
Inserted(r, s, k, x) ==
  Len(r) = Len(s) + 1 /\ \A o \in 1..(Len(s) + 1) : r[o] = IF o < k THEN s[o] ELSE IF o = k THEN x ELSE s[o - 1]

LEMMA InsertOf ==
  ASSUME NEW S, NEW s, s \in Seq(S), NEW k, k \in 1..(Len(s) + 1), NEW x, x \in S, NEW r, r = InsertAt(s, k, x)
  PROVE  r \in Seq(S) /\ Inserted(r, s, k, x)
<1> DEFINE a == SubSeq(s, 1, k - 1)
           b == SubSeq(s, k, Len(s))
<1>0. Len(s) \in Nat /\ k \in Nat /\ k >= 1 /\ \A i \in 1..Len(s) : s[i] \in S OBVIOUS
<1>1. /\ a \in Seq(S) /\ Len(a) = k - 1
      /\ \A i \in 1..(k - 1) : a[i] = s[i]
  <2>1. \A i \in 1..(k - 1) : s[i] \in S BY <1>0
  <2> QED BY <1>0, <2>1, SubSeqProperties
<1>2. /\ b \in Seq(S) /\ Len(b) = Len(s) + 1 - k
      /\ \A i \in 1..(Len(s) + 1 - k) : b[i] = s[k + i - 1]
  <2>1. \A i \in k..Len(s) : s[i] \in S BY <1>0
  <2> QED BY <1>0, <2>1, SubSeqProperties
<1> HIDE DEF a, b
<1>3. <<x>> \in Seq(S) /\ Len(<<x>>) = 1 /\ <<x>>[1] = x OBVIOUS
<1>4. /\ a \o <<x>> \in Seq(S) /\ Len(a \o <<x>>) = k
      /\ \A i \in 1..k : (a \o <<x>>)[i] = IF i < k THEN s[i] ELSE x
  <2>1. /\ a \o <<x>> \in Seq(S) /\ Len(a \o <<x>>) = k
        /\ \A i \in 1..k : (a \o <<x>>)[i] = IF i <= Len(a) THEN a[i] ELSE <<x>>[i - Len(a)]
    BY <1>0, <1>1, <1>3, ConcatProperties
  <2> QED BY <1>0, <1>1, <1>3, <2>1
<1>5. PICK c : c = a \o <<x>> /\ c \in Seq(S) /\ Len(c) = k BY <1>4
<1>6. /\ c \o b \in Seq(S)
      /\ Len(c \o b) = Len(s) + 1
      /\ \A i \in 1..(Len(s) + 1) : (c \o b)[i] = IF i <= Len(c) THEN c[i] ELSE b[i - Len(c)]
  <2>1. Len(b) \in Nat /\ k + Len(b) = Len(s) + 1 BY <1>0, <1>2
  <2>2. /\ c \o b \in Seq(S) /\ Len(c \o b) = Len(c) + Len(b)
        /\ \A i \in 1..(Len(c) + Len(b)) : (c \o b)[i] = IF i <= Len(c) THEN c[i] ELSE b[i - Len(c)]
    BY ONLY <1>2, <1>5, ConcatProperties
  <2> QED BY ONLY <1>5, <2>1, <2>2
<1>7. ASSUME NEW j \in 1..(Len(s) + 1)
      PROVE  (c \o b)[j] = IF j < k THEN s[j] ELSE IF j = k THEN x ELSE s[j - 1]
  <2>1. CASE j <= k BY <1>0, <1>4, <1>5, <1>6, <2>1
  <2>2. CASE ~(j <= k)
    <3>1. j - k \in 1..(Len(s) + 1 - k) /\ k + (j - k) - 1 = j - 1 BY <1>0, <2>2
    <3>2. (c \o b)[j] = b[j - k] BY <1>0, <1>4, <1>5, <1>6, <2>2
    <3>3. b[j - k] = s[j - 1] BY <1>2, <3>1
    <3> QED BY <2>2, <3>2, <3>3
  <2> QED BY <2>1, <2>2
<1>8. r = c \o b BY <1>5 DEF InsertAt, a, b
<1> QED BY <1>6, <1>7, <1>8 DEF Inserted

\* CList::Insert
LEMMA InsertInserts ==
  ASSUME NEW l \in Block, NEW i \in 0..l.count, NEW x \in Int
  PROVE  /\ ListInsert(l, i, x) \in Block
         /\ ListInsert(l, i, x).count = l.count + 1
         /\ Contents(ListInsert(l, i, x)) = InsertAt(Contents(l), i + 1, x)
<1>1. PICK e : e = Expand(l) OBVIOUS
<1>2. /\ e \in Block /\ e.count = l.count /\ l.count < e.capacity
      /\ \A j \in 0..(l.count - 1) : e.cells[j] = l.cells[j]
  BY <1>1, ExpandKeeps
<1>3. /\ e = [cells |-> e.cells, capacity |-> e.capacity, count |-> e.count]
      /\ e.capacity \in Nat /\ e.count \in 0..e.capacity /\ e.cells \in [0..(e.capacity - 1) -> Int] BY <1>2, BlockIs
<1>4. PICK m : m = [j \in 0..(e.capacity - 1) |-> IF j \in (i + 1)..(i + 1 + (e.count - i) - 1) THEN e.cells[i + j - (i + 1)] ELSE e.cells[j]]
  OBVIOUS
<1>5. PICK c : c = [m EXCEPT ![i] = x] OBVIOUS
<1>6. PICK d : d = ListInsert(l, i, x) OBVIOUS
<1>7. /\ d = [cells |-> d.cells, capacity |-> d.capacity, count |-> d.count]
      /\ d.cells = c /\ d.capacity = e.capacity /\ d.count = e.count + 1
  <2>1. PICK o : o = MoveMemory(e, i + 1, i, e.count - i) OBVIOUS
  <2>2. /\ o = [cells |-> o.cells, capacity |-> o.capacity, count |-> o.count]
        /\ o.cells = m /\ o.capacity = e.capacity /\ o.count = e.count
    <3>1. DOMAIN e.cells = 0..(e.capacity - 1) BY <1>3
    <3> QED BY <1>3, <1>4, <2>1, <3>1 DEF MoveMemory
  <2>3. PICK p : p = OpenCell(l, i) OBVIOUS
  <2>4. /\ p = [cells |-> p.cells, capacity |-> p.capacity, count |-> p.count]
        /\ p.cells = m /\ p.capacity = e.capacity /\ p.count = e.count + 1
    BY <1>1, <2>1, <2>2, <2>3 DEF OpenCell
  <2> QED BY <1>5, <1>6, <2>3, <2>4 DEF ListInsert
<1>8. \A j \in 0..(e.capacity - 1) : m[j] \in Int
  <2> TAKE j \in 0..(e.capacity - 1)
  <2>1. j \in (i + 1)..(i + 1 + (e.count - i) - 1) => i + j - (i + 1) \in 0..(e.capacity - 1) BY <1>2, <1>3
  <2> QED BY <1>3, <1>4, <2>1
<1>9. c \in [0..(e.capacity - 1) -> Int] BY <1>4, <1>5, <1>8
<1>10. e.count + 1 \in 0..e.capacity BY <1>2, <1>3
<1>11. d \in Block /\ d.cells = c /\ d.count = l.count + 1
  BY <1>2, <1>3, <1>7, <1>9, <1>10, BlockMade
<1>12. /\ Contents(l) \in Seq(Int) /\ Len(Contents(l)) = l.count
       /\ \A j \in 1..l.count : Contents(l)[j] = l.cells[j - 1]
  BY ContentsAre
<1>13. PICK s : s = InsertAt(Contents(l), i + 1, x) OBVIOUS
<1>14. /\ s \in Seq(Int) /\ Len(s) = l.count + 1
       /\ \A j \in 1..(l.count + 1) :
            s[j] = IF j < i + 1 THEN Contents(l)[j] ELSE IF j = i + 1 THEN x ELSE Contents(l)[j - 1]
  <2>1. PICK t \in Seq(Int) : t = Contents(l) BY <1>12
  <2>2. PICK k \in 1..(Len(t) + 1) : k = i + 1 BY <1>2, <1>3, <1>12, <2>1
  <2>3. /\ InsertAt(t, k, x) \in Seq(Int) /\ Len(InsertAt(t, k, x)) = Len(t) + 1
        /\ \A j \in 1..(Len(t) + 1) : InsertAt(t, k, x)[j] = IF j < k THEN t[j] ELSE IF j = k THEN x ELSE t[j - 1]
    <3>1. PICK q, S : q = InsertAt(t, k, x) /\ S = Int OBVIOUS
    <3>2. t \in Seq(S) /\ x \in S /\ k \in 1..(Len(t) + 1) BY <2>1, <3>1
    <3>3. q \in Seq(S) /\ Inserted(q, t, k, x) BY ONLY <3>1, <3>2, InsertOf
    <3> QED BY <3>1, <3>3 DEF Inserted
  <2> QED BY ONLY <1>12, <1>13, <2>1, <2>2, <2>3
<1>15. \A j \in 1..(l.count + 1) : c[j - 1] = s[j]
  <2> TAKE j \in 1..(l.count + 1)
  <2>0. l.count \in Nat /\ i \in 0..l.count /\ j - 1 \in 0..(e.capacity - 1) BY <1>2, <1>3
  <2>1. CASE j = i + 1
    <3>1. c[i] = x BY <1>4, <1>5, <2>0, <2>1
    <3> QED BY <1>14, <2>0, <2>1, <3>1
  <2>2. CASE j < i + 1
    <3>1. c[j - 1] = m[j - 1] BY <1>4, <1>5, <2>0, <2>2
    <3>2. m[j - 1] = e.cells[j - 1] BY <1>4, <2>0, <2>2
    <3>3. j - 1 \in 0..(l.count - 1) /\ j \in 1..l.count BY <2>0, <2>2
    <3> QED BY <1>2, <1>12, <1>14, <2>2, <3>1, <3>2, <3>3
  <2>3. CASE j > i + 1
    <3>1. c[j - 1] = m[j - 1] BY <1>4, <1>5, <2>0, <2>3
    <3>2. j - 1 \in (i + 1)..(i + 1 + (e.count - i) - 1) /\ i + (j - 1) - (i + 1) = j - 2 BY <1>2, <2>0, <2>3
    <3>3. m[j - 1] = e.cells[j - 2] BY <1>4, <2>0, <3>2
    <3>4. j - 2 \in 0..(l.count - 1) /\ j - 1 \in 1..l.count /\ (j - 1) - 1 = j - 2 BY <2>0, <2>3
    <3> QED BY <1>2, <1>12, <1>14, <2>3, <3>1, <3>3, <3>4
  <2> QED BY <2>0, <2>1, <2>2, <2>3
<1>16. Contents(d) = s BY <1>11, <1>14, <1>15, ContentsEqual
<1> QED BY <1>6, <1>11, <1>13, <1>16

\* CList::Delete
LEMMA DeleteRemoves ==
  ASSUME NEW l \in Block, NEW i \in 0..(l.count - 1)
  PROVE  /\ CloseCell(l, i) \in Block
         /\ CloseCell(l, i).count = l.count - 1
         /\ Contents(CloseCell(l, i)) = RemoveAt(Contents(l), i + 1)
<1>1. /\ l = [cells |-> l.cells, capacity |-> l.capacity, count |-> l.count]
      /\ l.capacity \in Nat /\ l.count \in 0..l.capacity /\ l.cells \in [0..(l.capacity - 1) -> Int] BY BlockIs
<1>2. PICK n \in Nat : n = l.count - 1 /\ n < l.capacity /\ i <= n BY <1>1
<1>3. PICK m : m = [j \in 0..(l.capacity - 1) |-> IF j \in i..(i + (n - i) - 1) THEN l.cells[i + 1 + j - i] ELSE l.cells[j]]
  OBVIOUS
<1>4. PICK c : c = [m EXCEPT ![n] = Junk] OBVIOUS
<1>5. PICK d : d = CloseCell(l, i) OBVIOUS
<1>6. /\ d = [cells |-> d.cells, capacity |-> d.capacity, count |-> d.count]
      /\ d.cells = c /\ d.capacity = l.capacity /\ d.count = n
  <2>1. PICK o : o = MoveMemory(l, i, i + 1, n - i) OBVIOUS
  <2>2. /\ o = [cells |-> o.cells, capacity |-> o.capacity, count |-> o.count]
        /\ o.cells = m /\ o.capacity = l.capacity /\ o.count = l.count
    <3>1. DOMAIN l.cells = 0..(l.capacity - 1) BY <1>1
    <3> QED BY <1>1, <1>3, <2>1, <3>1 DEF MoveMemory
  <2>3. d = [o EXCEPT !.count = n, !.cells[n] = Junk] BY <1>2, <1>5, <2>1 DEF CloseCell
  <2> QED BY <1>4, <2>2, <2>3
<1>7. \A j \in 0..(l.capacity - 1) : m[j] \in Int
  <2> TAKE j \in 0..(l.capacity - 1)
  <2>1. j \in i..(i + (n - i) - 1) => i + 1 + j - i \in 0..(l.capacity - 1) BY <1>1, <1>2
  <2> QED BY <1>1, <1>3, <2>1
<1>8. c \in [0..(l.capacity - 1) -> Int]
  <2>1. Junk \in Int BY DEF Junk
  <2>2. m \in [0..(l.capacity - 1) -> Int] BY <1>3, <1>7
  <2> QED BY <1>4, <2>1, <2>2
<1>9. d \in Block /\ d.cells = c /\ d.count = n
  <2>1. n \in 0..l.capacity BY <1>1, <1>2
  <2> QED BY <1>1, <1>6, <1>8, <2>1, BlockMade
<1>10. /\ Contents(l) \in Seq(Int) /\ Len(Contents(l)) = l.count
       /\ \A j \in 1..l.count : Contents(l)[j] = l.cells[j - 1]
  BY ContentsAre
<1>11. PICK s : s = RemoveAt(Contents(l), i + 1) OBVIOUS
<1>12. /\ s \in Seq(Int) /\ Len(s) = n
       /\ \A j \in 1..n : s[j] = IF j < i + 1 THEN Contents(l)[j] ELSE Contents(l)[j + 1]
  <2>1. PICK t \in Seq(Int) : t = Contents(l) BY <1>10
  <2>2. PICK k \in 1..Len(t) : k = i + 1 BY <1>1, <1>2, <1>10, <2>1
  <2>3. /\ RemoveAt(t, k) \in Seq(Int) /\ Len(RemoveAt(t, k)) = Len(t) - 1
        /\ \A j \in 1..(Len(t) - 1) : RemoveAt(t, k)[j] = IF j < k THEN t[j] ELSE t[j + 1]
    BY RemoveAtIndex
  <2> QED BY ONLY <1>2, <1>10, <1>11, <2>1, <2>2, <2>3
<1>13. \A j \in 1..n : c[j - 1] = s[j]
  <2> TAKE j \in 1..n
  <2>0. j - 1 \in 0..(l.capacity - 1) /\ j - 1 # n BY <1>1, <1>2
  <2>1. c[j - 1] = m[j - 1] BY <1>3, <1>4, <2>0
  <2>2. CASE j < i + 1
    <3>0. j - 1 \notin i..(i + (n - i) - 1) /\ j \in 1..l.count BY <1>1, <1>2, <2>2
    <3>1. m[j - 1] = l.cells[j - 1] /\ j \in 1..l.count BY <1>3, <2>0, <3>0
    <3> QED BY <1>10, <1>12, <2>1, <2>2, <3>1
  <2>3. CASE ~(j < i + 1)
    <3>1. j - 1 \in i..(i + (n - i) - 1) /\ i + 1 + (j - 1) - i = j BY <1>2, <2>3
    <3>2. m[j - 1] = l.cells[j] BY <1>3, <2>0, <3>1
    <3>3. j + 1 \in 1..l.count /\ (j + 1) - 1 = j BY <1>1, <1>2
    <3> QED BY <1>10, <1>12, <2>1, <2>3, <3>2, <3>3
  <2> QED BY <2>2, <2>3
<1>14. Contents(d) = s BY <1>9, <1>12, <1>13, ContentsEqual
<1> QED BY <1>2, <1>5, <1>9, <1>11, <1>14

\* CList::Put, and Exchange as two of them
LEMMA PutReplaces ==
  ASSUME NEW l \in Block, NEW i \in 0..(l.count - 1), NEW x \in Int
  PROVE  /\ ListPut(l, i, x) \in Block
         /\ ListPut(l, i, x).count = l.count
         /\ Contents(ListPut(l, i, x)) = [Contents(l) EXCEPT ![i + 1] = x]
<1>1. /\ l = [cells |-> l.cells, capacity |-> l.capacity, count |-> l.count]
      /\ l.capacity \in Nat /\ l.count \in 0..l.capacity /\ l.cells \in [0..(l.capacity - 1) -> Int] BY BlockIs
<1>2. PICK c : c = [l.cells EXCEPT ![i] = x] OBVIOUS
<1>3. PICK d : d = ListPut(l, i, x) OBVIOUS
<1>4. /\ d = [cells |-> d.cells, capacity |-> d.capacity, count |-> d.count]
      /\ d.cells = c /\ d.capacity = l.capacity /\ d.count = l.count
  BY <1>1, <1>2, <1>3 DEF ListPut
<1>5. c \in [0..(l.capacity - 1) -> Int] BY <1>1, <1>2
<1>6. d \in Block /\ d.cells = c /\ d.count = l.count BY <1>1, <1>4, <1>5, BlockMade
<1>7. /\ Contents(l) \in Seq(Int) /\ Len(Contents(l)) = l.count
      /\ \A j \in 1..l.count : Contents(l)[j] = l.cells[j - 1]
  BY ContentsAre
<1>8. PICK s : s = [Contents(l) EXCEPT ![i + 1] = x] OBVIOUS
<1>9. s \in Seq(Int) /\ Len(s) = l.count BY <1>7, <1>8
<1>10. \A j \in 1..l.count : c[j - 1] = s[j]
  <2> TAKE j \in 1..l.count
  <2>1. j - 1 \in 0..(l.capacity - 1) /\ (j - 1 = i <=> j = i + 1) BY <1>1
  <2> QED BY <1>1, <1>2, <1>7, <1>8, <2>1
<1>11. Contents(d) = s BY <1>6, <1>9, <1>10, ContentsEqual
<1> QED BY <1>3, <1>6, <1>8, <1>11

LEMMA ExchangeSwaps ==
  ASSUME NEW l \in Block, NEW i \in 0..(l.count - 1), NEW k \in 0..(l.count - 1)
  PROVE  /\ Exchange(l, i, k) \in Block
         /\ Exchange(l, i, k).count = l.count
         /\ Contents(Exchange(l, i, k)) = [Contents(l) EXCEPT ![i + 1] = Contents(l)[k + 1], ![k + 1] = Contents(l)[i + 1]]
<1>1. /\ l = [cells |-> l.cells, capacity |-> l.capacity, count |-> l.count]
      /\ l.capacity \in Nat /\ l.count \in 0..l.capacity /\ l.cells \in [0..(l.capacity - 1) -> Int] BY BlockIs
<1>2. PICK c : c = [l.cells EXCEPT ![i] = l.cells[k], ![k] = l.cells[i]] OBVIOUS
<1>3. PICK d : d = Exchange(l, i, k) OBVIOUS
<1>4. /\ d = [cells |-> d.cells, capacity |-> d.capacity, count |-> d.count]
      /\ d.cells = c /\ d.capacity = l.capacity /\ d.count = l.count
  BY <1>1, <1>2, <1>3 DEF Exchange, Swapped
<1>5. c \in [0..(l.capacity - 1) -> Int] BY <1>1, <1>2
<1>6. d \in Block /\ d.cells = c /\ d.count = l.count BY <1>1, <1>4, <1>5, BlockMade
<1>7. /\ Contents(l) \in Seq(Int) /\ Len(Contents(l)) = l.count
      /\ \A j \in 1..l.count : Contents(l)[j] = l.cells[j - 1] /\ l.cells[j - 1] \in Int
  BY ContentsAre
<1>8. PICK s : s = [Contents(l) EXCEPT ![i + 1] = Contents(l)[k + 1], ![k + 1] = Contents(l)[i + 1]] OBVIOUS
<1>9. i + 1 \in 1..l.count /\ k + 1 \in 1..l.count /\ (i + 1) - 1 = i /\ (k + 1) - 1 = k BY <1>1, SMTT(20)
<1>10. s \in Seq(Int) /\ Len(s) = l.count BY <1>7, <1>8, <1>9
<1>11. \A j \in 1..l.count : c[j - 1] = s[j]
  <2> TAKE j \in 1..l.count
  <2>1. j - 1 \in 0..(l.capacity - 1) /\ (j - 1 = i <=> j = i + 1) /\ (j - 1 = k <=> j = k + 1) BY <1>1
  <2>2. c[j - 1] = IF j - 1 = k THEN l.cells[i] ELSE IF j - 1 = i THEN l.cells[k] ELSE l.cells[j - 1] BY <1>1, <1>2, <2>1
  <2>3. s[j] = IF j = k + 1 THEN Contents(l)[i + 1] ELSE IF j = i + 1 THEN Contents(l)[k + 1] ELSE Contents(l)[j]
    BY <1>7, <1>8
  <2> QED BY <1>7, <1>9, <2>1, <2>2, <2>3
<1>12. Contents(d) = s BY <1>6, <1>10, <1>11, ContentsEqual
<1> QED BY <1>3, <1>6, <1>8, <1>12

-----------------------------------------------------------------------------
\* The place of the first x in s, counted from 0, or -1.
First(s, x, k) ==
  \/ k = -1 /\ \A i \in 1..Len(s) : s[i] # x
  \/ k \in 0..(Len(s) - 1) /\ s[k + 1] = x /\ \A i \in 1..k : s[i] # x

LEMMA FirstIsOne ==
  ASSUME NEW S, NEW s \in Seq(S), NEW x, NEW k, NEW m, First(s, x, k), First(s, x, m)
  PROVE  k = m
<1>0. Len(s) \in Nat OBVIOUS
<1>1. CASE k = -1
  <2>1. \A i \in 1..Len(s) : s[i] # x BY <1>0, <1>1 DEF First
  <2>2. m \in 0..(Len(s) - 1) => m + 1 \in 1..Len(s) BY <1>0
  <2> QED BY <1>1, <2>1, <2>2 DEF First
<1>2. CASE m = -1
  <2>1. \A i \in 1..Len(s) : s[i] # x BY <1>0, <1>2 DEF First
  <2>2. k \in 0..(Len(s) - 1) => k + 1 \in 1..Len(s) BY <1>0
  <2> QED BY <1>2, <2>1, <2>2 DEF First
<1>3. CASE k # -1 /\ m # -1
  <2>1. /\ k \in 0..(Len(s) - 1) /\ s[k + 1] = x /\ \A i \in 1..k : s[i] # x
        /\ m \in 0..(Len(s) - 1) /\ s[m + 1] = x /\ \A i \in 1..m : s[i] # x
    BY <1>3 DEF First
  <2>2. ~(k < m)
    <3>1. k < m => k + 1 \in 1..m BY <1>0, <2>1
    <3> QED BY <2>1, <3>1
  <2>3. ~(m < k)
    <3>1. m < k => m + 1 \in 1..k BY <1>0, <2>1
    <3> QED BY <2>1, <3>1
  <2> QED BY <1>0, <2>1, <2>2, <2>3
<1> QED BY <1>1, <1>2, <1>3

\* In a list whose first m items are each looked at: a place that has x, and none before it.
LEMMA LeastPlace ==
  ASSUME NEW n \in Nat, NEW P, \E i \in 0..(n - 1) : P[i] = TRUE
  PROVE  \E i \in 0..(n - 1) : P[i] = TRUE /\ \A j \in 0..(i - 1) : P[j] # TRUE
<1>1. PICK I : I = {i \in 0..(n - 1) : P[i] = TRUE} OBVIOUS
<1>2. I \subseteq Nat /\ I # {} BY <1>1
<1>3. PICK i : i \in I /\ \A j \in I : i <= j BY <1>2, LeastIndex
<1>4. i \in 0..(n - 1) /\ P[i] = TRUE BY <1>1, <1>3
<1>5. ASSUME NEW j \in 0..(i - 1) PROVE P[j] # TRUE
  <2>1. j \in 0..(n - 1) /\ ~(i <= j) BY <1>4
  <2>2. j \notin I BY <1>3, <2>1
  <2> QED BY <1>1, <2>1, <2>2
<1> QED BY <1>4, <1>5

\* IndexOf, of whatever the cells stand for
LEMMA PlaceIsFirst ==
  ASSUME NEW S, NEW s \in Seq(S), NEW x
  PROVE  LET n == Len(s)
             k == IF \E i \in 0..(n - 1) : s[i + 1] = x
                  THEN CHOOSE i \in 0..(n - 1) : s[i + 1] = x /\ \A j \in 0..(i - 1) : s[j + 1] # x
                  ELSE -1
         IN  First(s, x, k)
<1>1. PICK n \in Nat : n = Len(s) OBVIOUS
<1> DEFINE Here(i) == s[i + 1] = x /\ \A j \in 0..(i - 1) : s[j + 1] # x
<1>2. ASSUME ~ \E i \in 0..(n - 1) : s[i + 1] = x PROVE First(s, x, -1)
  <2>1. ASSUME NEW i \in 1..n PROVE s[i] # x
    <3>1. i - 1 \in 0..(n - 1) /\ (i - 1) + 1 = i BY <1>1
    <3> QED BY <1>2, <3>1
  <2> QED BY <1>1, <2>1 DEF First
<1>3. ASSUME \E i \in 0..(n - 1) : s[i + 1] = x PROVE \E i \in 0..(n - 1) : Here(i)
  <2>1. PICK P : P = [i \in 0..(n - 1) |-> s[i + 1] = x] OBVIOUS
  <2>2. \E i \in 0..(n - 1) : P[i] = TRUE BY <1>3, <2>1
  <2>3. PICK i \in 0..(n - 1) : P[i] = TRUE /\ \A j \in 0..(i - 1) : P[j] # TRUE BY <2>2, LeastPlace
  <2>4. s[i + 1] = x BY <2>1, <2>3
  <2>5. ASSUME NEW j \in 0..(i - 1) PROVE s[j + 1] # x
    <3>1. j \in 0..(n - 1) BY <1>1, <2>3
    <3> QED BY <2>1, <2>3, <3>1
  <2> QED BY <2>3, <2>4, <2>5
<1>4. ASSUME NEW k \in 0..(n - 1), Here(k) PROVE First(s, x, k)
  <2>1. ASSUME NEW i \in 1..k PROVE s[i] # x
    <3>1. i - 1 \in 0..(k - 1) /\ (i - 1) + 1 = i OBVIOUS
    <3> QED BY <1>4, <3>1
  <2> QED BY <1>1, <1>4, <2>1 DEF First
<1> HIDE DEF Here
<1>5. CASE \E i \in 0..(n - 1) : s[i + 1] = x
  <2>1. PICK k : k = CHOOSE i \in 0..(n - 1) : Here(i) OBVIOUS
  <2>2. k \in 0..(n - 1) /\ Here(k) BY <1>3, <1>5, <2>1
  <2>3. First(s, x, CHOOSE i \in 0..(n - 1) : Here(i)) BY <1>4, <2>1, <2>2
  <2> QED BY <1>1, <1>5, <2>3 DEF Here
<1>6. CASE ~ \E i \in 0..(n - 1) : s[i + 1] = x BY <1>1, <1>2, <1>6
<1> QED BY <1>5, <1>6

LEMMA IndexOfIsFirst ==
  ASSUME NEW l \in Block, NEW x
  PROVE  First(Contents(l), x, ListIndexOf(l, x))
<1>1. PICK s \in Seq(Int) : s = Contents(l) /\ Len(s) = l.count BY ContentsAre
<1>2. l.count \in Nat /\ \A i \in 1..l.count : s[i] = l.cells[i - 1] BY <1>1, ContentsAre
<1>3. \A i \in 0..(l.count - 1) : s[i + 1] = l.cells[i]
  <2> TAKE i \in 0..(l.count - 1)
  <2>1. i + 1 \in 1..l.count /\ (i + 1) - 1 = i BY <1>2
  <2> QED BY <1>2, <2>1
<1>4. (\E i \in 0..(l.count - 1) : s[i + 1] = x) <=> (\E i \in 0..(l.count - 1) : l.cells[i] = x) BY <1>3
<1>5. ASSUME NEW i \in 0..(l.count - 1)
      PROVE  (s[i + 1] = x /\ \A j \in 0..(i - 1) : s[j + 1] # x) <=> (l.cells[i] = x /\ \A j \in 0..(i - 1) : l.cells[j] # x)
  <2>1. \A j \in 0..(i - 1) : j \in 0..(l.count - 1) BY <1>2
  <2> QED BY <1>3, <2>1
<1>6. (CHOOSE i \in 0..(l.count - 1) : s[i + 1] = x /\ \A j \in 0..(i - 1) : s[j + 1] # x) =
      (CHOOSE i \in 0..(l.count - 1) : l.cells[i] = x /\ \A j \in 0..(i - 1) : l.cells[j] # x)
  BY <1>5
<1>7. ListIndexOf(l, x) = IF \E i \in 0..(Len(s) - 1) : s[i + 1] = x
                          THEN CHOOSE i \in 0..(Len(s) - 1) : s[i + 1] = x /\ \A j \in 0..(i - 1) : s[j + 1] # x
                          ELSE -1
  BY <1>1, <1>4, <1>6 DEF ListIndexOf
<1>8. First(s, x, IF \E i \in 0..(Len(s) - 1) : s[i + 1] = x
                  THEN CHOOSE i \in 0..(Len(s) - 1) : s[i + 1] = x /\ \A j \in 0..(i - 1) : s[j + 1] # x
                  ELSE -1)
  BY PlaceIsFirst
<1> QED BY <1>1, <1>7, <1>8

LEMMA IndexInIsFirst ==
  ASSUME NEW S, NEW s \in Seq(S), NEW x
  PROVE  First(s, x, Abstract!IndexIn(s, x)) /\ (Abstract!Has(s, x) <=> Abstract!IndexIn(s, x) >= 0)
<1>1. PICK n \in Nat : n = Len(s) OBVIOUS
<1>2. PICK k : First(s, x, k)
  <2>1. \E k : First(s, x, k) BY PlaceIsFirst
  <2> QED BY <2>1
<1>3. CASE ~Abstract!Has(s, x)
  <2>1. \A i \in 1..n : s[i] # x BY <1>1, <1>3 DEF Abstract!Has
  <2>2. Abstract!IndexIn(s, x) = -1 BY <1>3 DEF Abstract!IndexIn
  <2> QED BY <1>1, <1>3, <2>1, <2>2 DEF First
<1>4. CASE Abstract!Has(s, x)
  <2>1. PICK i0 \in 1..n : s[i0] = x BY <1>1, <1>4 DEF Abstract!Has
  <2>2. k \in 0..(n - 1) /\ s[k + 1] = x /\ \A i \in 1..k : s[i] # x BY <1>1, <1>2, <2>1 DEF First
  <2> DEFINE Here(i) == s[i] = x /\ \A j \in 1..(i - 1) : s[j] # x
  <2>3. k + 1 \in 1..n /\ (k + 1) - 1 = k BY <1>1, <2>2
  <2>4. Here(k + 1) BY <2>2, <2>3
  <2> HIDE DEF Here
  <2>5. PICK m : m = CHOOSE i \in 1..n : Here(i) OBVIOUS
  <2>6. m \in 1..n /\ Here(m) BY <2>3, <2>4, <2>5
  <2>7. Abstract!IndexIn(s, x) = m - 1 BY <1>1, <1>4, <2>5 DEF Abstract!IndexIn, Here
  <2>8. m - 1 \in 0..(n - 1) /\ (m - 1) + 1 = m BY <1>1, <2>6
  <2>9. First(s, x, m - 1) BY <1>1, <2>6, <2>8 DEF First, Here
  <2> QED BY <1>4, <2>7, <2>8, <2>9
<1> QED BY <1>3, <1>4

-----------------------------------------------------------------------------
\* Choices. The operators of the abstract module are those of the libraries.

LEMMA SameOperators ==
  ASSUME NEW I, NEW s, NEW x
  PROVE  /\ Abstract!Cardinality(I) = Cardinality(I)
         /\ Abstract!InsertAt(s, I, x) = InsertAt(s, I, x)
         /\ Abstract!RemoveAt(s, I) = RemoveAt(s, I)
         /\ Abstract!Reverse(s) = Reverse(s)
BY DEF Abstract!Cardinality, Cardinality, Abstract!InsertAt, InsertAt, Abstract!RemoveAt, RemoveAt, Abstract!Reverse, Reverse

LEMMA RisingIs ==
  ASSUME NEW I, NEW c, c = Cardinality(I), NEW f
  PROVE  f \in Abstract!Rising(I) <=> f \in [1..c -> I] /\ \A j, k \in 1..c : j < k => f[j] < f[k]
<1>1. Abstract!Cardinality(I) = c BY SameOperators
<1> QED BY <1>1 DEF Abstract!Rising

LEMMA ChoiceIs ==
  ASSUME NEW s, NEW I, NEW c, c = Cardinality(I), NEW f \in Abstract!Rising(I)
  PROVE  [k \in 1..c |-> s[f[k]]] \in Abstract!Choice(s, I)
<1>1. Abstract!Cardinality(I) = c BY SameOperators
<1> QED BY <1>1 DEF Abstract!Choice

LEMMA ChoiceHas ==
  ASSUME NEW s, NEW I, NEW c, c = Cardinality(I), NEW t \in Abstract!Choice(s, I)
  PROVE  \E f \in Abstract!Rising(I) : t = [k \in 1..c |-> s[f[k]]]
<1>1. Abstract!Cardinality(I) = c BY SameOperators
<1> QED BY <1>1 DEF Abstract!Choice

LEMMA ChoiceType ==
  ASSUME NEW S, NEW s \in Seq(S), NEW I, I \subseteq 1..Len(s), NEW t \in Abstract!Choice(s, I)
  PROVE  /\ IsFiniteSet(I) /\ Cardinality(I) \in Nat
         /\ t \in Seq(S) /\ Len(t) = Cardinality(I)
<1>1. PICK n \in Nat : n = Len(s) OBVIOUS
<1>2. IsFiniteSet(1..n) BY FS_Interval
<1>3. IsFiniteSet(I) BY <1>1, <1>2, FS_Subset
<1>4. PICK c : c = Cardinality(I) OBVIOUS
<1>5. c \in Nat BY <1>3, <1>4, FS_CardinalityType
<1>6. PICK f \in Abstract!Rising(I) : t = [k \in 1..c |-> s[f[k]]] BY <1>4, ChoiceHas
<1>7. f \in [1..c -> I] BY <1>4, <1>6, RisingIs
<1>8. \A k \in 1..c : s[f[k]] \in S
  <2> TAKE k \in 1..c
  <2>1. f[k] \in 1..Len(s) BY <1>7
  <2> QED BY <2>1
<1> QED BY <1>3, <1>4, <1>5, <1>6, <1>8

LEMMA ChoiceOfNone == ASSUME NEW s PROVE << >> \in Abstract!Choice(s, {})
<1>1. Cardinality({}) = 0 BY FS_EmptySet
<1>2. PICK f : f = [k \in 1..0 |-> 0] OBVIOUS
<1>3. f \in [1..0 -> {}] BY <1>2
<1>4. f \in Abstract!Rising({}) BY <1>1, <1>3, RisingIs
<1>5. [k \in 1..0 |-> s[f[k]]] \in Abstract!Choice(s, {}) BY <1>1, <1>4, ChoiceIs
<1>6. [k \in 1..0 |-> s[f[k]]] = << >> OBVIOUS
<1> QED BY <1>5, <1>6

LEMMA ChoiceAppends ==
  ASSUME NEW S, NEW s \in Seq(S), NEW m \in 1..Len(s), NEW I, I \subseteq 1..(m - 1), NEW t \in Abstract!Choice(s, I)
  PROVE  Append(t, s[m]) \in Abstract!Choice(s, I \cup {m})
<1>0. Len(s) \in Nat /\ I \subseteq 1..Len(s) /\ m \notin I OBVIOUS
<1>1. PICK c : c = Cardinality(I) OBVIOUS
<1>2. c \in Nat /\ IsFiniteSet(I) /\ t \in Seq(S) /\ Len(t) = c BY <1>0, <1>1, ChoiceType
<1>3. Cardinality(I \cup {m}) = c + 1 BY <1>0, <1>1, <1>2, FS_AddElement
<1>4. PICK f \in Abstract!Rising(I) : t = [k \in 1..c |-> s[f[k]]] BY <1>1, ChoiceHas
<1>5. f \in [1..c -> I] /\ \A j, k \in 1..c : j < k => f[j] < f[k] BY <1>1, <1>4, RisingIs
<1>6. PICK h : h = [k \in 1..(c + 1) |-> IF k = c + 1 THEN m ELSE f[k]] OBVIOUS
<1>7. \A k \in 1..c : h[k] = f[k] /\ f[k] \in I BY <1>2, <1>5, <1>6
<1>8. h[c + 1] = m BY <1>2, <1>6
<1>9. h \in [1..(c + 1) -> I \cup {m}] BY <1>2, <1>5, <1>6
<1>10. ASSUME NEW j \in 1..(c + 1), NEW k \in 1..(c + 1), j < k PROVE h[j] < h[k]
  <2>1. j \in 1..c BY <1>2, <1>10
  <2>2. CASE k = c + 1
    <3>1. f[j] \in 1..(m - 1) BY <1>7, <2>1
    <3> QED BY <1>7, <1>8, <2>1, <2>2, <3>1
  <2>3. CASE k # c + 1
    <3>1. k \in 1..c BY <1>2, <2>3
    <3> QED BY <1>5, <1>7, <1>10, <2>1, <3>1
  <2> QED BY <2>2, <2>3
<1>11. h \in Abstract!Rising(I \cup {m}) BY <1>3, <1>9, <1>10, RisingIs
<1>12. [k \in 1..(c + 1) |-> s[h[k]]] \in Abstract!Choice(s, I \cup {m}) BY <1>3, <1>11, ChoiceIs
<1>13. Append(t, s[m]) = [k \in 1..(c + 1) |-> s[h[k]]]
  <2>1. PICK u : u = [k \in 1..(c + 1) |-> s[h[k]]] OBVIOUS
  <2>2. s[m] \in S OBVIOUS
  <2>3. u \in Seq(S) /\ Len(u) = c + 1
    <3>1. \A k \in 1..(c + 1) : s[h[k]] \in S
      <4> TAKE k \in 1..(c + 1)
      <4>1. h[k] \in 1..Len(s) BY <1>0, <1>9
      <4> QED BY <4>1
    <3> QED BY <1>2, <2>1, <3>1
  <2>4. /\ Append(t, s[m]) \in Seq(S) /\ Len(Append(t, s[m])) = c + 1
        /\ \A k \in 1..c : Append(t, s[m])[k] = t[k]
        /\ Append(t, s[m])[c + 1] = s[m]
    BY <1>2, <2>2, AppendProperties
  <2>5. ASSUME NEW k \in 1..(c + 1) PROVE Append(t, s[m])[k] = u[k]
    <3>1. CASE k = c + 1 BY <1>8, <2>1, <2>4, <3>1
    <3>2. CASE k # c + 1
      <4>1. k \in 1..c BY <1>2, <3>2
      <4> QED BY <1>4, <1>7, <2>1, <2>4, <4>1
    <3> QED BY <3>1, <3>2
  <2> QED BY <2>1, <2>3, <2>4, <2>5, SequenceEqual
<1> QED BY <1>12, <1>13

\* A rising numbering that has left the first p places alone, and the same without the place p.
Fixed(f, p) == \A k \in 1..p : f[k] = k
Closed(f, p, c) == [k \in 1..(c - 1) |-> IF k < p THEN f[k] ELSE f[k + 1]]

LEMMA RisingRemoves ==
  ASSUME NEW I, IsFiniteSet(I), I \subseteq Nat, NEW c, c = Cardinality(I), NEW f \in Abstract!Rising(I),
         NEW p, p \in 1..c, Fixed(f, p)
  PROVE  /\ Cardinality(I \ {p}) = c - 1
         /\ Closed(f, p, c) \in Abstract!Rising(I \ {p})
         /\ Fixed(Closed(f, p, c), p - 1)
<1>h. PICK h : h = [k \in 1..(c - 1) |-> IF k < p THEN f[k] ELSE f[k + 1]] OBVIOUS
<1>0. \A k \in 1..p : f[k] = k BY DEF Fixed
<1>1. c \in Nat BY FS_CardinalityType
<1>2. f \in [1..c -> I] /\ \A j, k \in 1..c : j < k => f[j] < f[k] BY RisingIs
<1>3. f[p] = p /\ p \in I BY <1>0, <1>1, <1>2
<1>4. Cardinality(I \ {p}) = c - 1 BY <1>1, <1>3, FS_RemoveElement
<1>5. \A k \in 1..(c - 1) : k \in 1..c /\ k + 1 \in 1..c BY <1>1
<1>6. ASSUME NEW k \in 1..(c - 1) PROVE h[k] \in I \ {p} /\ (k < p => h[k] = f[k]) /\ (~(k < p) => h[k] = f[k + 1])
  <2>1. CASE k < p
    <3>1. h[k] = f[k] /\ f[k] = k BY <1>0, <1>1, <1>h, <2>1
    <3> QED BY <1>2, <1>5, <2>1, <3>1
  <2>2. CASE ~(k < p)
    <3>1. h[k] = f[k + 1] /\ p < k + 1 BY <1>1, <1>h, <2>2
    <3>2. f[p] < f[k + 1] /\ f[k + 1] \in I BY <1>1, <1>2, <1>5, <3>1
    <3> QED BY <1>3, <2>2, <3>1, <3>2
  <2> QED BY <2>1, <2>2
<1>7. h \in [1..(c - 1) -> I \ {p}] BY <1>6, <1>h
<1>8. ASSUME NEW j \in 1..(c - 1), NEW k \in 1..(c - 1), j < k PROVE h[j] < h[k]
  <2>1. f[j] < f[k] /\ f[j + 1] < f[k + 1] /\ f[j] < f[k + 1] BY <1>1, <1>2, <1>5, <1>8
  <2> QED BY <1>6, <1>8, <2>1
<1>9. h \in Abstract!Rising(I \ {p}) BY <1>4, <1>7, <1>8, RisingIs
<1>10. ASSUME NEW k \in 1..(p - 1) PROVE h[k] = k
  <2>1. k \in 1..(c - 1) /\ k < p /\ k \in 1..p BY <1>1
  <2> QED BY <1>0, <1>6, <2>1
<1> QED BY <1>4, <1>9, <1>10, <1>h DEF Fixed, Closed

-----------------------------------------------------------------------------
\* A loop of N turns from a, whose turn n takes a member of T[n - 1] to one of T[n].
Typed(N, T, a, step) == a \in T[0] /\ \A n \in 1..N : \A x \in T[n - 1] : step[n][x] \in T[n]
Loop(f, N, T, a, step) ==
  /\ f = [n \in 0..N |-> f[n]]
  /\ f[0] = a /\ \A n \in 1..N : f[n] = step[n][f[n - 1]]
  /\ \A n \in 0..N : f[n] \in T[n]
Keeps(g, N, T) == g[0] \in T[0] /\ \A n \in 1..N : g[n - 1] \in T[n - 1] => g[n] \in T[n]

LEMMA LoopIs ==
  ASSUME NEW N \in Nat, NEW T, NEW a, NEW step, Typed(N, T, a, step)
  PROVE  \E f : Loop(f, N, T, a, step)
<1>0. a \in T[0] /\ \A n \in 1..N : \A x \in T[n - 1] : step[n][x] \in T[n] BY DEF Typed
<1>1. PICK down : down = [n \in 0..N |-> [g \in Below(n, T) |-> IF n = 0 THEN a ELSE step[n][g[n - 1]]]] OBVIOUS
<1>2. ASSUME NEW n \in 0..N, NEW g \in Below(n, T) PROVE down[n][g] \in T[n]
  <2>1. down[n][g] = IF n = 0 THEN a ELSE step[n][g[n - 1]] BY <1>1
  <2>2. CASE n = 0 BY <1>0, <2>1, <2>2
  <2>3. CASE n # 0
    <3>1. n \in 1..N /\ n - 1 \in 0..(n - 1) BY <2>3
    <3>2. g[n - 1] \in T[n - 1] BY <3>1 DEF Below
    <3> QED BY <1>0, <2>1, <2>3, <3>1, <3>2
  <2> QED BY <2>2, <2>3
<1>3. PICK f : f \in Below(N + 1, T) /\ \A n \in 0..N : f[n] = down[n][[k \in 0..(n - 1) |-> f[k]]]
  <2>1. \A n \in 0..N : \A g \in Below(n, T) : down[n][g] \in T[n] BY <1>2
  <2>2. Descends(N, T, down) BY <2>1 DEF Descends
  <2>3. \E f : Recursive(f, N, T, down) BY <2>2, Recursion
  <2> QED BY <2>3 DEF Upto, Recursive
<1>4. DOMAIN f = 0..N /\ f = [n \in 0..N |-> f[n]] /\ \A n \in 0..N : f[n] \in T[n]
  <2>1. N \in Nat /\ f \in Below(N + 1, T) BY <1>3
  <2> QED BY ONLY <2>1, BelowIs
<1>5. ASSUME NEW n \in 0..N PROVE f[n] = IF n = 0 THEN a ELSE step[n][f[n - 1]]
  <2>1. PICK g : g = [k \in 0..(n - 1) |-> f[k]] OBVIOUS
  <2>2. \A k \in 0..(n - 1) : g[k] \in T[k] BY <1>4, <2>1
  <2>3. g \in Below(n, T)
    <3>1. \A k \in 0..(n - 1) : g[k] \in UNION {T[m] : m \in 0..(n - 1)} BY <2>2
    <3> QED BY <2>1, <2>2, <3>1 DEF Below
  <2>4. f[n] = IF n = 0 THEN a ELSE step[n][g[n - 1]] BY <1>1, <1>3, <2>1, <2>3
  <2>5. n # 0 => g[n - 1] = f[n - 1] BY <2>1
  <2> QED BY <2>4, <2>5
<1>6. f[0] = a /\ \A n \in 1..N : f[n] = step[n][f[n - 1]]
  <2>1. 0 \in 0..N /\ \A n \in 1..N : n \in 0..N /\ n # 0 OBVIOUS
  <2> QED BY <1>5, <2>1
<1>7. Loop(f, N, T, a, step) BY <1>4, <1>6 DEF Loop
<1> QED BY <1>7

\* The turns of a loop, one after the other
LEMMA Turns ==
  ASSUME NEW N \in Nat, NEW P, P[0] = TRUE, \A n \in 1..N : P[n - 1] = TRUE => P[n] = TRUE
  PROVE  \A n \in 0..N : P[n] = TRUE
<1>1. PICK S : S = {n \in Nat : n <= N => P[n] = TRUE} OBVIOUS
<1>2. 0 \in S BY <1>1
<1>3. ASSUME NEW n \in Nat, n \in S PROVE n + 1 \in S
  <2>1. CASE n + 1 <= N
    <3>1. n + 1 \in 1..N /\ (n + 1) - 1 = n BY <2>1
    <3>2. P[n] = TRUE BY <1>1, <1>3, <2>1
    <3> QED BY <1>1, <3>1, <3>2
  <2>2. CASE ~(n + 1 <= N) BY <1>1, <2>2
  <2> QED BY <2>1, <2>2
<1>4. Nat \subseteq S BY <1>2, <1>3, Inductive
<1> QED BY <1>1, <1>4

LEMMA KeepsAll ==
  ASSUME NEW N \in Nat, NEW T, NEW g, Keeps(g, N, T)
  PROVE  \A n \in 0..N : g[n] \in T[n]
<1>1. PICK P : P = [n \in 0..N |-> g[n] \in T[n]] OBVIOUS
<1>2. P[0] = TRUE
  <2>1. g[0] \in T[0] /\ 0 \in 0..N BY DEF Keeps
  <2> QED BY <1>1, <2>1
<1>3. ASSUME NEW n \in 1..N, P[n - 1] = TRUE PROVE P[n] = TRUE
  <2>1. n \in 0..N /\ n - 1 \in 0..N OBVIOUS
  <2> QED BY <1>1, <1>3, <2>1 DEF Keeps
<1>4. \A n \in 0..N : P[n] = TRUE BY <1>2, <1>3, Turns
<1> QED BY <1>1, <1>4

\* Adding the items of t one by one
Adding(q, s, t) == q[0] = s /\ \A n \in 1..Len(t) : q[n] = Append(q[n - 1], t[n])

LEMMA AddLoop ==
  ASSUME NEW S, NEW s \in Seq(S), NEW t \in Seq(S), NEW q, Adding(q, s, t)
  PROVE  q[Len(t)] = s \o t
<1>0. q[0] = s /\ \A n \in 1..Len(t) : q[n] = Append(q[n - 1], t[n]) BY DEF Adding
<1>1. PICK N \in Nat : N = Len(t) OBVIOUS
<1>2. PICK m \in Nat : m = Len(s) OBVIOUS
<1> DEFINE Good(n) == /\ q[n] \in Seq(S) /\ Len(q[n]) = m + n
                      /\ \A i \in 1..(m + n) : q[n][i] = IF i <= m THEN s[i] ELSE t[i - m]
<1>3. PICK P : P = [n \in 0..N |-> Good(n)] OBVIOUS
<1>4. P[0] = TRUE
  <2>1. Good(0) BY <1>0, <1>2
  <2> QED BY <1>3, <2>1
<1>5. ASSUME NEW n \in 1..N, P[n - 1] = TRUE PROVE P[n] = TRUE
  <2>0. n - 1 \in 0..N /\ n \in 0..N /\ n \in 1..Len(t) BY <1>1
  <2>1. Good(n - 1) BY <1>3, <1>5, <2>0
  <2>2. PICK u \in Seq(S) : u = q[n - 1] /\ Len(u) = m + (n - 1) BY <2>1
  <2>3. q[n] = Append(u, t[n]) /\ t[n] \in S BY <1>0, <2>0, <2>2
  <2>4. /\ q[n] \in Seq(S) /\ Len(q[n]) = Len(u) + 1
        /\ \A i \in 1..Len(u) : q[n][i] = u[i]
        /\ q[n][Len(u) + 1] = t[n]
    BY <2>3, AppendProperties
  <2>5. Len(q[n]) = m + n BY <2>2, <2>4
  <2>6. ASSUME NEW i \in 1..(m + n) PROVE q[n][i] = IF i <= m THEN s[i] ELSE t[i - m]
    <3>1. CASE i = m + n
      <4>1. i = Len(u) + 1 /\ ~(i <= m) /\ i - m = n BY <2>0, <2>2, <3>1
      <4> QED BY <2>4, <4>1
    <3>2. CASE i # m + n
      <4>1. i \in 1..(m + (n - 1)) /\ i \in 1..Len(u) BY <2>2, <3>2
      <4> QED BY <2>1, <2>2, <2>4, <4>1
    <3> QED BY <3>1, <3>2
  <2>7. Good(n) BY <2>4, <2>5, <2>6
  <2> HIDE DEF Good
  <2> QED BY <1>3, <2>0, <2>7
<1>6. P[N] = TRUE
  <2>1. \A n \in 0..N : P[n] = TRUE BY <1>4, <1>5, Turns
  <2> QED BY <2>1
<1>7. Good(N) BY <1>3, <1>6
<1>8. /\ s \o t \in Seq(S) /\ Len(s \o t) = m + N
      /\ \A i \in 1..(m + N) : (s \o t)[i] = IF i <= m THEN s[i] ELSE t[i - m]
  BY <1>1, <1>2, ConcatProperties
<1>9. PICK u : u = s \o t OBVIOUS
<1>10. \A i \in 1..(m + N) : q[N][i] = u[i] BY <1>7, <1>8, <1>9
<1>11. q[N] = u BY <1>7, <1>8, <1>9, <1>10, SequenceEqual
<1> QED BY <1>1, <1>9, <1>11

\* Taking some of the items of s, those at the indices of K
Taking(q, s, K) ==
  q[0] = << >> /\ \A n \in 1..Len(s) : q[n] = IF n \in K THEN Append(q[n - 1], s[n]) ELSE q[n - 1]

LEMMA TakeLoop ==
  ASSUME NEW S, NEW s \in Seq(S), NEW K, K \subseteq 1..Len(s), NEW q, Taking(q, s, K)
  PROVE  q[Len(s)] \in Abstract!Choice(s, K)
<1>0. q[0] = << >> /\ \A n \in 1..Len(s) : q[n] = IF n \in K THEN Append(q[n - 1], s[n]) ELSE q[n - 1] BY DEF Taking
<1>1. PICK N \in Nat : N = Len(s) OBVIOUS
<1>2. PICK P : P = [n \in 0..N |-> q[n] \in Abstract!Choice(s, {i \in 1..n : i \in K})] OBVIOUS
<1>3. P[0] = TRUE
  <2>1. {i \in 1..0 : i \in K} = {} OBVIOUS
  <2>2. P[0] = (q[0] \in Abstract!Choice(s, {i \in 1..0 : i \in K})) BY <1>2
  <2>3. q[0] \in Abstract!Choice(s, {}) BY <1>0, ChoiceOfNone
  <2> QED BY <1>0, <2>1, <2>2, <2>3
<1>4. ASSUME NEW n \in 1..N, P[n - 1] = TRUE PROVE P[n] = TRUE
  <2>0. n - 1 \in 0..N /\ n \in 0..N /\ n \in 1..Len(s) BY <1>1
  <2>1. PICK I : I = {i \in 1..(n - 1) : i \in K} OBVIOUS
  <2>2. q[n - 1] \in Abstract!Choice(s, I)
    <3>1. P[n - 1] = (q[n - 1] \in Abstract!Choice(s, {i \in 1..(n - 1) : i \in K})) BY <1>2, <2>0
    <3> QED BY <1>4, <2>1, <3>1
  <2>3. PICK J : J = {i \in 1..n : i \in K} OBVIOUS
  <2>4. q[n] \in Abstract!Choice(s, J)
    <3>1. CASE n \in K
      <4>1. J = I \cup {n} BY <2>1, <2>3, <3>1
      <4>2. I \subseteq 1..(n - 1) BY <2>1
      <4>3. Append(q[n - 1], s[n]) \in Abstract!Choice(s, I \cup {n}) BY <2>0, <2>2, <4>2, ChoiceAppends
      <4> QED BY <1>0, <2>0, <3>1, <4>1, <4>3
    <3>2. CASE n \notin K
      <4>1. J = I BY <2>1, <2>3, <3>2
      <4> QED BY <1>0, <2>0, <2>2, <3>2, <4>1
    <3> QED BY <3>1, <3>2
  <2>5. P[n] = (q[n] \in Abstract!Choice(s, {i \in 1..n : i \in K})) BY <1>2, <2>0
  <2> QED BY <2>3, <2>4, <2>5
<1>5. \A n \in 0..N : P[n] = TRUE BY <1>3, <1>4, Turns
<1>6. {i \in 1..N : i \in K} = K BY <1>1
<1>7. P[N] = (q[N] \in Abstract!Choice(s, {i \in 1..N : i \in K})) BY <1>2
<1>8. P[N] = TRUE BY <1>5
<1> QED BY <1>1, <1>6, <1>7, <1>8

-----------------------------------------------------------------------------
\* Kept(s, n, drop): the indices of s up to n, and those past n whose items are not to be dropped.
Kept(s, n, drop) == {i \in 1..Len(s) : i <= n \/ s[i] \notin drop}

\* What the loop has left when it has still n places to look at.
Left(s, n, drop, r) ==
  \E f \in Abstract!Rising(Kept(s, n, drop)) :
    /\ r = [k \in 1..Cardinality(Kept(s, n, drop)) |-> s[f[k]]]
    /\ n <= Cardinality(Kept(s, n, drop))
    /\ \A k \in 1..n : f[k] = k

LEMMA KeptIs ==
  ASSUME NEW S, NEW s \in Seq(S), NEW n \in 0..Len(s), NEW drop
  PROVE  /\ Kept(s, n, drop) \subseteq 1..Len(s) /\ IsFiniteSet(Kept(s, n, drop))
         /\ Cardinality(Kept(s, n, drop)) \in Nat /\ n <= Cardinality(Kept(s, n, drop))
<1>1. Len(s) \in Nat OBVIOUS
<1>2. Kept(s, n, drop) \subseteq 1..Len(s) BY DEF Kept
<1>3. IsFiniteSet(1..Len(s)) BY <1>1, FS_Interval
<1>4. IsFiniteSet(Kept(s, n, drop)) BY <1>2, <1>3, FS_Subset
<1>5. 1..n \subseteq Kept(s, n, drop) BY <1>1 DEF Kept
<1>6. IsFiniteSet(1..n) /\ Cardinality(1..n) = n
  <2>1. IsFiniteSet(1..n) /\ Cardinality(1..n) = (IF 1 > n THEN 0 ELSE n - 1 + 1) BY <1>1, FS_Interval
  <2>2. n \in Nat BY <1>1
  <2> QED BY <2>1, <2>2
<1>7. Cardinality(1..n) <= Cardinality(Kept(s, n, drop)) BY <1>4, <1>5, FS_Subset
<1> QED BY <1>2, <1>4, <1>6, <1>7, FS_CardinalityType

LEMMA LeftType ==
  ASSUME NEW S, NEW s \in Seq(S), NEW n \in 0..Len(s), NEW drop, NEW r, Left(s, n, drop, r)
  PROVE  /\ r \in Seq(S) /\ n <= Len(r) /\ \A k \in 1..n : r[k] = s[k]
         /\ Len(r) = Cardinality(Kept(s, n, drop))
         /\ r \in Abstract!Choice(s, Kept(s, n, drop))
<1>1. PICK I : I = Kept(s, n, drop) OBVIOUS
<1>2. PICK c : c = Cardinality(I) OBVIOUS
<1>3. I \subseteq 1..Len(s) /\ c \in Nat /\ n <= c BY <1>1, <1>2, KeptIs
<1>4. PICK f \in Abstract!Rising(I) : r = [k \in 1..c |-> s[f[k]]] /\ \A k \in 1..n : f[k] = k
  BY <1>1, <1>2 DEF Left
<1>5. r \in Abstract!Choice(s, I) BY <1>2, <1>4, ChoiceIs
<1>6. r \in Seq(S) /\ Len(r) = c BY <1>2, <1>3, <1>5, ChoiceType
<1>7. \A k \in 1..n : r[k] = s[k] BY <1>3, <1>4
<1> QED BY <1>1, <1>2, <1>3, <1>5, <1>6, <1>7

LEMMA LeftAll ==
  ASSUME NEW S, NEW s \in Seq(S), NEW drop
  PROVE  Left(s, Len(s), drop, s)
<1>1. PICK N \in Nat : N = Len(s) OBVIOUS
<1>2. Kept(s, N, drop) = 1..N BY <1>1 DEF Kept
<1>3. Cardinality(1..N) = N
  <2>1. Cardinality(1..N) = (IF 1 > N THEN 0 ELSE N - 1 + 1)
    <3>1. 1 \in Int /\ N \in Int BY <1>1
    <3> QED BY ONLY <3>1, FS_Interval
  <2> QED BY <1>1, <2>1
<1>4. PICK f : f = [k \in 1..N |-> k] OBVIOUS
<1>5. f \in [1..N -> 1..N] /\ \A j, k \in 1..N : j < k => f[j] < f[k] BY <1>4
<1>6. f \in Abstract!Rising(1..N) BY <1>3, <1>5, RisingIs
<1>7. s = [k \in 1..N |-> s[f[k]]]
  <2>1. s = [k \in 1..N |-> s[k]] BY <1>1
  <2> QED BY <1>4, <2>1
<1>8. \A k \in 1..N : f[k] = k BY <1>4
<1> QED BY <1>1, <1>2, <1>3, <1>6, <1>7, <1>8 DEF Left

LEMMA LeftRemoves ==
  ASSUME NEW S, NEW s \in Seq(S), NEW n \in 1..Len(s), NEW drop, NEW r, Left(s, n, drop, r)
  PROVE  Left(s, n - 1, drop, IF r[n] \in drop THEN RemoveAt(r, n) ELSE r)
<1>0. n \in 0..Len(s) /\ Len(s) \in Nat /\ n - 1 \in 0..Len(s) OBVIOUS
<1>1. PICK I : I = Kept(s, n, drop) OBVIOUS
<1>2. PICK c : c = Cardinality(I) OBVIOUS
<1>3. I \subseteq 1..Len(s) /\ c \in Nat /\ n <= c /\ IsFiniteSet(I) BY <1>0, <1>1, <1>2, KeptIs
<1>4. PICK f \in Abstract!Rising(I) : r = [k \in 1..c |-> s[f[k]]] /\ \A k \in 1..n : f[k] = k
  BY <1>1, <1>2 DEF Left
<1>5. r \in Seq(S) /\ Len(r) = c /\ r[n] = s[n]
  BY <1>0, <1>1, <1>2, LeftType
<1>6. PICK J : J = Kept(s, n - 1, drop) OBVIOUS
<1>7. CASE r[n] \in drop
  <2>1. J = I \ {n} BY <1>0, <1>1, <1>5, <1>6, <1>7 DEF Kept
  <2>2. PICK h : h = [k \in 1..(c - 1) |-> IF k < n THEN f[k] ELSE f[k + 1]] OBVIOUS
  <2>3. n \in 1..c /\ I \subseteq Nat BY <1>0, <1>3
  <2>4. /\ Cardinality(I \ {n}) = c - 1
        /\ h \in Abstract!Rising(I \ {n})
        /\ \A k \in 1..(n - 1) : h[k] = k
    <3>1. \A k \in 1..n : f[k] = k BY <1>4
    <3>2. f \in Abstract!Rising(I) /\ c = Cardinality(I) /\ IsFiniteSet(I) /\ I \subseteq Nat BY <1>2, <1>3, <1>4, <2>3
    <3>3. Fixed(f, n) /\ h = Closed(f, n, c) BY <2>2, <3>1 DEF Fixed, Closed
    <3>4. Cardinality(I \ {n}) = c - 1 /\ h \in Abstract!Rising(I \ {n}) /\ Fixed(h, n - 1)
      BY ONLY <3>2, <3>3, <2>3, RisingRemoves
    <3> QED BY <3>4 DEF Fixed
  <2>5. PICK u : u = RemoveAt(r, n) OBVIOUS
  <2>6. u \in Seq(S) /\ Len(u) = c - 1 /\ \A j \in 1..(c - 1) : u[j] = IF j < n THEN r[j] ELSE r[j + 1]
    BY <1>5, <2>3, <2>5, RemoveAtIndex
  <2>7. \A j \in 1..(c - 1) : u[j] = s[h[j]]
    <3> TAKE j \in 1..(c - 1)
    <3>1. j \in 1..c /\ j + 1 \in 1..c BY <1>3
    <3>2. CASE j < n
      <4>1. h[j] = f[j] BY <2>2, <3>2
      <4> QED BY <1>4, <2>6, <3>1, <3>2, <4>1
    <3>3. CASE ~(j < n)
      <4>1. h[j] = f[j + 1] BY <2>2, <3>3
      <4> QED BY <1>4, <2>6, <3>1, <3>3, <4>1
    <3> QED BY <3>2, <3>3
  <2>8. u = [k \in 1..(c - 1) |-> s[h[k]]]
    <3>1. u = [k \in 1..(c - 1) |-> u[k]] BY <2>6
    <3> QED BY <2>7, <3>1
  <2>9. n - 1 <= c - 1 BY <1>0, <1>3
  <2>10. Cardinality(J) = c - 1 /\ h \in Abstract!Rising(J) BY <2>1, <2>4
  <2>11. Left(s, n - 1, drop, u)
    <3>1. u = [k \in 1..Cardinality(J) |-> s[h[k]]] /\ n - 1 <= Cardinality(J) BY <2>8, <2>9, <2>10
    <3> QED BY <1>6, <2>4, <2>10, <3>1 DEF Left
  <2> QED BY <1>7, <2>5, <2>11
<1>8. CASE r[n] \notin drop
  <2>1. J = I BY <1>0, <1>1, <1>5, <1>6, <1>8 DEF Kept
  <2>2. n - 1 <= c /\ \A k \in 1..(n - 1) : f[k] = k BY <1>0, <1>3, <1>4
  <2>3. Left(s, n - 1, drop, r) BY <1>2, <1>4, <1>6, <2>1, <2>2 DEF Left
  <2> QED BY <1>8, <2>3
<1> QED BY <1>7, <1>8

\* Deleting, from the last item down, those of a set.
Outside(s, drop) == {i \in 1..Len(s) : s[i] \notin drop}
Dropping(q, s, N, drop) ==
  /\ q[0] = s
  /\ \A n \in 1..N : q[n] = IF q[n - 1][N - n + 1] \in drop THEN RemoveAt(q[n - 1], N - n + 1) ELSE q[n - 1]

LEMMA DeleteLoop ==
  ASSUME NEW S, NEW s \in Seq(S), NEW N, N = Len(s), NEW drop, NEW q, Dropping(q, s, N, drop)
  PROVE  q[N] \in Abstract!Choice(s, Outside(s, drop))
<1>0. /\ q[0] = s
      /\ \A n \in 1..N : q[n] = IF q[n - 1][N - n + 1] \in drop THEN RemoveAt(q[n - 1], N - n + 1) ELSE q[n - 1]
  BY DEF Dropping
<1>1. N \in Nat OBVIOUS
<1>2. PICK P : P = [n \in 0..N |-> Left(s, N - n, drop, q[n])] OBVIOUS
<1>3. P[0] = TRUE
  <2>1. Left(s, N, drop, q[0]) BY <1>0, LeftAll
  <2>2. N - 0 = N BY <1>1
  <2>3. P[0] = Left(s, N - 0, drop, q[0]) BY <1>1, <1>2
  <2> QED BY <2>1, <2>2, <2>3
<1>4. ASSUME NEW n \in 1..N, P[n - 1] = TRUE PROVE P[n] = TRUE
  <2>0. n - 1 \in 0..N /\ n \in 0..N /\ N - (n - 1) = N - n + 1 /\ N - n + 1 \in 1..Len(s) /\ N - n + 1 - 1 = N - n BY <1>1
  <2>1. PICK m : m = N - n + 1 OBVIOUS
  <2>2. P[n - 1] = Left(s, N - (n - 1), drop, q[n - 1]) BY <1>2, <2>0
  <2>3. Left(s, m, drop, q[n - 1]) BY <1>4, <2>0, <2>1, <2>2
  <2>4. Left(s, m - 1, drop, IF q[n - 1][m] \in drop THEN RemoveAt(q[n - 1], m) ELSE q[n - 1])
    BY <2>0, <2>1, <2>3, LeftRemoves
  <2>5. Left(s, N - n, drop, q[n]) BY <1>0, <2>0, <2>1, <2>4
  <2>6. P[n] = Left(s, N - n, drop, q[n]) BY <1>2, <2>0
  <2> QED BY <2>5, <2>6
<1>5. \A n \in 0..N : P[n] = TRUE BY <1>1, <1>3, <1>4, Turns
<1>6. Left(s, 0, drop, q[N])
  <2>1. P[N] = Left(s, N - N, drop, q[N]) BY <1>1, <1>2
  <2>2. P[N] = TRUE /\ N - N = 0 BY <1>1, <1>5
  <2> QED BY <2>1, <2>2
<1>7. Kept(s, 0, drop) = Outside(s, drop) BY <1>1 DEF Kept, Outside
<1>8. 0 \in 0..Len(s) BY <1>1
<1>9. PICK r : r = q[N] OBVIOUS
<1>10. r \in Abstract!Choice(s, Kept(s, 0, drop))
  <2>1. Left(s, 0, drop, r) BY <1>6, <1>9
  <2> QED BY <1>8, <2>1, LeftType
<1> QED BY <1>7, <1>9, <1>10

-----------------------------------------------------------------------------
LEMMA HasAppended ==
  ASSUME NEW S, NEW s \in Seq(S), NEW y \in S, NEW x
  PROVE  Abstract!Has(Append(s, y), x) <=> Abstract!Has(s, x) \/ x = y
<1>1. PICK r : r = Append(s, y) OBVIOUS
<1>2. PICK n \in Nat : n = Len(s) OBVIOUS
<1>3. Len(r) = n + 1 /\ r[n + 1] = y /\ \A i \in 1..n : r[i] = s[i] BY <1>1, <1>2, AppendProperties
<1>4. Abstract!Has(r, x) <=> \E i \in 1..(n + 1) : r[i] = x BY <1>3 DEF Abstract!Has
<1>5. Abstract!Has(s, x) <=> \E i \in 1..n : s[i] = x BY <1>2 DEF Abstract!Has
<1>6. ASSUME NEW i \in 1..(n + 1), r[i] = x PROVE (\E j \in 1..n : s[j] = x) \/ x = y
  <2>1. CASE i = n + 1 BY <1>3, <1>6, <2>1
  <2>2. CASE i # n + 1
    <3>1. i \in 1..n BY <2>2
    <3> QED BY <1>3, <1>6, <3>1
  <2> QED BY <2>1, <2>2
<1>7. ASSUME NEW i \in 1..n, s[i] = x PROVE \E j \in 1..(n + 1) : r[j] = x
  <2>1. i \in 1..(n + 1) /\ r[i] = x BY <1>3, <1>7
  <2> QED BY <2>1
<1>8. x = y => \E j \in 1..(n + 1) : r[j] = x
  <2>1. n + 1 \in 1..(n + 1) BY <1>2
  <2> QED BY <1>3, <2>1
<1> QED BY <1>1, <1>4, <1>5, <1>6, <1>7, <1>8

LEMMA ConcatAppends ==
  ASSUME NEW S, NEW s \in Seq(S), NEW u \in Seq(S), NEW y \in S
  PROVE  s \o Append(u, y) = Append(s \o u, y)
<1>1. PICK m \in Nat : m = Len(s) OBVIOUS
<1>2. PICK n \in Nat : n = Len(u) OBVIOUS
<1>3. PICK a : a = Append(u, y) OBVIOUS
<1>4. a \in Seq(S) /\ Len(a) = n + 1 /\ a[n + 1] = y /\ \A i \in 1..n : a[i] = u[i] BY <1>2, <1>3, AppendProperties
<1>5. PICK c : c = s \o u OBVIOUS
<1>6. c \in Seq(S) /\ Len(c) = m + n /\ \A i \in 1..(m + n) : c[i] = IF i <= m THEN s[i] ELSE u[i - m]
  BY <1>1, <1>2, <1>5, ConcatProperties
<1>7. PICK d : d = s \o a OBVIOUS
<1>8. d \in Seq(S) /\ Len(d) = m + n + 1 /\ \A i \in 1..(m + n + 1) : d[i] = IF i <= m THEN s[i] ELSE a[i - m]
  <2>1. PICK k \in Nat : k = n + 1 OBVIOUS
  <2>2. a \in Seq(S) /\ Len(a) = k BY <1>4, <2>1
  <2>3. d \in Seq(S) /\ Len(d) = m + k /\ \A i \in 1..(m + k) : d[i] = IF i <= m THEN s[i] ELSE a[i - m]
    BY <1>1, <1>7, <2>2, ConcatProperties
  <2>4. m + k = m + n + 1 BY <2>1
  <2> QED BY <2>3, <2>4
<1>9. PICK e : e = Append(c, y) OBVIOUS
<1>10. e \in Seq(S) /\ Len(e) = m + n + 1 /\ e[m + n + 1] = y /\ \A i \in 1..(m + n) : e[i] = c[i]
  BY <1>6, <1>9, AppendProperties
<1>11. ASSUME NEW i \in 1..(m + n + 1) PROVE d[i] = e[i]
  <2>1. CASE i = m + n + 1
    <3>1. ~(i <= m) /\ i - m = n + 1 BY <2>1
    <3> QED BY <1>4, <1>8, <1>10, <2>1, <3>1
  <2>2. CASE i # m + n + 1
    <3>1. i \in 1..(m + n) BY <2>2
    <3>2. CASE i <= m BY <1>6, <1>8, <1>10, <3>1, <3>2
    <3>3. CASE ~(i <= m)
      <4>1. i - m \in 1..n BY <3>1, <3>3
      <4> QED BY <1>4, <1>6, <1>8, <1>10, <3>1, <3>3, <4>1
    <3> QED BY <3>2, <3>3
  <2> QED BY <2>1, <2>2
<1>12. d = e BY <1>8, <1>10, <1>11, SequenceEqual
<1> QED BY <1>3, <1>5, <1>7, <1>9, <1>12

\* The items of t that s has not, each where t has it first.
Fresh(s, t) == {i \in 1..Len(t) : ~Abstract!Has(s, t[i]) /\ \A j \in 1..(i - 1) : t[j] # t[i]}
\* What the loop has made of s after n items of t.
Grown(s, t, n, r) ==
  /\ \E u \in Abstract!Choice(t, {i \in 1..n : i \in Fresh(s, t)}) : r = s \o u
  /\ \A x : Abstract!Has(r, x) <=> Abstract!Has(s, x) \/ \E j \in 1..n : t[j] = x

LEMMA GrownType ==
  ASSUME NEW S, NEW s \in Seq(S), NEW t \in Seq(S), NEW n \in 0..Len(t), NEW r, Grown(s, t, n, r)
  PROVE  r \in Seq(S)
<1>1. PICK u \in Abstract!Choice(t, {i \in 1..n : i \in Fresh(s, t)}) : r = s \o u BY DEF Grown
<1>2. PICK I : I = {i \in 1..n : i \in Fresh(s, t)} OBVIOUS
<1>3. I \subseteq 1..Len(t) BY <1>2
<1>4. u \in Seq(S) BY <1>1, <1>2, <1>3, ChoiceType
<1> QED BY <1>1, <1>4, ConcatProperties

LEMMA GrownNone ==
  ASSUME NEW S, NEW s \in Seq(S), NEW t \in Seq(S)
  PROVE  Grown(s, t, 0, s)
<1>1. {i \in 1..0 : i \in Fresh(s, t)} = {} OBVIOUS
<1>2. << >> \in Abstract!Choice(t, {}) BY ChoiceOfNone
<1>3. s = s \o << >> BY ConcatEmptySeq
<1>4. \A x : Abstract!Has(s, x) <=> Abstract!Has(s, x) \/ \E j \in 1..0 : t[j] = x OBVIOUS
<1>5. \E u \in Abstract!Choice(t, {}) : s = s \o u BY <1>2, <1>3
<1> QED BY <1>1, <1>4, <1>5 DEF Grown

LEMMA GrownAdds ==
  ASSUME NEW S, NEW s \in Seq(S), NEW t \in Seq(S), NEW n \in 1..Len(t), NEW r, Grown(s, t, n - 1, r)
  PROVE  Grown(s, t, n, IF Abstract!Has(r, t[n]) THEN r ELSE Append(r, t[n]))
<1>0. Len(t) \in Nat /\ n - 1 \in 0..Len(t) /\ t[n] \in S OBVIOUS
<1>1. PICK F : F = Fresh(s, t) OBVIOUS
<1>2. PICK I : I = {i \in 1..(n - 1) : i \in F} OBVIOUS
<1>3. PICK u \in Abstract!Choice(t, I) : r = s \o u BY <1>1, <1>2 DEF Grown
<1>4. I \subseteq 1..(n - 1) /\ I \subseteq 1..Len(t) BY <1>0, <1>2
<1>5. u \in Seq(S) BY <1>3, <1>4, ChoiceType
<1>6. r \in Seq(S) BY <1>0, GrownType
<1>7. \A x : Abstract!Has(r, x) <=> Abstract!Has(s, x) \/ \E j \in 1..(n - 1) : t[j] = x BY DEF Grown
<1>8. n \in F <=> ~Abstract!Has(r, t[n])
  <2>1. n \in F <=> ~Abstract!Has(s, t[n]) /\ \A j \in 1..(n - 1) : t[j] # t[n] BY <1>1 DEF Fresh
  <2>2. Abstract!Has(r, t[n]) <=> Abstract!Has(s, t[n]) \/ \E j \in 1..(n - 1) : t[j] = t[n] BY <1>7
  <2> QED BY <2>1, <2>2
<1>9. ASSUME NEW x PROVE (\E j \in 1..n : t[j] = x) <=> (\E j \in 1..(n - 1) : t[j] = x) \/ x = t[n]
  <2>1. ASSUME NEW j \in 1..n, t[j] = x PROVE (\E i \in 1..(n - 1) : t[i] = x) \/ x = t[n]
    <3>1. CASE j = n BY <2>1, <3>1
    <3>2. CASE j # n
      <4>1. j \in 1..(n - 1) BY <3>2
      <4> QED BY <2>1, <4>1
    <3> QED BY <3>1, <3>2
  <2>2. ASSUME NEW j \in 1..(n - 1), t[j] = x PROVE \E i \in 1..n : t[i] = x
    <3>1. j \in 1..n BY <1>0
    <3> QED BY <2>2, <3>1
  <2>3. x = t[n] => \E i \in 1..n : t[i] = x
    <3>1. n \in 1..n BY <1>0
    <3> QED BY <3>1
  <2> QED BY <2>1, <2>2, <2>3
<1>10. CASE Abstract!Has(r, t[n])
  <2>1. {i \in 1..n : i \in F} = I
    <3>1. \A i \in 1..n : i \in F => i \in 1..(n - 1)
      <4> TAKE i \in 1..n
      <4>1. i # n => i \in 1..(n - 1) BY <1>0
      <4> QED BY <1>8, <1>10, <4>1
    <3> QED BY <1>0, <1>2, <3>1
  <2>2. \A x : Abstract!Has(r, x) <=> Abstract!Has(s, x) \/ \E j \in 1..n : t[j] = x
    <3> TAKE x
    <3>1. x = t[n] => Abstract!Has(r, x) BY <1>10
    <3> QED BY <1>7, <1>9, <3>1
  <2>3. Grown(s, t, n, r) BY <1>1, <1>3, <2>1, <2>2 DEF Grown
  <2> QED BY <1>10, <2>3
<1>11. CASE ~Abstract!Has(r, t[n])
  <2>1. {i \in 1..n : i \in F} = I \cup {n}
    <3>1. \A i \in 1..n : i = n \/ i \in 1..(n - 1) BY <1>0
    <3>2. n \in F /\ n \in 1..n /\ \A i \in 1..(n - 1) : i \in 1..n BY <1>0, <1>8, <1>11
    <3> QED BY <1>2, <3>1, <3>2
  <2>2. Append(u, t[n]) \in Abstract!Choice(t, I \cup {n}) BY <1>3, <1>4, ChoiceAppends
  <2>3. s \o Append(u, t[n]) = Append(r, t[n]) BY <1>0, <1>3, <1>5, ConcatAppends
  <2>4. PICK e : e = Append(r, t[n]) OBVIOUS
  <2>5. \A x : Abstract!Has(e, x) <=> Abstract!Has(s, x) \/ \E j \in 1..n : t[j] = x
    <3> TAKE x
    <3>1. Abstract!Has(e, x) <=> Abstract!Has(r, x) \/ x = t[n] BY <1>0, <1>6, <2>4, HasAppended
    <3> QED BY <1>7, <1>9, <3>1
  <2>6. \E v \in Abstract!Choice(t, {i \in 1..n : i \in Fresh(s, t)}) : e = s \o v BY <1>1, <2>1, <2>2, <2>3, <2>4
  <2>7. Grown(s, t, n, e) BY <2>5, <2>6 DEF Grown
  <2> QED BY <1>11, <2>4, <2>7
<1> QED BY <1>10, <1>11

\* Adding those of t that are not there yet.
AddingMissing(q, s, t) ==
  /\ q[0] = s
  /\ \A n \in 1..Len(t) : q[n] = IF Abstract!Has(q[n - 1], t[n]) THEN q[n - 1] ELSE Append(q[n - 1], t[n])

LEMMA AddMissingLoop ==
  ASSUME NEW S, NEW s \in Seq(S), NEW t \in Seq(S), NEW q, AddingMissing(q, s, t)
  PROVE  q[Len(t)] \in Abstract!Assigned("laOr", s, t)
<1>1. PICK N \in Nat : N = Len(t) OBVIOUS
<1>2. PICK P : P = [n \in 0..N |-> Grown(s, t, n, q[n])] OBVIOUS
<1>3. P[0] = TRUE
  <2>1. Grown(s, t, 0, q[0]) BY GrownNone DEF AddingMissing
  <2> QED BY <1>2, <2>1
<1>4. ASSUME NEW n \in 1..N, P[n - 1] = TRUE PROVE P[n] = TRUE
  <2>0. n - 1 \in 0..N /\ n \in 0..N /\ n \in 1..Len(t) BY <1>1
  <2>1. Grown(s, t, n - 1, q[n - 1]) BY <1>2, <1>4, <2>0
  <2>2. Grown(s, t, n, IF Abstract!Has(q[n - 1], t[n]) THEN q[n - 1] ELSE Append(q[n - 1], t[n])) BY <2>0, <2>1, GrownAdds
  <2>3. Grown(s, t, n, q[n]) BY <2>0, <2>2 DEF AddingMissing
  <2> QED BY <1>2, <2>0, <2>3
<1>5. \A n \in 0..N : P[n] = TRUE BY <1>3, <1>4, Turns
<1>6. Grown(s, t, N, q[N]) BY <1>2, <1>5
<1>7. PICK u \in Abstract!Choice(t, {i \in 1..N : i \in Fresh(s, t)}) : q[N] = s \o u BY <1>6 DEF Grown
<1>8. {i \in 1..N : i \in Fresh(s, t)} = Fresh(s, t) BY <1>1 DEF Fresh
<1>9. u \in Abstract!Added(t, s) BY <1>7, <1>8 DEF Abstract!Added, Fresh
<1>10. q[N] \in {s \o v : v \in Abstract!Added(t, s)} BY <1>7, <1>9
<1>11. Abstract!Assigned("laOr", s, t) = {s \o v : v \in Abstract!Added(t, s)} BY DEF Abstract!Assigned
<1> QED BY <1>1, <1>10, <1>11

-----------------------------------------------------------------------------
\* CList::Delete, from the last index down, of the items of a set
LEMMA DeleteItemsDrops ==
  ASSUME NEW l \in Block, NEW drop, NEW s, s = Contents(l)
  PROVE  /\ DeleteItems(l, drop) \in Block
         /\ Contents(DeleteItems(l, drop)) \in Abstract!Choice(s, Outside(s, drop))
<1>1. PICK N \in Nat : N = l.count /\ N = Len(s) BY ContentsAre
<1>2. PICK T : T = [n \in 0..N |-> {w \in Block : w.count >= N - n}] OBVIOUS
<1>3. l \in T[0] BY <1>1, <1>2
<1>4. ASSUME NEW n \in 1..N, NEW w \in T[n - 1]
      PROVE  /\ (IF w.cells[N - n] \in drop THEN ListDelete(w, N - n) ELSE w) \in T[n]
             /\ w \in Block /\ N - n \in 0..(w.count - 1)
             /\ Contents(w) \in Seq(Int) /\ N - n + 1 \in 1..Len(Contents(w))
             /\ w.cells[N - n] = Contents(w)[N - n + 1]
  <2>1. n - 1 \in 0..N /\ n \in 0..N OBVIOUS
  <2>2. w \in Block /\ w.count >= N - (n - 1) BY <1>2, <2>1
  <2>3. w.count \in Nat BY <2>2, ContentsAre
  <2>4. N - n \in 0..(w.count - 1) BY <2>1, <2>2, <2>3
  <2>5. CloseCell(w, N - n) \in Block /\ CloseCell(w, N - n).count = w.count - 1 BY <2>2, <2>4, DeleteRemoves
  <2>6. PICK d : d = ListDelete(w, N - n) OBVIOUS
  <2>7. d \in Block /\ d.count >= N - n BY <2>1, <2>2, <2>3, <2>5, <2>6 DEF ListDelete
  <2>8. d \in T[n] /\ w \in T[n] BY <1>2, <2>1, <2>2, <2>3, <2>7
  <2>9. Contents(w) \in Seq(Int) /\ Len(Contents(w)) = w.count BY <2>2, ContentsAre
  <2>10. N - n + 1 \in 1..w.count /\ (N - n + 1) - 1 = N - n BY <2>3, <2>4
  <2>11. w.cells[N - n] = Contents(w)[N - n + 1] BY <2>10 DEF Contents
  <2> QED BY <2>2, <2>4, <2>6, <2>8, <2>9, <2>10, <2>11
<1>5. PICK step : step = [n \in 1..N |-> [w \in T[n - 1] |-> IF w.cells[N - n] \in drop THEN ListDelete(w, N - n) ELSE w]] OBVIOUS
<1>6. \A n \in 1..N : \A w \in T[n - 1] : step[n][w] = (IF w.cells[N - n] \in drop THEN ListDelete(w, N - n) ELSE w) BY <1>5
<1>7. Typed(N, T, l, step) BY <1>3, <1>4, <1>6 DEF Typed
<1>8. PICK f : Loop(f, N, T, l, step) BY <1>7, LoopIs
<1>9. f = [n \in 0..N |-> IF n = 0 THEN l ELSE IF f[n - 1].cells[N - n] \in drop THEN ListDelete(f[n - 1], N - n) ELSE f[n - 1]]
  <2>1. \A n \in 0..N : f[n] = IF n = 0 THEN l ELSE IF f[n - 1].cells[N - n] \in drop THEN ListDelete(f[n - 1], N - n) ELSE f[n - 1]
    <3> TAKE n \in 0..N
    <3>2. n # 0 => n \in 1..N /\ n - 1 \in 0..N OBVIOUS
    <3>1. f[n] = IF n = 0 THEN l ELSE step[n][f[n - 1]] BY <1>8, <3>2 DEF Loop
    <3>3. n # 0 => f[n - 1] \in T[n - 1] BY <1>8, <3>2 DEF Loop
    <3> QED BY <1>6, <3>1, <3>2, <3>3
  <2>2. f = [n \in 0..N |-> f[n]] BY <1>8 DEF Loop
  <2> QED BY <2>1, <2>2
<1>10. PICK left : /\ left = [n \in 0..N |-> IF n = 0 THEN l ELSE IF left[n - 1].cells[N - n] \in drop THEN ListDelete(left[n - 1], N - n) ELSE left[n - 1]]
                   /\ DeleteItems(l, drop) = left[N]
  BY <1>1, <1>9, ZenonT(40) DEF DeleteItems
<1>11. left[0] = l /\ \A n \in 1..N : left[n] = IF left[n - 1].cells[N - n] \in drop THEN ListDelete(left[n - 1], N - n) ELSE left[n - 1]
  BY <1>10
<1>12. \A n \in 0..N : left[n] \in T[n]
  <2>1. Keeps(left, N, T) BY <1>3, <1>4, <1>11 DEF Keeps
  <2> QED BY <2>1, KeepsAll
<1>13. PICK q : q = [n \in 0..N |-> Contents(left[n])] OBVIOUS
<1>14. q[0] = s BY <1>11, <1>13
<1>15. ASSUME NEW n \in 1..N
       PROVE  q[n] = IF q[n - 1][N - n + 1] \in drop THEN RemoveAt(q[n - 1], N - n + 1) ELSE q[n - 1]
  <2>1. n - 1 \in 0..N /\ n \in 0..N OBVIOUS
  <2>2. PICK w \in T[n - 1] : w = left[n - 1] BY <1>12, <2>1
  <2>3. /\ w \in Block /\ N - n \in 0..(w.count - 1)
        /\ w.cells[N - n] = Contents(w)[N - n + 1]
    BY <1>4
  <2>4. q[n - 1] = Contents(w) BY <1>13, <2>1, <2>2
  <2>5. left[n] = IF w.cells[N - n] \in drop THEN ListDelete(w, N - n) ELSE w BY <1>11, <2>2
  <2>6. q[n] = Contents(left[n]) BY <1>13, <2>1
  <2>7. Contents(CloseCell(w, N - n)) = RemoveAt(Contents(w), N - n + 1) BY <2>3, DeleteRemoves
  <2> QED BY <2>3, <2>4, <2>5, <2>6, <2>7 DEF ListDelete
<1>16. s \in Seq(Int) BY ContentsAre
<1>17. q[N] \in Abstract!Choice(s, Outside(s, drop))
  <2>1. Dropping(q, s, N, drop) BY <1>14, <1>15 DEF Dropping
  <2>2. N = Len(s) BY <1>1
  <2> QED BY ONLY <1>16, <2>1, <2>2, DeleteLoop
<1>18. q[N] = Contents(left[N]) /\ left[N] \in Block BY <1>2, <1>12, <1>13
<1> QED BY <1>10, <1>17, <1>18

-----------------------------------------------------------------------------
\* CList::Add, of each item of another list
LEMMA AddAllConcats ==
  ASSUME NEW l \in Block, NEW s \in Seq(Int)
  PROVE  AddAll(l, s) \in Block /\ Contents(AddAll(l, s)) = Contents(l) \o s
<1>1. PICK N \in Nat : N = Len(s) /\ \A n \in 1..N : s[n] \in Int OBVIOUS
<1>2. PICK T : T = [n \in 0..N |-> Block] OBVIOUS
<1>3. \A n \in 1..N : T[n - 1] = Block /\ T[n] = Block BY <1>2
<1>4. T[0] = Block BY <1>1, <1>2
<1>5. PICK step : step = [n \in 1..N |-> [w \in Block |-> ListAdd(w, s[n])]] OBVIOUS
<1>6. \A n \in 1..N : \A w \in Block : step[n][w] = ListAdd(w, s[n]) /\ ListAdd(w, s[n]) \in Block BY <1>1, <1>5, AddAppends
<1>7. Typed(N, T, l, step) BY <1>3, <1>4, <1>6 DEF Typed
<1>8. PICK f : Loop(f, N, T, l, step) BY <1>7, LoopIs
<1>9. f = [n \in 0..N |-> IF n = 0 THEN l ELSE ListAdd(f[n - 1], s[n])]
  <2>1. \A n \in 0..N : f[n] = IF n = 0 THEN l ELSE ListAdd(f[n - 1], s[n])
    <3> TAKE n \in 0..N
    <3>1. n # 0 => n \in 1..N /\ n - 1 \in 0..N OBVIOUS
    <3>2. f[n] = IF n = 0 THEN l ELSE step[n][f[n - 1]] BY <1>8, <3>1 DEF Loop
    <3>3. n # 0 => f[n - 1] \in Block BY <1>3, <1>8, <3>1 DEF Loop
    <3> QED BY <1>6, <3>1, <3>2, <3>3
  <2>2. f = [n \in 0..N |-> f[n]] BY <1>8 DEF Loop
  <2> QED BY <2>1, <2>2
<1>10. PICK more : /\ more = [n \in 0..N |-> IF n = 0 THEN l ELSE ListAdd(more[n - 1], s[n])]
                   /\ AddAll(l, s) = more[N]
  BY <1>1, <1>9 DEF AddAll
<1>11. more[0] = l /\ \A n \in 1..N : more[n] = ListAdd(more[n - 1], s[n]) BY <1>10
<1>12. \A n \in 0..N : more[n] \in Block
  <2>1. Keeps(more, N, T) BY <1>3, <1>4, <1>6, <1>11 DEF Keeps
  <2> QED BY <1>2, <2>1, KeepsAll
<1>13. PICK q : q = [n \in 0..N |-> Contents(more[n])] OBVIOUS
<1>14. Adding(q, Contents(l), s)
  <2>1. q[0] = Contents(l) BY <1>11, <1>13
  <2>2. ASSUME NEW n \in 1..N PROVE q[n] = Append(q[n - 1], s[n])
    <3>1. n - 1 \in 0..N /\ n \in 0..N OBVIOUS
    <3>2. Contents(ListAdd(more[n - 1], s[n])) = Append(Contents(more[n - 1]), s[n])
      <4>1. more[n - 1] \in Block /\ s[n] \in Int BY <1>1, <1>12, <3>1
      <4> QED BY <4>1, AddAppends
    <3> QED BY <1>11, <1>13, <3>1, <3>2
  <2> QED BY <1>1, <2>1, <2>2 DEF Adding
<1>15. q[N] = Contents(l) \o s BY <1>1, <1>14, AddLoop, ContentsAre
<1> QED BY <1>10, <1>12, <1>13, <1>15

LEMMA FirstIsHas ==
  ASSUME NEW S, NEW s \in Seq(S), NEW x, NEW k, First(s, x, k)
  PROVE  (k = -1 <=> ~Abstract!Has(s, x)) /\ (k >= 0 <=> Abstract!Has(s, x)) /\ k = Abstract!IndexIn(s, x)
         /\ (k >= 0 => k \in 0..(Len(s) - 1))
<1>1. First(s, x, Abstract!IndexIn(s, x)) /\ (Abstract!Has(s, x) <=> Abstract!IndexIn(s, x) >= 0) BY IndexInIsFirst
<1>2. k = Abstract!IndexIn(s, x) BY <1>1, FirstIsOne
<1>3. k = -1 \/ k \in 0..(Len(s) - 1) BY DEF First
<1> QED BY <1>1, <1>2, <1>3

\* CList::Add, of each item of another list that this one has not
LEMMA AddMissingJoins ==
  ASSUME NEW l \in Block, NEW s \in Seq(Int)
  PROVE  AddMissing(l, s) \in Block /\ Contents(AddMissing(l, s)) \in Abstract!Assigned("laOr", Contents(l), s)
<1>1. PICK N \in Nat : N = Len(s) /\ \A n \in 1..N : s[n] \in Int OBVIOUS
<1>2. PICK T : T = [n \in 0..N |-> Block] OBVIOUS
<1>3. \A n \in 1..N : T[n - 1] = Block /\ T[n] = Block BY <1>2
<1>4. T[0] = Block BY <1>1, <1>2
<1>5. PICK step : step = [n \in 1..N |-> [w \in Block |-> IF ListIndexOf(w, s[n]) = -1 THEN ListAdd(w, s[n]) ELSE w]] OBVIOUS
<1>6. \A n \in 1..N : \A w \in Block : /\ step[n][w] = IF ListIndexOf(w, s[n]) = -1 THEN ListAdd(w, s[n]) ELSE w
                                       /\ ListAdd(w, s[n]) \in Block
  BY <1>1, <1>5, AddAppends
<1>7. Typed(N, T, l, step)
  <2>1. \A n \in 1..N : \A w \in Block : step[n][w] \in Block BY <1>6
  <2> QED BY <1>3, <1>4, <2>1 DEF Typed
<1>8. PICK f : Loop(f, N, T, l, step) BY <1>7, LoopIs
<1>9. f = [n \in 0..N |-> IF n = 0 THEN l ELSE IF ListIndexOf(f[n - 1], s[n]) = -1 THEN ListAdd(f[n - 1], s[n]) ELSE f[n - 1]]
  <2>1. \A n \in 0..N : f[n] = IF n = 0 THEN l ELSE IF ListIndexOf(f[n - 1], s[n]) = -1 THEN ListAdd(f[n - 1], s[n]) ELSE f[n - 1]
    <3> TAKE n \in 0..N
    <3>1. n # 0 => n \in 1..N /\ n - 1 \in 0..N OBVIOUS
    <3>2. f[n] = IF n = 0 THEN l ELSE step[n][f[n - 1]] BY <1>8, <3>1 DEF Loop
    <3>3. n # 0 => f[n - 1] \in Block BY <1>3, <1>8, <3>1 DEF Loop
    <3> QED BY <1>6, <3>1, <3>2, <3>3
  <2>2. f = [n \in 0..N |-> f[n]] BY <1>8 DEF Loop
  <2> QED BY <2>1, <2>2
<1>10. PICK more : /\ more = [n \in 0..N |-> IF n = 0 THEN l ELSE IF ListIndexOf(more[n - 1], s[n]) = -1 THEN ListAdd(more[n - 1], s[n]) ELSE more[n - 1]]
                   /\ AddMissing(l, s) = more[N]
  BY <1>1, <1>9 DEF AddMissing
<1>11. more[0] = l /\ \A n \in 1..N : more[n] = IF ListIndexOf(more[n - 1], s[n]) = -1 THEN ListAdd(more[n - 1], s[n]) ELSE more[n - 1]
  BY <1>10, SMTT(20)
<1>12. \A n \in 0..N : more[n] \in Block
  <2>1. \A n \in 1..N : more[n - 1] \in Block => more[n] \in Block BY <1>6, <1>11
  <2>2. Keeps(more, N, T) BY <1>3, <1>4, <1>11, <2>1 DEF Keeps
  <2> QED BY <1>2, <2>2, KeepsAll
<1>13. PICK q : q = [n \in 0..N |-> Contents(more[n])] OBVIOUS
<1>14. AddingMissing(q, Contents(l), s)
  <2>1. q[0] = Contents(l) BY <1>11, <1>13
  <2>2. ASSUME NEW n \in 1..N PROVE q[n] = IF Abstract!Has(q[n - 1], s[n]) THEN q[n - 1] ELSE Append(q[n - 1], s[n])
    <3>1. n - 1 \in 0..N /\ n \in 0..N OBVIOUS
    <3>2. PICK w \in Block : w = more[n - 1] BY <1>12, <3>1
    <3>3. Contents(ListAdd(w, s[n])) = Append(Contents(w), s[n]) BY <1>1, AddAppends
    <3>4. ListIndexOf(w, s[n]) = -1 <=> ~Abstract!Has(Contents(w), s[n])
      <4>1. Contents(w) \in Seq(Int) /\ First(Contents(w), s[n], ListIndexOf(w, s[n])) BY ContentsAre, IndexOfIsFirst
      <4> QED BY <4>1, FirstIsHas
    <3>5. q[n - 1] = Contents(w) /\ q[n] = Contents(more[n]) BY <1>13, <3>1, <3>2
    <3>6. more[n] = IF ListIndexOf(w, s[n]) = -1 THEN ListAdd(w, s[n]) ELSE w BY <1>11, <3>2
    <3> QED BY <3>3, <3>4, <3>5, <3>6
  <2> QED BY <1>1, <2>1, <2>2 DEF AddingMissing
<1>15. q[N] \in Abstract!Assigned("laOr", Contents(l), s) BY <1>1, <1>14, AddMissingLoop, ContentsAre
<1> QED BY <1>10, <1>12, <1>13, <1>15

\* LTemp of laXor and laDestUnique
LEMMA MissingTakes ==
  ASSUME NEW l \in Block, NEW s \in Seq(Int)
  PROVE  Missing(l, s) \in Abstract!Without(s, Contents(l)) /\ Missing(l, s) \in Seq(Int)
<1>1. PICK N \in Nat : N = Len(s) /\ \A n \in 1..N : s[n] \in Int OBVIOUS
<1>2. PICK T : T = [n \in 0..N |-> Seq(Int)] OBVIOUS
<1>3. \A n \in 1..N : T[n - 1] = Seq(Int) /\ T[n] = Seq(Int) BY <1>2
<1>4. T[0] = Seq(Int) /\ << >> \in Seq(Int) BY <1>1, <1>2
<1>5. PICK step : step = [n \in 1..N |-> [r \in Seq(Int) |-> IF ListIndexOf(l, s[n]) = -1 THEN Append(r, s[n]) ELSE r]] OBVIOUS
<1>6. \A n \in 1..N : \A r \in Seq(Int) : /\ step[n][r] = IF ListIndexOf(l, s[n]) = -1 THEN Append(r, s[n]) ELSE r
                                          /\ Append(r, s[n]) \in Seq(Int)
  BY <1>1, <1>5
<1>7. Typed(N, T, << >>, step) BY <1>3, <1>4, <1>6 DEF Typed
<1>8. PICK f : Loop(f, N, T, << >>, step) BY <1>7, LoopIs
<1>9. f = [n \in 0..N |-> IF n = 0 THEN << >> ELSE IF ListIndexOf(l, s[n]) = -1 THEN Append(f[n - 1], s[n]) ELSE f[n - 1]]
  <2>1. \A n \in 0..N : f[n] = IF n = 0 THEN << >> ELSE IF ListIndexOf(l, s[n]) = -1 THEN Append(f[n - 1], s[n]) ELSE f[n - 1]
    <3> TAKE n \in 0..N
    <3>1. n # 0 => n \in 1..N /\ n - 1 \in 0..N OBVIOUS
    <3>2. f[n] = IF n = 0 THEN << >> ELSE step[n][f[n - 1]] BY <1>8, <3>1 DEF Loop
    <3>3. n # 0 => f[n - 1] \in Seq(Int) BY <1>3, <1>8, <3>1 DEF Loop
    <3> QED BY <1>6, <3>1, <3>2, <3>3
  <2>2. f = [n \in 0..N |-> f[n]] BY <1>8 DEF Loop
  <2> QED BY <2>1, <2>2
<1>10. PICK temp : /\ temp = [n \in 0..N |-> IF n = 0 THEN << >> ELSE IF ListIndexOf(l, s[n]) = -1 THEN Append(temp[n - 1], s[n]) ELSE temp[n - 1]]
                   /\ Missing(l, s) = temp[N]
  BY <1>1, <1>9 DEF Missing
<1>11. temp[0] = << >> /\ \A n \in 1..N : temp[n] = IF ListIndexOf(l, s[n]) = -1 THEN Append(temp[n - 1], s[n]) ELSE temp[n - 1]
  <2>1. temp[0] = << >> BY <1>10
  <2>2. ASSUME NEW n \in 1..N PROVE temp[n] = IF ListIndexOf(l, s[n]) = -1 THEN Append(temp[n - 1], s[n]) ELSE temp[n - 1]
    <3>1. n \in 0..N /\ n # 0 OBVIOUS
    <3> QED BY <1>10, <3>1
  <2> QED BY <2>1, <2>2
<1>12. PICK K : K = {i \in 1..Len(s) : ~Abstract!Has(Contents(l), s[i])} OBVIOUS
<1>13. Taking(temp, s, K)
  <2>1. ASSUME NEW n \in 1..N PROVE ListIndexOf(l, s[n]) = -1 <=> n \in K
    <3>1. Contents(l) \in Seq(Int) /\ First(Contents(l), s[n], ListIndexOf(l, s[n])) BY ContentsAre, IndexOfIsFirst
    <3>2. ListIndexOf(l, s[n]) = -1 <=> ~Abstract!Has(Contents(l), s[n]) BY <3>1, FirstIsHas
    <3> QED BY <1>1, <1>12, <3>2
  <2> QED BY <1>1, <1>11, <2>1 DEF Taking
<1>14. K \subseteq 1..Len(s) BY <1>12
<1>15. temp[N] \in Abstract!Choice(s, K) BY <1>1, <1>13, <1>14, TakeLoop
<1>16. Abstract!Without(s, Contents(l)) = Abstract!Choice(s, K) BY <1>12 DEF Abstract!Without
<1>17. temp[N] \in Seq(Int) BY <1>14, <1>15, ChoiceType
<1> QED BY <1>10, <1>15, <1>16, <1>17

-----------------------------------------------------------------------------
\* CList::SetCount, which fills with null pointers
LEMMA SetCountResizes ==
  ASSUME NEW l \in Block, NEW n \in Nat
  PROVE  /\ ListSetCount(l, n) \in Block /\ ListSetCount(l, n).count = n
         /\ Contents(ListSetCount(l, n)) = [i \in 1..n |-> IF i <= Len(Contents(l)) THEN Contents(l)[i] ELSE Nil]
<1>0. l.count \in 0..l.capacity /\ l.capacity \in Nat BY BlockIs
<1>1. PICK e : e = IF n > l.capacity THEN SetCapacity(l, n) ELSE l OBVIOUS
<1>2. /\ e \in Block /\ e.count = l.count /\ n <= e.capacity
      /\ \A j \in 0..(l.count - 1) : e.cells[j] = l.cells[j]
  <2>1. CASE n > l.capacity
    <3>1. l.count <= n BY <1>0, <2>1
    <3> QED BY <1>1, <2>1, <3>1, CapacityKeeps
  <2>2. CASE ~(n > l.capacity) BY <1>0, <1>1, <2>2
  <2> QED BY <2>1, <2>2
<1>3. /\ e = [cells |-> e.cells, capacity |-> e.capacity, count |-> e.count]
      /\ e.capacity \in Nat /\ e.cells \in [0..(e.capacity - 1) -> Int] BY <1>2, BlockIs
<1>4. PICK c : c = [i \in 0..(e.capacity - 1) |-> IF i >= n THEN Junk ELSE IF i >= l.count THEN Nil ELSE e.cells[i]] OBVIOUS
<1>5. c \in [0..(e.capacity - 1) -> Int] BY <1>3, <1>4 DEF Junk, Nil
<1>6. PICK d : d = ListSetCount(l, n) OBVIOUS
<1>7. /\ d = [cells |-> d.cells, capacity |-> d.capacity, count |-> d.count]
      /\ d.cells = c /\ d.capacity = e.capacity /\ d.count = n
  <2>1. DOMAIN e.cells = 0..(e.capacity - 1) BY <1>3
  <2> QED BY <1>1, <1>3, <1>4, <1>6, <2>1 DEF ListSetCount
<1>8. d \in Block
  <2>1. n \in 0..e.capacity BY <1>2
  <2>2. d = [cells |-> c, capacity |-> e.capacity, count |-> n] BY <1>7
  <2> QED BY <1>3, <1>5, <2>1, <2>2, BlockMade
<1>9. PICK s \in Seq(Int) : s = Contents(l) /\ Len(s) = l.count /\ \A i \in 1..l.count : s[i] = l.cells[i - 1] BY ContentsAre
<1>10. PICK r : r = [i \in 1..n |-> IF i <= Len(s) THEN s[i] ELSE Nil] OBVIOUS
<1>11. r \in Seq(Int) /\ Len(r) = n
  <2>1. \A i \in 1..n : r[i] \in Int BY <1>9, <1>10 DEF Nil
  <2> QED BY <1>10, <2>1
<1>12. ASSUME NEW i \in 1..n PROVE d.cells[i - 1] = r[i]
  <2>1. i - 1 \in 0..(e.capacity - 1) /\ ~(i - 1 >= n) BY <1>2, <1>3
  <2>2. c[i - 1] = IF i - 1 >= l.count THEN Nil ELSE e.cells[i - 1] BY <1>4, <2>1
  <2>3. CASE i <= l.count
    <3>1. i \in 1..l.count /\ i - 1 \in 0..(l.count - 1) /\ ~(i - 1 >= l.count) BY <1>0, <2>3
    <3> QED BY <1>2, <1>7, <1>9, <1>10, <2>2, <2>3, <3>1
  <2>4. CASE ~(i <= l.count)
    <3>1. i - 1 >= l.count BY <1>0, <2>4
    <3> QED BY <1>7, <1>9, <1>10, <2>2, <2>4, <3>1
  <2> QED BY <2>3, <2>4
<1>13. Contents(d) = r BY <1>7, <1>8, <1>11, <1>12, ContentsEqual
<1> QED BY <1>6, <1>7, <1>8, <1>9, <1>10, <1>13

LEMMA EmptyContents ==
  ASSUME NEW l \in Block, l.count = 0
  PROVE  Contents(l) = << >>
<1>1. << >> \in Seq(Int) /\ Len(<< >>) = 0 OBVIOUS
<1>2. PICK s : s = << >> OBVIOUS
<1>3. \A i \in 1..l.count : l.cells[i - 1] = s[i] OBVIOUS
<1>4. Contents(l) = s BY <1>1, <1>2, <1>3, ContentsEqual
<1> QED BY <1>2, <1>4

LEMMA NewListIsBlock == NewList \in Block /\ NewList.count = 0 /\ Contents(NewList) = << >>
<1>1. PICK d : d = NewList OBVIOUS
<1>2. PICK c : c = [i \in {} |-> Junk] OBVIOUS
<1>3. d = [cells |-> c, capacity |-> 0, count |-> 0] BY <1>1, <1>2 DEF NewList
<1>4. 0..(0 - 1) = {} OBVIOUS
<1>5. c \in [0..(0 - 1) -> Int] BY <1>2, <1>4
<1>6. 0 \in Nat /\ 0 \in 0..0 OBVIOUS
<1>7. PICK n \in Nat : n = 0 OBVIOUS
<1>8. c \in [0..(n - 1) -> Int] /\ n \in 0..n /\ d = [cells |-> c, capacity |-> n, count |-> n] BY <1>3, <1>5, <1>7
<1>9. d \in Block /\ d.count = n BY ONLY n \in Nat, <1>8, BlockMade
<1> QED BY <1>1, <1>7, <1>9, EmptyContents

LEMMA ClearEmpties ==
  ASSUME NEW l \in Block
  PROVE  ListClear(l) \in Block /\ ListClear(l).count = 0 /\ Contents(ListClear(l)) = << >>
<1>1. PICK e : e = ListSetCount(l, 0) OBVIOUS
<1>2. e \in Block /\ e.count = 0 BY <1>1, SetCountResizes
<1>3. SetCapacity(e, 0) \in Block /\ SetCapacity(e, 0).count = 0 BY <1>2, CapacityKeeps
<1> QED BY <1>1, <1>3, EmptyContents DEF ListClear

LEMMA InsertIs ==
  ASSUME NEW s, s \in Seq(Int), NEW k, k \in 1..(Len(s) + 1), NEW x, x \in Int, NEW r, r = InsertAt(s, k, x)
  PROVE  r \in Seq(Int) /\ Inserted(r, s, k, x)
<1>1. PICK S : S = Int OBVIOUS
<1>2. s \in Seq(S) /\ x \in S BY <1>1
<1>3. r \in Seq(S) /\ Inserted(r, s, k, x)
  BY ONLY k \in 1..(Len(s) + 1), r = InsertAt(s, k, x), <1>2, InsertOf
<1> QED BY <1>1, <1>3

\* CList::Move
LEMMA MoveMoves ==
  ASSUME NEW l \in Block, NEW i \in 0..(l.count - 1), NEW j \in 0..(l.count - 1), NEW s, s = Contents(l)
  PROVE  /\ ListMove(l, i, j) \in Block /\ ListMove(l, i, j).count = l.count
         /\ Contents(ListMove(l, i, j)) = InsertAt(RemoveAt(s, i + 1), j + 1, s[i + 1])
<1>0. l.count \in Nat /\ s \in Seq(Int) /\ Len(s) = l.count /\ \A k \in 1..l.count : s[k] = l.cells[k - 1] /\ s[k] \in Int
  BY ContentsAre
<1>1. PICK x \in Int : x = l.cells[i] /\ x = s[i + 1]
  <2>1. i + 1 \in 1..l.count /\ (i + 1) - 1 = i BY <1>0
  <2> QED BY <1>0, <2>1
<1>2. PICK r : r = RemoveAt(s, i + 1) OBVIOUS
<1>3. r \in Seq(Int) /\ Len(r) = l.count - 1 /\ \A k \in 1..(l.count - 1) : r[k] = IF k < i + 1 THEN s[k] ELSE s[k + 1]
  <2>1. i + 1 \in 1..Len(s) BY <1>0
  <2> QED BY <1>0, <1>2, <2>1, RemoveAtIndex
<1>4. PICK u : u = InsertAt(r, j + 1, x) OBVIOUS
<1>5. /\ u \in Seq(Int) /\ Len(u) = l.count
      /\ \A k \in 1..l.count : u[k] = IF k < j + 1 THEN r[k] ELSE IF k = j + 1 THEN x ELSE r[k - 1]
  <2>1. j + 1 \in 1..(Len(r) + 1) /\ Len(r) + 1 = l.count BY <1>0, <1>3
  <2>2. PICK k : k = j + 1 OBVIOUS
  <2>3. /\ u \in Seq(Int) /\ Len(u) = Len(r) + 1
        /\ \A o \in 1..(Len(r) + 1) : u[o] = IF o < k THEN r[o] ELSE IF o = k THEN x ELSE r[o - 1]
    <3>1. u = InsertAt(r, k, x) /\ k \in 1..(Len(r) + 1) BY <1>4, <2>1, <2>2
    <3>2. u \in Seq(Int) /\ Inserted(u, r, k, x) BY <1>1, <1>3, <3>1, InsertIs
    <3> QED BY <3>2 DEF Inserted
  <2> QED BY <2>1, <2>2, <2>3
<1>6. CASE i = j
  <2>1. \A k \in 1..l.count : u[k] = s[k]
    <3> TAKE k \in 1..l.count
    <3>1. CASE k < i + 1
      <4>1. k \in 1..(l.count - 1) BY <1>0, <3>1
      <4> QED BY <1>3, <1>5, <1>6, <3>1, <4>1
    <3>2. CASE k = i + 1 BY <1>1, <1>5, <1>6, <3>2
    <3>3. CASE k > i + 1
      <4>1. k - 1 \in 1..(l.count - 1) /\ ~(k - 1 < i + 1) /\ (k - 1) + 1 = k BY <1>0, <3>3
      <4>2. r[k - 1] = s[k] BY <1>3, <4>1
      <4> QED BY <1>5, <1>6, <3>3, <4>2
    <3> QED BY <3>1, <3>2, <3>3
  <2>2. u = s BY <1>0, <1>5, <2>1, SequenceEqual
  <2>3. ListMove(l, i, j) = l BY <1>6 DEF ListMove
  <2> QED BY <1>1, <1>2, <1>4, <2>2, <2>3
<1>7. CASE i # j
  <2>1. PICK a : a = ListPut(l, i, Nil) OBVIOUS
  <2>2. a \in Block /\ a.count = l.count /\ Contents(a) = [s EXCEPT ![i + 1] = Nil]
    <3>1. Nil \in Int BY DEF Nil
    <3> QED BY <2>1, <3>1, PutReplaces
  <2>3. PICK b : b = ListDelete(a, i) OBVIOUS
  <2>4. b \in Block /\ b.count = l.count - 1 /\ Contents(b) = RemoveAt(Contents(a), i + 1)
    <3>1. i \in 0..(a.count - 1) BY <2>2
    <3> QED BY <2>2, <2>3, <3>1, DeleteRemoves DEF ListDelete
  <2>5. PICK c : c = ListInsert(b, j, Nil) OBVIOUS
  <2>6. c \in Block /\ c.count = l.count /\ Contents(c) = InsertAt(Contents(b), j + 1, Nil)
    <3>1. j \in 0..b.count /\ Nil \in Int /\ b.count + 1 = l.count BY <1>0, <2>4 DEF Nil
    <3> QED BY <2>4, <2>5, <3>1, InsertInserts
  <2>7. PICK d : d = ListPut(c, j, x) OBVIOUS
  <2>8. d \in Block /\ d.count = l.count /\ Contents(d) = [Contents(c) EXCEPT ![j + 1] = x]
    <3>1. j \in 0..(c.count - 1) BY <2>6
    <3> QED BY <2>6, <2>7, <3>1, PutReplaces
  <2>9. ListMove(l, i, j) = d BY <1>1, <1>7, <2>1, <2>3, <2>5, <2>7 DEF ListMove
  <2>10. PICK sa : sa = Contents(a) OBVIOUS
  <2>11. sa \in Seq(Int) /\ Len(sa) = l.count /\ \A k \in 1..l.count : k # i + 1 => sa[k] = s[k]
    <3>1. sa \in Seq(Int) /\ Len(sa) = l.count BY <2>2, <2>10, ContentsAre
    <3> QED BY <1>0, <2>2, <2>10, <3>1
  <2>12. PICK sb : sb = Contents(b) OBVIOUS
  <2>13. sb \in Seq(Int) /\ Len(sb) = l.count - 1 /\ \A k \in 1..(l.count - 1) : sb[k] = IF k < i + 1 THEN sa[k] ELSE sa[k + 1]
    <3>1. i + 1 \in 1..Len(sa) BY <1>0, <2>11
    <3>2. sb = RemoveAt(sa, i + 1) BY <2>4, <2>10, <2>12
    <3>3. PICK k : k = i + 1 OBVIOUS
    <3>4. sb \in Seq(Int) /\ Len(sb) = Len(sa) - 1 /\ \A o \in 1..(Len(sa) - 1) : sb[o] = IF o < k THEN sa[o] ELSE sa[o + 1]
      BY <2>11, <3>1, <3>2, <3>3, RemoveAtIndex
    <3> QED BY <2>11, <3>3, <3>4
  <2>14. \A k \in 1..(l.count - 1) : sb[k] = r[k]
    <3> TAKE k \in 1..(l.count - 1)
    <3>1. k \in 1..l.count /\ k + 1 \in 1..l.count /\ (k < i + 1 => k # i + 1) /\ (~(k < i + 1) => k + 1 # i + 1) BY <1>0
    <3>2. CASE k < i + 1
      <4>1. sb[k] = sa[k] /\ sa[k] = s[k] BY <2>11, <2>13, <3>1, <3>2
      <4>2. r[k] = s[k] BY <1>3, <3>2
      <4> QED BY <4>1, <4>2
    <3>3. CASE ~(k < i + 1)
      <4>1. sb[k] = sa[k + 1] /\ sa[k + 1] = s[k + 1] BY <2>11, <2>13, <3>1, <3>3
      <4>2. r[k] = s[k + 1] BY <1>3, <3>3
      <4> QED BY <4>1, <4>2
    <3> QED BY <3>2, <3>3
  <2>15. sb = r BY <1>3, <2>13, <2>14, SequenceEqual
  <2>16. PICK sc : sc = Contents(c) OBVIOUS
  <2>17. /\ sc \in Seq(Int) /\ Len(sc) = l.count
         /\ \A k \in 1..l.count : sc[k] = IF k < j + 1 THEN r[k] ELSE IF k = j + 1 THEN Nil ELSE r[k - 1]
    <3>1. j + 1 \in 1..(Len(r) + 1) /\ Len(r) + 1 = l.count /\ Nil \in Int BY <1>0, <1>3 DEF Nil
    <3>2. PICK k, y \in Int : k = j + 1 /\ y = Nil BY <3>1
    <3>3. sc = InsertAt(r, k, y) BY <2>6, <2>12, <2>15, <2>16, <3>2
    <3>4. /\ sc \in Seq(Int) /\ Len(sc) = Len(r) + 1
          /\ \A o \in 1..(Len(r) + 1) : sc[o] = IF o < k THEN r[o] ELSE IF o = k THEN y ELSE r[o - 1]
      <4>1. sc \in Seq(Int) /\ Inserted(sc, r, k, y) BY <1>3, <3>1, <3>2, <3>3, InsertIs
      <4> QED BY <4>1 DEF Inserted
    <3> QED BY <3>1, <3>2, <3>4
  <2>18. PICK sd : sd = Contents(d) OBVIOUS
  <2>19. sd \in Seq(Int) /\ Len(sd) = l.count BY <2>8, <2>18, ContentsAre
  <2>20. \A k \in 1..l.count : sd[k] = u[k]
    <3> TAKE k \in 1..l.count
    <3>1. sd[k] = IF k = j + 1 THEN x ELSE sc[k] BY <2>8, <2>16, <2>17, <2>18
    <3> QED BY <1>5, <2>17, <3>1
  <2>21. sd = u BY <1>5, <2>19, <2>20, SequenceEqual
  <2> QED BY <1>1, <1>2, <1>4, <2>8, <2>9, <2>18, <2>21
<1> QED BY <1>6, <1>7

-----------------------------------------------------------------------------
\* r is s without its k-th item.
Removed(r, s, k) == Len(r) = Len(s) - 1 /\ \A o \in 1..(Len(s) - 1) : r[o] = IF o < k THEN s[o] ELSE s[o + 1]

LEMMA RemoveIs ==
  ASSUME NEW S, NEW s, s \in Seq(S), NEW k, k \in 1..Len(s), NEW r, r = RemoveAt(s, k)
  PROVE  r \in Seq(S) /\ Removed(r, s, k)
BY RemoveAtIndex DEF Removed

\* What stands at a place is of no account to its removal.
LEMMA RemoveChanged ==
  ASSUME NEW S, NEW s \in Seq(S), NEW k \in 1..Len(s), NEW x \in S
  PROVE  RemoveAt([s EXCEPT ![k] = x], k) = RemoveAt(s, k)
<1>1. PICK n \in Nat : n = Len(s) OBVIOUS
<1>2. PICK t : t = [s EXCEPT ![k] = x] OBVIOUS
<1>3. t \in Seq(S) /\ Len(t) = n /\ \A o \in 1..n : o # k => t[o] = s[o] BY <1>1, <1>2
<1>4. PICK r : r = RemoveAt(s, k) OBVIOUS
<1>5. r \in Seq(S) /\ Len(r) = n - 1 /\ \A o \in 1..(n - 1) : r[o] = IF o < k THEN s[o] ELSE s[o + 1]
  BY <1>1, <1>4, RemoveIs DEF Removed
<1>6. PICK u : u = RemoveAt(t, k) OBVIOUS
<1>7. u \in Seq(S) /\ Len(u) = n - 1 /\ \A o \in 1..(n - 1) : u[o] = IF o < k THEN t[o] ELSE t[o + 1]
  <2>1. k \in 1..Len(t) BY <1>1, <1>3
  <2>2. u \in Seq(S) /\ Removed(u, t, k) BY <1>3, <1>6, <2>1, RemoveIs
  <2> QED BY <1>3, <2>2 DEF Removed
<1>8. \A o \in 1..(n - 1) : u[o] = r[o]
  <2> TAKE o \in 1..(n - 1)
  <2>1. o \in 1..n /\ o + 1 \in 1..n /\ (o < k => o # k) /\ (~(o < k) => o + 1 # k) BY <1>1
  <2> QED BY <1>3, <1>5, <1>7, <2>1
<1>9. u = r BY <1>5, <1>7, <1>8, SequenceEqual
<1> QED BY <1>2, <1>4, <1>6, <1>9

\* The place IndexOf finds
LEMMA IndexOfIs ==
  ASSUME NEW l \in Block, NEW x, NEW s, s = Contents(l), NEW k, k = ListIndexOf(l, x)
  PROVE  /\ k = Abstract!IndexIn(s, x) /\ (k >= 0 <=> Abstract!Has(s, x)) /\ (k = -1 <=> ~Abstract!Has(s, x))
         /\ k >= 0 => k \in 0..(l.count - 1)
<1>1. s \in Seq(Int) /\ Len(s) = l.count BY ContentsAre
<1>2. First(s, x, k) BY IndexOfIsFirst
<1> QED BY <1>1, <1>2, FirstIsHas

\* The sequence without the first x in it
Less(s, x) == IF Abstract!Has(s, x) THEN RemoveAt(s, Abstract!IndexIn(s, x) + 1) ELSE s

\* CList::Remove
LEMMA RemoveRemoves ==
  ASSUME NEW l \in Block, NEW x, NEW s, s = Contents(l)
  PROVE  ListRemove(l, x) \in Block /\ Contents(ListRemove(l, x)) = Less(s, x)
<1>1. PICK k : k = ListIndexOf(l, x) OBVIOUS
<1>2. /\ k = Abstract!IndexIn(s, x) /\ (k >= 0 <=> Abstract!Has(s, x))
      /\ k >= 0 => k \in 0..(l.count - 1)
  BY <1>1, IndexOfIs
<1>3. CASE k >= 0
  <2>1. CloseCell(l, k) \in Block /\ Contents(CloseCell(l, k)) = RemoveAt(s, k + 1) BY <1>2, <1>3, DeleteRemoves
  <2>2. ListRemove(l, x) = CloseCell(l, k) BY <1>1, <1>3 DEF ListRemove, ListDelete
  <2> QED BY <1>2, <1>3, <2>1, <2>2 DEF Less
<1>4. CASE ~(k >= 0) BY <1>1, <1>2, <1>4 DEF ListRemove, Less
<1> QED BY <1>3, <1>4

\* CList::Extract
LEMMA ExtractRemoves ==
  ASSUME NEW l \in Block, NEW x, NEW s, s = Contents(l)
  PROVE  ListExtract(l, x) \in Block /\ Contents(ListExtract(l, x)) = Less(s, x)
<1>1. PICK k : k = ListIndexOf(l, x) OBVIOUS
<1>2. /\ k = Abstract!IndexIn(s, x) /\ (k >= 0 <=> Abstract!Has(s, x))
      /\ k >= 0 => k \in 0..(l.count - 1)
  BY <1>1, IndexOfIs
<1>3. CASE k >= 0
  <2>0. k \in 0..(l.count - 1) /\ Nil \in Int BY <1>2, <1>3 DEF Nil
  <2>1. PICK p : p = ListPut(l, k, Nil) OBVIOUS
  <2>2. p \in Block /\ p.count = l.count /\ Contents(p) = [s EXCEPT ![k + 1] = Nil] BY <2>0, <2>1, PutReplaces
  <2>3. PICK d : d = CloseCell(p, k) OBVIOUS
  <2>4. d \in Block /\ Contents(d) = RemoveAt(Contents(p), k + 1)
    <3>1. k \in 0..(p.count - 1) BY <2>0, <2>2
    <3> QED BY <2>2, <2>3, <3>1, DeleteRemoves
  <2>5. s \in Seq(Int) /\ k + 1 \in 1..Len(s)
    <3>1. s \in Seq(Int) /\ Len(s) = l.count /\ l.count \in Nat BY ContentsAre
    <3> QED BY <2>0, <3>1
  <2>6. RemoveAt([s EXCEPT ![k + 1] = Nil], k + 1) = RemoveAt(s, k + 1)
    <3>1. PICK S, o, y : S = Int /\ o = k + 1 /\ y = Nil OBVIOUS
    <3>2. s \in Seq(S) /\ o \in 1..Len(s) /\ y \in S BY <2>0, <2>5, <3>1
    <3>3. RemoveAt([s EXCEPT ![o] = y], o) = RemoveAt(s, o) BY ONLY <3>2, RemoveChanged
    <3> QED BY <3>1, <3>3
  <2>7. ListExtract(l, x) = d BY <1>1, <1>3, <2>1, <2>3 DEF ListExtract, ListDelete
  <2> QED BY <1>2, <1>3, <2>2, <2>4, <2>6, <2>7 DEF Less
<1>4. CASE ~(k >= 0) BY <1>1, <1>2, <1>4 DEF ListExtract, Less
<1> QED BY <1>3, <1>4

\* The indices of s whose items t has not, and those whose items it has
LEMMA OutsideMembers ==
  ASSUME NEW S, NEW s \in Seq(S), NEW t, NEW U, t \in Seq(U)
  PROVE  /\ Abstract!Choice(s, Outside(s, ToSet(t))) = Abstract!Without(s, t)
         /\ \A V : s \in Seq(V) => Abstract!Choice(s, Outside(s, V \ ToSet(t))) = Abstract!Only(s, t)
<1>1. \A x : x \in ToSet(t) <=> Abstract!Has(t, x)
  <2>1. DOMAIN t = 1..Len(t) OBVIOUS
  <2> QED BY <2>1 DEF ToSet, Abstract!Has
<1>2. Outside(s, ToSet(t)) = {i \in 1..Len(s) : ~Abstract!Has(t, s[i])} BY <1>1 DEF Outside
<1>3. ASSUME NEW V, s \in Seq(V) PROVE Outside(s, V \ ToSet(t)) = {i \in 1..Len(s) : Abstract!Has(t, s[i])}
  <2>1. \A i \in 1..Len(s) : s[i] \in V BY <1>3
  <2> QED BY <1>1, <2>1 DEF Outside
<1> QED BY <1>2, <1>3 DEF Abstract!Without, Abstract!Only

LEMMA CopyCopies ==
  ASSUME NEW s \in Seq(Int), NEW n \in Nat
  PROVE  ListCopy(s, n) \in Block /\ Contents(ListCopy(s, n)) = s
<1>1. PICK e : e = SetCapacity(NewList, n) OBVIOUS
<1>2. e \in Block /\ Contents(e) = << >>
  <2>1. NewList \in Block /\ NewList.count <= n /\ Contents(NewList) = << >> BY NewListIsBlock
  <2> QED BY <1>1, <2>1, CapacityKeeps
<1>3. AddAll(e, s) \in Block /\ Contents(AddAll(e, s)) = << >> \o s BY <1>2, AddAllConcats
<1>4. << >> \o s = s BY ConcatEmptySeq
<1> QED BY <1>1, <1>3, <1>4 DEF ListCopy

LEMMA ReverseIs == ASSUME NEW S, NEW s \in Seq(S) PROVE Reverse(s) \in Seq(S) /\ Len(Reverse(s)) = Len(s)
<1>1. \A i \in 1..Len(s) : s[(Len(s) - i) + 1] \in S
  <2> TAKE i \in 1..Len(s)
  <2>1. (Len(s) - i) + 1 \in 1..Len(s) OBVIOUS
  <2> QED BY <2>1
<1> QED BY <1>1 DEF Reverse

LEMMA XorHas ==
  ASSUME NEW s, NEW t, NEW u \in Abstract!Without(s, t), NEW v \in Abstract!Without(t, s)
  PROVE  u \o v \in Abstract!Assigned("laXor", s, t)
<1>1. PICK A, B : A = Abstract!Without(s, t) /\ B = Abstract!Without(t, s) OBVIOUS
<1>2. \A w : w \in Abstract!Assigned("laXor", s, t) <=> \E a \in A, b \in B : w = a \o b BY <1>1 DEF Abstract!Assigned
<1>3. u \in A /\ v \in B BY <1>1
<1> QED BY <1>2, <1>3

LEMMA XorExcludes ==
  ASSUME NEW l \in Block, NEW t \in Seq(Int), NEW s, s = Contents(l)
  PROVE  ListXor(l, t) \in Block /\ Contents(ListXor(l, t)) \in Abstract!Assigned("laXor", s, t)
<1>1. PICK k : k = DeleteItems(l, ToSet(t)) OBVIOUS
<1>2. k \in Block /\ Contents(k) \in Abstract!Choice(s, Outside(s, ToSet(t))) BY <1>1, DeleteItemsDrops
<1>3. s \in Seq(Int) BY ContentsAre
<1>4. Contents(k) \in Abstract!Without(s, t) BY <1>2, <1>3, OutsideMembers
<1>5. PICK m : m = Missing(l, t) OBVIOUS
<1>6. m \in Abstract!Without(t, s) /\ m \in Seq(Int) BY <1>5, MissingTakes
<1>7. PICK a : a = AtLeast(k, k.count + Len(m)) OBVIOUS
<1>8. a \in Block /\ Contents(a) = Contents(k)
  <2>1. k.count + Len(m) \in Nat /\ k.count <= k.count + Len(m)
    <3>1. k.count \in Nat BY <1>2, ContentsAre
    <3> QED BY <1>6, <3>1
  <2> QED BY <1>2, <1>7, <2>1, CapacityKeeps DEF AtLeast
<1>9. AddAll(a, m) \in Block /\ Contents(AddAll(a, m)) = Contents(k) \o m BY <1>6, <1>8, AddAllConcats
<1>10. ListXor(l, t) = AddAll(a, m) BY <1>1, <1>5, <1>7 DEF ListXor
<1>11. Contents(k) \o m \in Abstract!Assigned("laXor", s, t) BY <1>4, <1>6, XorHas
<1> QED BY <1>9, <1>10, <1>11

\* CList::Assign
LEMMA AssignAssigns ==
  ASSUME NEW l \in Block, NEW t \in Seq(Int), NEW s, s = Contents(l), s \in Seq(Values \cup {Nil}), NEW op \in Abstract!AssignOps
  PROVE  ListAssign(op, l, t) \in Block /\ Contents(ListAssign(op, l, t)) \in Abstract!Assigned(op, s, t)
<1>0. s \in Seq(Int) /\ Len(t) \in Nat BY ContentsAre
<1>1. CASE op = "laCopy"
  <2>1. ListAssign(op, l, t) = ListCopy(t, Len(t)) BY <1>1 DEF ListAssign
  <2>2. Abstract!Assigned(op, s, t) = {t} BY <1>1 DEF Abstract!Assigned
  <2> QED BY <1>0, <2>1, <2>2, CopyCopies
<1>2. CASE op = "laAnd"
  <2>1. ListAssign(op, l, t) = DeleteItems(l, (Values \cup {Nil}) \ ToSet(t)) BY <1>2 DEF ListAssign
  <2>2. Abstract!Assigned(op, s, t) = Abstract!Only(s, t) BY <1>2 DEF Abstract!Assigned
  <2>3. PICK V : V = Values \cup {Nil} OBVIOUS
  <2>4. Abstract!Choice(s, Outside(s, V \ ToSet(t))) = Abstract!Only(s, t) BY <1>0, <2>3, OutsideMembers
  <2> QED BY <2>1, <2>2, <2>3, <2>4, DeleteItemsDrops
<1>3. CASE op = "laOr"
  <2>1. ListAssign(op, l, t) = AddMissing(l, t) BY <1>3 DEF ListAssign
  <2> QED BY <1>3, <2>1, AddMissingJoins
<1>4. CASE op = "laXor"
  <2>1. ListAssign(op, l, t) = ListXor(l, t) BY <1>4 DEF ListAssign
  <2> QED BY <1>4, <2>1, XorExcludes
<1>5. CASE op = "laSrcUnique"
  <2>1. ListAssign(op, l, t) = DeleteItems(l, ToSet(t)) BY <1>5 DEF ListAssign
  <2>2. Abstract!Assigned(op, s, t) = Abstract!Without(s, t) BY <1>5 DEF Abstract!Assigned
  <2>3. Abstract!Choice(s, Outside(s, ToSet(t))) = Abstract!Without(s, t) BY <1>0, OutsideMembers
  <2> QED BY <2>1, <2>2, <2>3, DeleteItemsDrops
<1>6. CASE op = "laDestUnique"
  <2>1. ListAssign(op, l, t) = ListCopy(Missing(l, Reverse(t)), Len(t)) BY <1>6 DEF ListAssign
  <2>2. Abstract!Assigned(op, s, t) = Abstract!Without(Reverse(t), s) BY <1>6, SameOperators DEF Abstract!Assigned
  <2>3. Reverse(t) \in Seq(Int) BY ReverseIs
  <2>4. Missing(l, Reverse(t)) \in Abstract!Without(Reverse(t), s) /\ Missing(l, Reverse(t)) \in Seq(Int) BY <2>3, MissingTakes
  <2> QED BY <1>0, <2>1, <2>2, <2>4, CopyCopies
<1> QED BY <1>1, <1>2, <1>3, <1>4, <1>5, <1>6 DEF Abstract!AssignOps

-----------------------------------------------------------------------------
\* The first place from i up, and the first from j down, of those P is true of
FromUp(P, i, k) == P[k] = TRUE /\ \A n \in i..(k - 1) : P[n] # TRUE
FromDown(P, j, k) == P[k] = TRUE /\ \A n \in (k + 1)..j : P[n] # TRUE

LEMMA LeastUp ==
  ASSUME NEW i \in Int, NEW a \in Int, i <= a, NEW P, P[a] = TRUE
  PROVE  \E k \in i..a : FromUp(P, i, k)
<1>1. PICK Q : Q = [d \in 0..(a - i) |-> P[i + d]] OBVIOUS
<1>2. PICK n \in Nat : n = a - i + 1 OBVIOUS
<1>3. \E d \in 0..(n - 1) : Q[d] = TRUE
  <2>1. a - i \in 0..(n - 1) /\ i + (a - i) = a /\ a - i \in 0..(a - i) BY <1>2
  <2>2. Q[a - i] = TRUE BY <1>1, <2>1
  <2> QED BY <2>1, <2>2
<1>4. PICK d \in 0..(n - 1) : Q[d] = TRUE /\ \A e \in 0..(d - 1) : Q[e] # TRUE BY <1>3, LeastPlace
<1>5. PICK k \in i..a : k = i + d BY <1>2
<1>6. P[k] = TRUE BY <1>1, <1>2, <1>4, <1>5
<1>7. ASSUME NEW m \in i..(k - 1) PROVE P[m] # TRUE
  <2>1. m - i \in 0..(d - 1) /\ m - i \in 0..(a - i) /\ i + (m - i) = m BY <1>2, <1>5
  <2>2. Q[m - i] = P[m] BY <1>1, <2>1
  <2> QED BY <1>4, <2>1, <2>2
<1> QED BY <1>6, <1>7 DEF FromUp

LEMMA LeastDown ==
  ASSUME NEW j \in Int, NEW b \in Int, b <= j, NEW P, P[b] = TRUE
  PROVE  \E k \in b..j : FromDown(P, j, k)
<1>1. PICK Q : Q = [d \in 0..(j - b) |-> P[j - d]] OBVIOUS
<1>2. PICK n \in Nat : n = j - b + 1 OBVIOUS
<1>3. \E d \in 0..(n - 1) : Q[d] = TRUE
  <2>1. j - b \in 0..(n - 1) /\ j - (j - b) = b /\ j - b \in 0..(j - b) BY <1>2
  <2>2. Q[j - b] = TRUE BY <1>1, <2>1
  <2> QED BY <2>1, <2>2
<1>4. PICK d \in 0..(n - 1) : Q[d] = TRUE /\ \A e \in 0..(d - 1) : Q[e] # TRUE BY <1>3, LeastPlace
<1>5. PICK k \in b..j : k = j - d BY <1>2
<1>6. P[k] = TRUE BY <1>1, <1>2, <1>4, <1>5
<1>7. ASSUME NEW m \in (k + 1)..j PROVE P[m] # TRUE
  <2>1. j - m \in 0..(d - 1) /\ j - m \in 0..(j - b) /\ j - (j - m) = m BY <1>2, <1>5
  <2>2. Q[j - m] = P[m] BY <1>1, <2>1
  <2> QED BY <1>4, <2>1, <2>2
<1> QED BY <1>6, <1>7 DEF FromDown

-----------------------------------------------------------------------------
\* d holds on D what c holds there, with the cells of L..R in some order and the others in their places.
Arranged(d, c, D, L, R) ==
  \E p \in [D -> D] :
    /\ \A x, y \in D : p[x] = p[y] => x = y
    /\ \A x \in D : d[x] = c[p[x]]
    /\ \A x \in D : IF x \in L..R THEN p[x] \in L..R ELSE p[x] = x

LEMMA ArrangedSame ==
  ASSUME NEW c, NEW D, NEW L, NEW R
  PROVE  Arranged(c, c, D, L, R)
<1>1. PICK p : p = [x \in D |-> x] OBVIOUS
<1>2. /\ p \in [D -> D] /\ \A x, y \in D : p[x] = p[y] => x = y
      /\ \A x \in D : c[x] = c[p[x]]
      /\ \A x \in D : IF x \in L..R THEN p[x] \in L..R ELSE p[x] = x
  BY <1>1
<1> QED BY <1>2 DEF Arranged

LEMMA ArrangedTwice ==
  ASSUME NEW D, NEW L \in Int, NEW R \in Int, NEW A \in Int, NEW B \in Int, L <= A, B <= R, A..B \subseteq D,
         NEW c, NEW d, NEW e, Arranged(d, c, D, L, R), Arranged(e, d, D, A, B)
  PROVE  Arranged(e, c, D, L, R)
<1>1. PICK p \in [D -> D] : /\ \A x, y \in D : p[x] = p[y] => x = y
                            /\ \A x \in D : d[x] = c[p[x]]
                            /\ \A x \in D : IF x \in L..R THEN p[x] \in L..R ELSE p[x] = x
  BY DEF Arranged
<1>2. PICK q \in [D -> D] : /\ \A x, y \in D : q[x] = q[y] => x = y
                            /\ \A x \in D : e[x] = d[q[x]]
                            /\ \A x \in D : IF x \in A..B THEN q[x] \in A..B ELSE q[x] = x
  BY DEF Arranged
<1>3. PICK r : r = [x \in D |-> p[q[x]]] OBVIOUS
<1>4. r \in [D -> D] BY <1>3
<1>5. \A x, y \in D : r[x] = r[y] => x = y BY <1>1, <1>2, <1>3
<1>6. \A x \in D : e[x] = c[r[x]] BY <1>1, <1>2, <1>3
<1>7. ASSUME NEW x \in D PROVE IF x \in L..R THEN r[x] \in L..R ELSE r[x] = x
  <2>1. A..B \subseteq L..R OBVIOUS
  <2>2. CASE x \in L..R
    <3>1. q[x] \in L..R /\ q[x] \in D BY <1>2, <2>1, <2>2
    <3> QED BY <1>1, <1>3, <2>2, <3>1
  <2>3. CASE x \notin L..R
    <3>1. q[x] = x BY <1>2, <2>1, <2>3
    <3> QED BY <1>1, <1>3, <2>3, <3>1
  <2> QED BY <2>2, <2>3
<1> QED BY <1>4, <1>5, <1>6, <1>7 DEF Arranged

Exchanged(s, c, D, a, b) == s[a] = c[b] /\ s[b] = c[a] /\ \A x \in D : x # a /\ x # b => s[x] = c[x]

LEMMA ArrangedSwapped ==
  ASSUME NEW D, NEW V, NEW c, c \in [D -> V], NEW L, NEW R, L \in Int, R \in Int, NEW a, NEW b,
         a \in L..R, b \in L..R, a \in D, b \in D
  PROVE  /\ Swapped(c, a, b) \in [D -> V] /\ Arranged(Swapped(c, a, b), c, D, L, R)
         /\ Exchanged(Swapped(c, a, b), c, D, a, b)
<1>1. PICK d : d = Swapped(c, a, b) OBVIOUS
<1>2. /\ d \in [D -> V] /\ d[a] = c[b] /\ d[b] = c[a]
      /\ \A x \in D : x # a /\ x # b => d[x] = c[x]
  BY <1>1 DEF Swapped
<1>3. PICK p : p = [x \in D |-> IF x = a THEN b ELSE IF x = b THEN a ELSE x] OBVIOUS
<1>4. /\ p \in [D -> D] /\ \A x, y \in D : p[x] = p[y] => x = y
      /\ \A x \in D : d[x] = c[p[x]]
      /\ \A x \in D : IF x \in L..R THEN p[x] \in L..R ELSE p[x] = x
  BY <1>2, <1>3
<1>5. Arranged(d, c, D, L, R) BY <1>4 DEF Arranged
<1> QED BY <1>1, <1>2, <1>5 DEF Exchanged

-----------------------------------------------------------------------------
\* What holds after n turns of the partition of c[L..R] about the pivot p.
Low(cells, key, p, L, i)  == \A k \in L..(i - 1) : key[cells[k]] <= p
High(cells, key, p, j, R) == \A k \in (j + 1)..R : key[cells[k]] >= p
Hoare(n, w, c, key, p, D, V, L, R) ==
  /\ w.cells \in [D -> V] /\ Arranged(w.cells, c, D, L, R)
  /\ w.i \in L..(R + 1) /\ w.j \in (L - 1)..R
  /\ Low(w.cells, key, p, L, w.i) /\ High(w.cells, key, p, w.j, R)
  /\ w.i <= w.j => \E a \in w.i..R, b \in L..w.j :
                     key[w.cells[a]] >= p /\ key[w.cells[b]] <= p /\ (n = 0 => a <= b)
  /\ n > 0 => w.i > L /\ w.j < R
  /\ n = 0 => w.i <= w.j
  /\ w.i > w.j \/ w.j - w.i <= R - L - n

LEMMA TurnPartitions ==
  ASSUME NEW D, NEW V, NEW key, \A v \in V : key[v] \in Int, NEW L \in Int, NEW R \in Int, L..R \subseteq D, NEW c,
         D \subseteq Int, NEW p \in Int, NEW n \in Nat, NEW w, Hoare(n, w, c, key, p, D, V, L, R), w.i <= w.j
  PROVE  /\ Hoare(n + 1, Turn(w, key, p), c, key, p, D, V, L, R)
         /\ Turn(w, key, p) \in [cells : [D -> V], i : Int, j : Int]
<1>1. PICK d \in [D -> V] : d = w.cells BY DEF Hoare
<1>2. PICK i \in L..(R + 1), j \in (L - 1)..R : i = w.i /\ j = w.j BY DEF Hoare
<1>3. PICK a \in i..R, b \in L..j : key[d[a]] >= p /\ key[d[b]] <= p /\ (n = 0 => a <= b)
  <2>1. \E x \in w.i..R, y \in L..w.j : key[w.cells[x]] >= p /\ key[w.cells[y]] <= p /\ (n = 0 => x <= y) BY DEF Hoare
  <2> QED BY <1>1, <1>2, <2>1
<1>4. i <= j /\ a \in L..R /\ b \in L..R BY <1>2, <1>3
<1>5. \A k \in L..R : k \in D /\ d[k] \in V /\ key[d[k]] \in Int BY <1>1
<1>6. PICK k \in i..a : key[d[k]] >= p /\ \A m \in i..(k - 1) : key[d[m]] < p
  <2>1. PICK P : P = [x \in L..R |-> IF key[d[x]] >= p THEN TRUE ELSE FALSE] OBVIOUS
  <2>2. P[a] = TRUE /\ i <= a /\ i \in Int /\ a \in Int BY <1>3, <1>4, <2>1
  <2>3. PICK x \in i..a : FromUp(P, i, x) BY <2>2, LeastUp
  <2>4. P[x] = TRUE /\ \A m \in i..(x - 1) : P[m] # TRUE BY <2>3 DEF FromUp
  <2>5. x \in L..R /\ \A m \in i..(x - 1) : m \in L..R BY <1>2, <1>4
  <2>6. key[d[x]] >= p BY <2>1, <2>4, <2>5
  <2>7. ASSUME NEW m \in i..(x - 1) PROVE key[d[m]] < p
    <3>1. ~(key[d[m]] >= p) BY <2>1, <2>4, <2>5
    <3>2. key[d[m]] \in Int BY <1>5, <2>5
    <3> QED BY <3>1, <3>2
  <2> QED BY <2>6, <2>7
<1>7. PICK e \in b..j : key[d[e]] <= p /\ \A m \in (e + 1)..j : key[d[m]] > p
  <2>1. PICK P : P = [x \in L..R |-> IF key[d[x]] <= p THEN TRUE ELSE FALSE] OBVIOUS
  <2>2. P[b] = TRUE /\ b <= j /\ j \in Int /\ b \in Int BY <1>3, <1>4, <2>1
  <2>3. PICK x \in b..j : FromDown(P, j, x) BY <2>2, LeastDown
  <2>4. P[x] = TRUE /\ \A m \in (x + 1)..j : P[m] # TRUE BY <2>3 DEF FromDown
  <2>5. x \in L..R /\ \A m \in (x + 1)..j : m \in L..R BY <1>2, <1>4
  <2>6. key[d[x]] <= p BY <2>1, <2>4, <2>5
  <2>7. ASSUME NEW m \in (x + 1)..j PROVE key[d[m]] > p
    <3>1. ~(key[d[m]] <= p) BY <2>1, <2>4, <2>5
    <3>2. key[d[m]] \in Int BY <1>5, <2>5
    <3> QED BY <3>1, <3>2
  <2> QED BY <2>6, <2>7
<1>8. k \in L..R /\ e \in L..R /\ k \in D /\ e \in D BY <1>2, <1>4
<1>9. (CHOOSE x \in D : x >= i /\ key[d[x]] >= p /\ \A m \in i..(x - 1) : key[d[m]] < p) = k
  <2>1. k \in D /\ k >= i /\ key[d[k]] >= p /\ \A m \in i..(k - 1) : key[d[m]] < p BY <1>6, <1>8
  <2>2. ASSUME NEW x \in D, x >= i /\ key[d[x]] >= p /\ \A m \in i..(x - 1) : key[d[m]] < p PROVE x = k
    <3>1. x \in Int /\ key[d[x]] \in Int /\ key[d[k]] \in Int BY <1>1, <1>5, <1>8
    <3>2. CASE x < k
      <4>1. x \in i..(k - 1) BY <2>2, <3>1, <3>2
      <4>2. key[d[x]] < p BY <1>6, <4>1
      <4> QED BY <2>2, <3>1, <4>2
    <3>3. CASE k < x
      <4>1. k \in i..(x - 1) BY <2>1, <3>1, <3>3
      <4>2. key[d[k]] < p BY <2>2, <4>1
      <4> QED BY <2>1, <3>1, <4>2
    <3> QED BY <3>1, <3>2, <3>3
  <2> QED BY <2>1, <2>2
<1>10. (CHOOSE x \in D : x <= j /\ key[d[x]] <= p /\ \A m \in (x + 1)..j : key[d[m]] > p) = e
  <2>1. e \in D /\ e <= j /\ key[d[e]] <= p /\ \A m \in (e + 1)..j : key[d[m]] > p BY <1>7, <1>8
  <2>2. ASSUME NEW x \in D, x <= j /\ key[d[x]] <= p /\ \A m \in (x + 1)..j : key[d[m]] > p PROVE x = e
    <3>1. x \in Int /\ key[d[x]] \in Int /\ key[d[e]] \in Int BY <1>1, <1>5, <1>8
    <3>2. CASE x < e
      <4>1. e \in (x + 1)..j BY <2>1, <3>1, <3>2
      <4>2. key[d[e]] > p BY <2>2, <4>1
      <4> QED BY <2>1, <3>1, <4>2
    <3>3. CASE e < x
      <4>1. x \in (e + 1)..j BY <2>2, <3>1, <3>3
      <4>2. key[d[x]] > p BY <2>1, <4>1
      <4> QED BY <2>2, <3>1, <4>2
    <3> QED BY <3>1, <3>2, <3>3
  <2> QED BY <2>1, <2>2
<1>11. Turn(w, key, p) = IF k <= e THEN [cells |-> Swapped(d, k, e), i |-> k + 1, j |-> e - 1] ELSE [cells |-> d, i |-> k, j |-> e]
  <2>1. DOMAIN d = D OBVIOUS
  <2> QED BY <1>1, <1>2, <1>9, <1>10, <2>1 DEF Turn
<1>12. /\ Arranged(d, c, D, L, R) /\ j - i <= R - L - n
       /\ \A m \in L..(i - 1) : key[d[m]] <= p
       /\ \A m \in (j + 1)..R : key[d[m]] >= p
       /\ n > 0 => i > L /\ j < R
  <2>1. w.i > w.j \/ w.j - w.i <= R - L - n BY DEF Hoare
  <2>2. j - i <= R - L - n BY <1>2, <1>4, <2>1
  <2> QED BY <1>1, <1>2, <2>2 DEF Hoare, Low, High
<1>13. \A m \in L..(k - 1) : key[d[m]] <= p
  <2> TAKE m \in L..(k - 1)
  <2>1. CASE m < i
    <3>1. m \in L..(i - 1) BY <2>1
    <3> QED BY <1>12, <3>1
  <2>2. CASE ~(m < i)
    <3>1. m \in i..(k - 1) /\ m \in L..R BY <1>8, <2>2
    <3> QED BY <1>5, <1>6, <3>1
  <2> QED BY <2>1, <2>2
<1>14. \A m \in (e + 1)..R : key[d[m]] >= p
  <2> TAKE m \in (e + 1)..R
  <2>1. CASE m > j
    <3>1. m \in (j + 1)..R BY <2>1
    <3> QED BY <1>12, <3>1
  <2>2. CASE ~(m > j)
    <3>1. m \in (e + 1)..j /\ m \in L..R BY <1>8, <2>2
    <3> QED BY <1>5, <1>7, <3>1
  <2> QED BY <2>1, <2>2
<1>15. CASE k <= e
  <2>1. PICK s : s = Swapped(d, k, e) OBVIOUS
  <2>2. /\ s \in [D -> V] /\ Arranged(s, d, D, L, R) /\ s[k] = d[e] /\ s[e] = d[k]
        /\ \A x \in D : x # k /\ x # e => s[x] = d[x]
    <3>1. d \in [D -> V] /\ L \in Int /\ R \in Int OBVIOUS
    <3>2. s \in [D -> V] /\ Arranged(s, d, D, L, R) /\ Exchanged(s, d, D, k, e) BY ONLY <1>8, <2>1, <3>1, ArrangedSwapped
    <3> QED BY <3>2 DEF Exchanged
  <2>3. Arranged(s, c, D, L, R)
    <3>1. L <= L /\ R <= R OBVIOUS
    <3> QED BY <1>12, <2>2, <3>1, ArrangedTwice
  <2>4. PICK v : v = [cells |-> s, i |-> k + 1, j |-> e - 1] OBVIOUS
  <2>5. v.cells = s /\ v.i = k + 1 /\ v.j = e - 1 BY <2>4
  <2>6. Low(s, key, p, L, k + 1)
    <3>1. ASSUME NEW m \in L..((k + 1) - 1) PROVE key[s[m]] <= p
      <4>1. CASE m = k BY <1>7, <2>2, <4>1
      <4>2. CASE m # k
        <5>1. m \in L..(k - 1) /\ m # e /\ m \in L..R BY <1>8, <1>15, <4>2
        <5>2. s[m] = d[m] BY <1>5, <2>2, <4>2, <5>1
        <5> QED BY <1>13, <5>1, <5>2
      <4> QED BY <4>1, <4>2
    <3> QED BY <3>1 DEF Low
  <2>7. High(s, key, p, e - 1, R)
    <3>1. ASSUME NEW m \in ((e - 1) + 1)..R PROVE key[s[m]] >= p
      <4>1. CASE m = e BY <1>6, <2>2, <4>1
      <4>2. CASE m # e
        <5>1. m \in (e + 1)..R /\ m # k /\ m \in L..R BY <1>8, <1>15, <4>2
        <5>2. s[m] = d[m] BY <1>5, <2>2, <4>2, <5>1
        <5> QED BY <1>14, <5>1, <5>2
      <4> QED BY <4>1, <4>2
    <3> QED BY <3>1 DEF High
  <2>8. k + 1 <= e - 1 => \E x \in (k + 1)..R, y \in L..(e - 1) : key[s[x]] >= p /\ key[s[y]] <= p
    <3> SUFFICES ASSUME k + 1 <= e - 1 PROVE \E x \in (k + 1)..R, y \in L..(e - 1) : key[s[x]] >= p /\ key[s[y]] <= p OBVIOUS
    <3>1. e \in (k + 1)..R /\ k \in L..(e - 1) BY <1>8
    <3>2. key[s[e]] >= p /\ key[s[k]] <= p BY <1>6, <1>7, <2>2
    <3> QED BY <3>1, <3>2
  <2>9. k + 1 > L /\ e - 1 < R BY <1>8
  <2>10. (e - 1) - (k + 1) <= R - L - (n + 1)
    <3>1. e <= j /\ i <= k OBVIOUS
    <3> QED BY <1>2, <1>12, <3>1
  <2>11. k + 1 \in L..(R + 1) /\ e - 1 \in (L - 1)..R /\ n + 1 # 0 BY <1>8
  <2>12. Hoare(n + 1, v, c, key, p, D, V, L, R) BY <2>2, <2>3, <2>5, <2>6, <2>7, <2>8, <2>9, <2>10, <2>11 DEF Hoare
  <2>13. Turn(w, key, p) = v BY <1>11, <1>15, <2>1, <2>4
  <2>14. v \in [cells : [D -> V], i : Int, j : Int] BY <1>8, <2>2, <2>4
  <2> QED BY <2>12, <2>13, <2>14
<1>16. CASE ~(k <= e)
  <2>1. PICK v : v = [cells |-> d, i |-> k, j |-> e] OBVIOUS
  <2>2. v.cells = d /\ v.i = k /\ v.j = e BY <2>1
  <2>3. k > e BY <1>8, <1>16
  <2>4. n # 0 BY <1>3, <1>8, <2>3
  <2>5. k > L /\ e < R BY <1>12, <1>2, <2>4
  <2>6. Low(d, key, p, L, k) /\ High(d, key, p, e, R) BY <1>13, <1>14 DEF Low, High
  <2>7. k \in L..(R + 1) /\ e \in (L - 1)..R BY <1>8
  <2>8. ~(v.i <= v.j) /\ v.i > v.j BY <1>8, <2>2, <2>3
  <2>9. Hoare(n + 1, v, c, key, p, D, V, L, R) BY <1>12, <2>2, <2>5, <2>6, <2>7, <2>8 DEF Hoare
  <2>10. Turn(w, key, p) = v BY <1>11, <1>16, <2>1
  <2>11. v \in [cells : [D -> V], i : Int, j : Int] BY <1>8, <2>1
  <2> QED BY <2>9, <2>10, <2>11
<1> QED BY <1>15, <1>16

-----------------------------------------------------------------------------
\* What partition leaves: up to j no key above the pivot p, from i on none below it, and all of L..R in one of them.
Split(w, c, key, p, D, V, L, R) ==
  /\ w.cells \in [D -> V] /\ Arranged(w.cells, c, D, L, R)
  /\ w.i \in (L + 1)..(R + 1) /\ w.j \in (L - 1)..(R - 1) /\ w.j < w.i
  /\ Low(w.cells, key, p, L, w.i) /\ High(w.cells, key, p, w.j, R)

\* The states of the partition after n turns.
Partly(n, c, key, p, D, V, L, R) ==
  {w \in [cells : [D -> V], i : Int, j : Int] : Hoare(n, w, c, key, p, D, V, L, R)}

LEMMA TurnTypes ==
  ASSUME NEW D, NEW V, NEW key, \A v \in V : key[v] \in Int, NEW L \in Int, NEW R \in Int, L..R \subseteq D, NEW c,
         D \subseteq Int, NEW p \in Int, NEW n \in Nat, NEW w \in Partly(n, c, key, p, D, V, L, R)
  PROVE  (IF w.i > w.j THEN w ELSE Turn(w, key, p)) \in Partly(n + 1, c, key, p, D, V, L, R)
<1>0. /\ w \in [cells : [D -> V], i : Int, j : Int] /\ w.i \in Int /\ w.j \in Int
      /\ Hoare(n, w, c, key, p, D, V, L, R)
  BY DEF Partly
<1>1. CASE w.i > w.j
  <2>1. n # 0 /\ n > 0 /\ n + 1 # 0 /\ ~(w.i <= w.j) BY <1>0, <1>1 DEF Hoare
  <2>2. Hoare(n + 1, w, c, key, p, D, V, L, R) BY <1>0, <1>1, <2>1 DEF Hoare
  <2> QED BY <1>0, <1>1, <2>2 DEF Partly
<1>2. CASE ~(w.i > w.j)
  <2>1. /\ Hoare(n + 1, Turn(w, key, p), c, key, p, D, V, L, R)
        /\ Turn(w, key, p) \in [cells : [D -> V], i : Int, j : Int]
    <3>1. w.i <= w.j BY <1>0, <1>2
    <3> QED BY <1>0, <3>1, TurnPartitions
  <2> QED BY <1>2, <2>1 DEF Partly
<1> QED BY <1>1, <1>2

LEMMA PartitionSplits ==
  ASSUME NEW D, NEW V, NEW key, \A v \in V : key[v] \in Int, NEW L \in Int, NEW R \in Int, L <= R, L..R \subseteq D,
         NEW c \in [D -> V], D \subseteq Int
  PROVE  \E p \in Int : Split(Partition(c, key, L, R), c, key, p, D, V, L, R)
<1>1. PICK m \in L..R : m = (L + R) \div 2 OBVIOUS
<1>2. PICK p \in Int : p = key[c[m]] BY <1>1
<1>3. PICK N \in Nat : N = R - L + 1 /\ N > 0 OBVIOUS
<1>4. PICK T : T = [n \in 0..N |-> Partly(n, c, key, p, D, V, L, R)] OBVIOUS
<1>5. PICK start : start = [cells |-> c, i |-> L, j |-> R] OBVIOUS
<1>6. start \in Partly(0, c, key, p, D, V, L, R)
  <2>1. start.cells = c /\ start.i = L /\ start.j = R /\ start \in [cells : [D -> V], i : Int, j : Int] BY <1>5
  <2>2. Arranged(c, c, D, L, R) BY ArrangedSame
  <2>3. Low(c, key, p, L, L) /\ High(c, key, p, R, R) BY DEF Low, High
  <2>4. \E a \in L..R, b \in L..R : key[c[a]] >= p /\ key[c[b]] <= p /\ (0 = 0 => a <= b)
    <3>1. m \in L..R /\ key[c[m]] >= p /\ key[c[m]] <= p /\ m <= m BY <1>2
    <3> QED BY <3>1
  <2>5. L \in L..(R + 1) /\ R \in (L - 1)..R /\ R - L <= R - L - 0 /\ ~(0 > 0) OBVIOUS
  <2>6. Hoare(0, start, c, key, p, D, V, L, R) BY <2>1, <2>2, <2>3, <2>4, <2>5 DEF Hoare
  <2> QED BY <2>1, <2>6 DEF Partly
<1>7. PICK next : next = [n \in 1..N |-> [w \in T[n - 1] |-> IF w.i > w.j THEN w ELSE Turn(w, key, p)]] OBVIOUS
<1>8. ASSUME NEW n \in 1..N, NEW w \in T[n - 1]
      PROVE  /\ (IF w.i > w.j THEN w ELSE Turn(w, key, p)) \in T[n]
             /\ next[n][w] = IF w.i > w.j THEN w ELSE Turn(w, key, p)
  <2>1. PICK k \in Nat : k = n - 1 /\ k + 1 = n /\ k \in 0..N OBVIOUS
  <2>2. w \in Partly(k, c, key, p, D, V, L, R) BY <1>4, <2>1
  <2>3. (IF w.i > w.j THEN w ELSE Turn(w, key, p)) \in Partly(k + 1, c, key, p, D, V, L, R) BY <2>2, TurnTypes
  <2> QED BY <1>4, <1>7, <2>1, <2>3
<1>9. Typed(N, T, start, next)
  <2>1. start \in T[0] BY <1>3, <1>4, <1>6
  <2>2. ASSUME NEW n \in 1..N, NEW w \in T[n - 1] PROVE next[n][w] \in T[n] BY <1>8
  <2> QED BY <2>1, <2>2 DEF Typed
<1>10. PICK f : Loop(f, N, T, start, next) BY <1>9, LoopIs
<1>11. f = [n \in 0..N |-> IF n = 0 THEN start ELSE IF f[n - 1].i > f[n - 1].j THEN f[n - 1] ELSE Turn(f[n - 1], key, p)]
  <2>1. \A n \in 0..N : f[n] = IF n = 0 THEN start ELSE IF f[n - 1].i > f[n - 1].j THEN f[n - 1] ELSE Turn(f[n - 1], key, p)
    <3> TAKE n \in 0..N
    <3>1. n # 0 => n \in 1..N /\ n - 1 \in 0..N OBVIOUS
    <3>2. f[n] = IF n = 0 THEN start ELSE next[n][f[n - 1]] BY <1>10, <3>1 DEF Loop
    <3>3. n # 0 => f[n - 1] \in T[n - 1] BY <1>10, <3>1 DEF Loop
    <3> QED BY <1>8, <3>1, <3>2, <3>3
  <2>2. f = [n \in 0..N |-> f[n]] BY <1>10 DEF Loop
  <2> QED BY <2>1, <2>2
<1>12. PICK turns : /\ turns = [n \in 0..N |-> IF n = 0 THEN start ELSE IF turns[n - 1].i > turns[n - 1].j THEN turns[n - 1] ELSE Turn(turns[n - 1], key, p)]
                    /\ Partition(c, key, L, R) = turns[N]
  BY <1>1, <1>2, <1>3, <1>5, <1>11 DEF Partition
<1>13. turns[0] = start /\ \A n \in 1..N : turns[n] = IF turns[n - 1].i > turns[n - 1].j THEN turns[n - 1] ELSE Turn(turns[n - 1], key, p)
  BY <1>12
<1>14. Keeps(turns, N, T)
  <2>1. turns[0] \in T[0] BY <1>3, <1>4, <1>6, <1>13
  <2>2. ASSUME NEW n \in 1..N, turns[n - 1] \in T[n - 1] PROVE turns[n] \in T[n] BY <1>8, <1>13, <2>2
  <2> QED BY <2>1, <2>2 DEF Keeps
<1>15. PICK w : w = turns[N] OBVIOUS
<1>16. w \in Partly(N, c, key, p, D, V, L, R)
  <2>1. \A n \in 0..N : turns[n] \in T[n] BY <1>14, KeepsAll
  <2>2. N \in 0..N BY <1>3
  <2> QED BY <1>4, <1>15, <2>1, <2>2
<1>17. Hoare(N, w, c, key, p, D, V, L, R) /\ w.i \in Int /\ w.j \in Int BY <1>16 DEF Partly
<1>18. w.i > w.j /\ w.i > L /\ w.j < R
  <2>1. w.i > w.j \/ w.j - w.i <= R - L - N BY <1>17 DEF Hoare
  <2>2. w.i > w.j BY <1>3, <1>17, <2>1
  <2> QED BY <1>3, <1>17, <2>2 DEF Hoare
<1>19. Split(w, c, key, p, D, V, L, R)
  <2>1. w.i \in L..(R + 1) /\ w.j \in (L - 1)..R BY <1>17 DEF Hoare
  <2>2. w.i \in (L + 1)..(R + 1) /\ w.j \in (L - 1)..(R - 1) BY <1>18, <2>1
  <2> QED BY <1>17, <1>18, <2>2 DEF Hoare, Split
<1> QED BY <1>12, <1>15, <1>19

-----------------------------------------------------------------------------
\* The cells from L to R in the order of their keys
InOrder(d, key, L, R) == \A a, b \in L..R : a < b => key[d[a]] <= key[d[b]]

LEMMA ArrangedValue ==
  ASSUME NEW d, NEW c, NEW D, NEW L, NEW R, Arranged(d, c, D, L, R), NEW k \in D
  PROVE  /\ k \in L..R => \E x \in D : x \in L..R /\ d[k] = c[x]
         /\ k \notin L..R => d[k] = c[k]
<1>1. PICK p \in [D -> D] : /\ \A x, y \in D : p[x] = p[y] => x = y
                            /\ \A x \in D : d[x] = c[p[x]]
                            /\ \A x \in D : IF x \in L..R THEN p[x] \in L..R ELSE p[x] = x
  BY DEF Arranged
<1>2. p[k] \in D /\ d[k] = c[p[k]] BY <1>1
<1> QED BY <1>1, <1>2

\* The two halves sorted, the whole is.
LEMMA HalvesSorted ==
  ASSUME NEW D, D \subseteq Int, NEW V, NEW key, \A v \in V : key[v] \in Int, NEW L, L \in Int, NEW R, R \in Int, L..R \subseteq D,
         NEW c, NEW p, p \in Int, NEW w, Split(w, c, key, p, D, V, L, R),
         NEW d, d \in [D -> V], Arranged(d, w.cells, D, L, w.j), InOrder(d, key, L, w.j),
         NEW e, e \in [D -> V], Arranged(e, d, D, w.i, R), InOrder(e, key, w.i, R)
  PROVE  Arranged(e, c, D, L, R) /\ InOrder(e, key, L, R)
<1>1. PICK b \in [D -> V] : b = w.cells BY DEF Split
<1>2. PICK i \in (L + 1)..(R + 1), j \in (L - 1)..(R - 1) : i = w.i /\ j = w.j /\ j < i BY DEF Split
<1>3. /\ Arranged(b, c, D, L, R)
      /\ \A k \in L..(i - 1) : key[b[k]] <= p
      /\ \A k \in (j + 1)..R : key[b[k]] >= p
  BY <1>1, <1>2 DEF Split, Low, High
<1>4. Arranged(d, b, D, L, j) /\ InOrder(d, key, L, j) /\ Arranged(e, d, D, i, R) /\ InOrder(e, key, i, R) BY <1>1, <1>2
<1>5. L..j \subseteq D /\ i..R \subseteq D /\ L..j \subseteq L..R /\ i..R \subseteq L..R BY <1>2
<1>6. Arranged(d, c, D, L, R)
  <2>1. L <= L /\ j <= R /\ j \in Int BY <1>2
  <2> QED BY <1>3, <1>4, <1>5, <2>1, ArrangedTwice
<1>7. Arranged(e, c, D, L, R)
  <2>1. L <= i /\ R <= R /\ i \in Int BY <1>2
  <2> QED BY <1>4, <1>5, <1>6, <2>1, ArrangedTwice
<1>8. \A k \in L..R : k \in D /\ key[b[k]] \in Int /\ key[d[k]] \in Int /\ key[e[k]] \in Int BY <1>1
<1>9. ASSUME NEW k \in i..R PROVE key[e[k]] >= p
  <2>1. k \in D BY <1>5
  <2>2. PICK x \in D : x \in i..R /\ e[k] = d[x] BY <1>4, <2>1, ArrangedValue
  <2>3. x \notin L..j /\ x \in (j + 1)..R BY <1>2, <2>2
  <2>4. d[x] = b[x] BY <1>4, <2>3, ArrangedValue
  <2> QED BY <1>3, <2>2, <2>3, <2>4
<1>10. ASSUME NEW k \in L..(i - 1)
       PROVE  e[k] = d[k] /\ key[e[k]] <= p /\ (k > j => key[e[k]] >= p)
  <2>1. k \in D /\ k \notin i..R /\ k \in L..R BY <1>2
  <2>2. e[k] = d[k] BY <1>4, <2>1, ArrangedValue
  <2>3. CASE k <= j
    <3>1. k \in L..j BY <2>3
    <3>2. PICK x \in D : x \in L..j /\ d[k] = b[x] BY <1>4, <2>1, <3>1, ArrangedValue
    <3>3. x \in L..(i - 1) BY <1>2, <3>2
    <3> QED BY <1>2, <1>3, <2>2, <2>3, <3>2, <3>3
  <2>4. CASE ~(k <= j)
    <3>1. k \notin L..j /\ k \in (j + 1)..R BY <1>2, <2>4
    <3>2. d[k] = b[k] BY <1>4, <2>1, <3>1, ArrangedValue
    <3> QED BY <1>3, <2>2, <3>1, <3>2
  <2> QED BY <2>3, <2>4
<1>11. ASSUME NEW x \in L..R, NEW y \in L..R, x < y PROVE key[e[x]] <= key[e[y]]
  <2>1. CASE x >= i
    <3>1. x \in i..R /\ y \in i..R BY <1>2, <1>11, <2>1
    <3> QED BY <1>4, <1>11, <3>1 DEF InOrder
  <2>2. CASE x < i /\ y > j
    <3>1. x \in L..(i - 1) BY <2>2
    <3>2. key[e[x]] <= p BY <1>10, <3>1
    <3>3. key[e[y]] >= p
      <4>1. y < i => y \in L..(i - 1) OBVIOUS
      <4>2. ~(y < i) => y \in i..R BY <1>2
      <4> QED BY <1>9, <1>10, <2>2, <4>1, <4>2
    <3> QED BY <1>8, <3>2, <3>3
  <2>3. CASE x < i /\ ~(y > j)
    <3>1. x \in L..j /\ y \in L..j /\ x \in L..(i - 1) /\ y \in L..(i - 1) BY <1>2, <1>11, <2>3
    <3>2. e[x] = d[x] /\ e[y] = d[y] BY <1>10, <3>1
    <3> QED BY <1>4, <1>11, <3>1, <3>2 DEF InOrder
  <2> QED BY <1>2, <2>1, <2>2, <2>3
<1>12. InOrder(e, key, L, R) BY <1>11 DEF InOrder
<1> QED BY <1>7, <1>12

LEMMA PartitionOfNone ==
  ASSUME NEW c, NEW key, NEW L \in Int
  PROVE  Partition(c, key, L, L - 1) = [cells |-> c, i |-> L, j |-> L - 1]
<1>1. PICK start : start = [cells |-> c, i |-> L, j |-> L - 1] OBVIOUS
<1>2. (L - 1) - L + 1 = 0 /\ \A n \in 0..0 : n = 0 OBVIOUS
<1>3. PICK p : p = key[c[(L + (L - 1)) \div 2]] OBVIOUS
<1>4. PICK f : f = [n \in 0..0 |-> start] OBVIOUS
<1>5. f = [n \in 0..0 |-> IF n = 0 THEN start ELSE IF f[n - 1].i > f[n - 1].j THEN f[n - 1] ELSE Turn(f[n - 1], key, p)]
  BY <1>2, <1>4
<1>6. PICK turns : /\ turns = [n \in 0..0 |-> IF n = 0 THEN start ELSE IF turns[n - 1].i > turns[n - 1].j THEN turns[n - 1] ELSE Turn(turns[n - 1], key, p)]
                   /\ Partition(c, key, L, L - 1) = turns[0]
  BY <1>1, <1>2, <1>3, <1>5 DEF Partition
<1>7. turns[0] = start BY <1>6
<1> QED BY <1>1, <1>6, <1>7

\* The functions that sort n cells from a place L on, for every n up to N.
Sorters(N, D, V, key) ==
  [n \in 0..N |-> {h \in [0..(N - n) -> [[D -> V] -> [D -> V]]] :
                     \A L \in 0..(N - n) : \A c \in [D -> V] :
                       Arranged(h[L][c], c, D, L, L + n - 1) /\ InOrder(h[L][c], key, L, L + n - 1)}]

Sorted(r, c, D, V, key, L, R) == r \in [D -> V] /\ Arranged(r, c, D, L, R) /\ InOrder(r, key, L, R)

LEMMA SorterIs ==
  ASSUME NEW N, N \in Nat, NEW D, NEW V, NEW key, NEW n, n \in 0..N, NEW h, h \in Sorters(N, D, V, key)[n],
         NEW L, L \in 0..(N - n), NEW c, c \in [D -> V], NEW R, R = L + n - 1, NEW r, r = h[L][c]
  PROVE  Sorted(r, c, D, V, key, L, R)
<1>1. /\ h \in [0..(N - n) -> [[D -> V] -> [D -> V]]]
      /\ \A M \in 0..(N - n) : \A b \in [D -> V] :
           Arranged(h[M][b], b, D, M, M + n - 1) /\ InOrder(h[M][b], key, M, M + n - 1)
  BY DEF Sorters
<1>2. h[L] \in [[D -> V] -> [D -> V]] BY <1>1
<1>3. h[L][c] \in [D -> V] BY <1>2
<1> QED BY <1>1, <1>3 DEF Sorted

\* The body of QuickSort, over what sorts fewer items: left and r are c with its left and both halves sorted.
Halves(g, c, key, L, R, w, left, r) ==
  /\ w = Partition(c, key, L, R)
  /\ left = IF L < w.j THEN g[w.j - L + 1][L][w.cells] ELSE w.cells
  /\ r = IF w.i < R THEN g[R - w.i + 1][w.i][left] ELSE left
\* g sorts any fewer cells than n.
SortsLess(g, n, N, D, V, key) == \A m \in 0..(n - 1) : g[m] \in Sorters(N, D, V, key)[m]

\* Both halves are of fewer cells than n.
Fewer(w, n, L, R) ==
  /\ L < w.j => w.j - L + 1 \in 0..(n - 1)
  /\ w.i < R => R - w.i + 1 \in 0..(n - 1)

LEMMA SortNone ==
  ASSUME NEW D, NEW V, NEW key, NEW g, NEW L, L \in Int, NEW c, c \in [D -> V], NEW w, NEW left, NEW r, NEW n,
         Halves(g, c, key, L, L - 1, w, left, r)
  PROVE  Sorted(r, c, D, V, key, L, L - 1) /\ Fewer(w, n, L, L - 1)
<1>1. w = [cells |-> c, i |-> L, j |-> L - 1] BY PartitionOfNone DEF Halves
<1>2. w.cells = c /\ w.i = L /\ w.j = L - 1 BY <1>1
<1>3. ~(L < w.j) /\ ~(w.i < L - 1) BY <1>2
<1>4. r = c BY <1>2, <1>3 DEF Halves
<1>5. Arranged(c, c, D, L, L - 1) BY ArrangedSame
<1>6. L..(L - 1) = {} OBVIOUS
<1>7. InOrder(c, key, L, L - 1) BY <1>6 DEF InOrder
<1> QED BY <1>3, <1>4, <1>5, <1>7 DEF Sorted, Fewer

LEMMA InOrderOne ==
  ASSUME NEW d, NEW key, NEW L \in Int, NEW R \in Int, ~(L < R)
  PROVE  InOrder(d, key, L, R)
<1>1. \A a, b \in L..R : ~(a < b) OBVIOUS
<1> QED BY <1>1 DEF InOrder

LEMMA SortStep ==
  ASSUME NEW N, N \in Nat, NEW D, D = 0..(N - 1), NEW V, NEW key, \A v \in V : key[v] \in Int,
         NEW n, n \in 1..N, NEW g, SortsLess(g, n, N, D, V, key),
         NEW L, L \in 0..(N - n), NEW c, c \in [D -> V], NEW R, R = L + n - 1, NEW w, NEW left, NEW r,
         Halves(g, c, key, L, R, w, left, r)
  PROVE  Sorted(r, c, D, V, key, L, R) /\ Fewer(w, n, L, R)
<1>0. L \in Int /\ R \in Int /\ L <= R /\ D \subseteq Int /\ L..R \subseteq D /\ n \in Nat OBVIOUS
<1>1. PICK p \in Int : Split(w, c, key, p, D, V, L, R) BY <1>0, PartitionSplits DEF Halves
<1>2. PICK b \in [D -> V], i \in (L + 1)..(R + 1), j \in (L - 1)..(R - 1) : b = w.cells /\ i = w.i /\ j = w.j /\ j < i
  BY <1>1 DEF Split
<1>3. left \in [D -> V] /\ Arranged(left, b, D, L, j) /\ InOrder(left, key, L, j)
  <2>0. left = IF L < j THEN g[j - L + 1][L][b] ELSE b BY <1>2 DEF Halves
  <2>1. CASE L < j
    <3>1. PICK m \in 0..(n - 1) : m = j - L + 1 BY <1>0, <1>2, <2>1
    <3>2. j = L + m - 1 /\ m \in 0..N /\ L \in 0..(N - m) BY <1>0, <1>2, <3>1, SMTT(20)
    <3>3. PICK h \in Sorters(N, D, V, key)[m] : h = g[m] BY <3>1 DEF SortsLess
    <3>4. left = h[L][b] BY <2>0, <2>1, <3>1, <3>3
    <3>5. b \in [D -> V] /\ N \in Nat OBVIOUS
    <3>6. Sorted(left, b, D, V, key, L, j) BY ONLY <3>2, <3>3, <3>4, <3>5, SorterIs
    <3> QED BY <3>6 DEF Sorted
  <2>2. CASE ~(L < j)
    <3>1. left = b BY <2>0, <2>2
    <3>2. InOrder(b, key, L, j) BY <1>0, <1>2, <2>2, InOrderOne
    <3> QED BY <1>2, <3>1, <3>2, ArrangedSame
  <2> QED BY <2>1, <2>2
<1>4. r \in [D -> V] /\ Arranged(r, left, D, i, R) /\ InOrder(r, key, i, R)
  <2>0. r = IF i < R THEN g[R - i + 1][i][left] ELSE left BY <1>2 DEF Halves
  <2>1. CASE i < R
    <3>1. PICK m \in 0..(n - 1) : m = R - i + 1 BY <1>0, <1>2, <2>1
    <3>2. R = i + m - 1 /\ m \in 0..N /\ i \in 0..(N - m) BY <1>0, <1>2, <3>1, SMTT(20)
    <3>3. PICK h \in Sorters(N, D, V, key)[m] : h = g[m] BY <3>1 DEF SortsLess
    <3>4. r = h[i][left] BY <2>0, <2>1, <3>1, <3>3
    <3>5. left \in [D -> V] /\ N \in Nat BY <1>3
    <3>6. Sorted(r, left, D, V, key, i, R) BY ONLY <3>2, <3>3, <3>4, <3>5, SorterIs
    <3> QED BY <3>6 DEF Sorted
  <2>2. CASE ~(i < R)
    <3>1. r = left BY <2>0, <2>2
    <3>2. InOrder(left, key, i, R) BY <1>0, <1>2, <2>2, InOrderOne
    <3> QED BY <1>3, <3>1, <3>2, ArrangedSame
  <2> QED BY <2>1, <2>2
<1>5. Arranged(r, c, D, L, R) /\ InOrder(r, key, L, R)
  <2>1. Arranged(left, w.cells, D, L, w.j) /\ InOrder(left, key, L, w.j) /\ Arranged(r, left, D, w.i, R) /\ InOrder(r, key, w.i, R)
    BY <1>2, <1>3, <1>4
  <2>2. left \in [D -> V] /\ r \in [D -> V] BY <1>3, <1>4
  <2> QED BY ONLY \A v \in V : key[v] \in Int, p \in Int, <1>0, <1>1, <2>1, <2>2, HalvesSorted
<1>6. L < j => j - L + 1 \in 0..(n - 1) BY <1>0, <1>2
<1>7. i < R => R - i + 1 \in 0..(n - 1) BY <1>0, <1>2
<1> QED BY <1>2, <1>4, <1>5, <1>6, <1>7 DEF Sorted, Fewer

-----------------------------------------------------------------------------
\* The body of sort: g[m] sorts m cells.
SortBody(g, key, n, L, c) ==
  LET R    == L + n - 1
      part == Partition(c, key, L, R)
      left == IF L < part.j THEN g[part.j - L + 1][L][part.cells] ELSE part.cells
  IN  IF part.i < R THEN g[R - part.i + 1][part.i][left] ELSE left

LEMMA SortBodyIs ==
  ASSUME NEW N, N \in Nat, NEW D, D = 0..(N - 1), NEW V, NEW key, \A v \in V : key[v] \in Int,
         NEW n, n \in 0..N, NEW g, SortsLess(g, n, N, D, V, key), NEW L, L \in 0..(N - n), NEW c, c \in [D -> V],
         NEW R, R = L + n - 1, NEW w, NEW left, NEW r, Halves(g, c, key, L, R, w, left, r)
  PROVE  Sorted(r, c, D, V, key, L, R) /\ Fewer(w, n, L, R)
<1>1. CASE n = 0
  <2>1. R = L - 1 /\ L \in Int BY <1>1
  <2>2. Halves(g, c, key, L, L - 1, w, left, r) BY <2>1
  <2>3. c \in [D -> V] OBVIOUS
  <2>4. Sorted(r, c, D, V, key, L, L - 1) /\ Fewer(w, n, L, L - 1) BY ONLY <2>1, <2>2, <2>3, SortNone
  <2> QED BY <2>1, <2>4
<1>2. CASE n # 0
  <2>1. n \in 1..N BY <1>2
  <2> QED BY <2>1, SortStep
<1> QED BY <1>1, <1>2

LEMMA SortBodySorts ==
  ASSUME NEW N, N \in Nat, NEW D, D = 0..(N - 1), NEW V, NEW key, \A v \in V : key[v] \in Int,
         NEW n, n \in 0..N, NEW g, SortsLess(g, n, N, D, V, key), NEW L, L \in 0..(N - n), NEW c, c \in [D -> V]
  PROVE  Sorted(SortBody(g, key, n, L, c), c, D, V, key, L, L + n - 1)
<1>1. PICK R : R = L + n - 1 OBVIOUS
<1>2. PICK w : w = Partition(c, key, L, R) OBVIOUS
<1>3. PICK left : left = IF L < w.j THEN g[w.j - L + 1][L][w.cells] ELSE w.cells OBVIOUS
<1>4. PICK r : r = IF w.i < R THEN g[R - w.i + 1][w.i][left] ELSE left OBVIOUS
<1>5. Halves(g, c, key, L, R, w, left, r) BY <1>2, <1>3, <1>4 DEF Halves
<1>6. SortBody(g, key, n, L, c) = r BY <1>1, <1>2, <1>3, <1>4 DEF SortBody
<1>7. Sorted(r, c, D, V, key, L, R) BY <1>1, <1>5, SortBodyIs
<1> QED BY <1>1, <1>6, <1>7

-----------------------------------------------------------------------------
\* What sorts n cells, given what sorts fewer, and what sorts any number of them.
SortRow(g, key, n, N, D, V) == [L \in 0..(N - n) |-> [c \in [D -> V] |-> SortBody(g, key, n, L, c)]]
Sorts(sort, N, D, V, key) ==
  sort = [n \in 0..N |-> [L \in 0..(N - n) |-> [c \in [D -> V] |-> SortBody(sort, key, n, L, c)]]]

LEMMA SortMade ==
  ASSUME NEW N, N \in Nat, NEW D, D = 0..(N - 1), NEW V, NEW key, \A v \in V : key[v] \in Int, NEW n, n \in 0..N,
         NEW g, SortsLess(g, n, N, D, V, key)
  PROVE  SortRow(g, key, n, N, D, V) \in Sorters(N, D, V, key)[n]
<1>1. PICK h : h = SortRow(g, key, n, N, D, V) OBVIOUS
<1>2. ASSUME NEW L \in 0..(N - n), NEW c \in [D -> V]
      PROVE  h[L][c] \in [D -> V] /\ Arranged(h[L][c], c, D, L, L + n - 1) /\ InOrder(h[L][c], key, L, L + n - 1)
  <2>1. Sorted(SortBody(g, key, n, L, c), c, D, V, key, L, L + n - 1) BY SortBodySorts
  <2>2. h[L][c] = SortBody(g, key, n, L, c) BY <1>1 DEF SortRow
  <2> QED BY <2>1, <2>2 DEF Sorted
<1>3. h \in [0..(N - n) -> [[D -> V] -> [D -> V]]] BY <1>1, <1>2 DEF SortRow
<1> QED BY <1>1, <1>2, <1>3 DEF Sorters

\* Only what sorts fewer items is used.
Uses(f, g, n, N, D, V, key) ==
  /\ N \in Nat /\ D = 0..(N - 1) /\ \A v \in V : key[v] \in Int
  /\ n \in 0..N /\ SortsLess(g, n, N, D, V, key) /\ g = Upto(f, n)

LEMMA SortRowUses ==
  ASSUME NEW f, NEW g, NEW n, NEW N, NEW D, NEW V, NEW key, Uses(f, g, n, N, D, V, key)
  PROVE  SortRow(f, key, n, N, D, V) = SortRow(g, key, n, N, D, V)
<1>0. /\ N \in Nat /\ D = 0..(N - 1) /\ \A v \in V : key[v] \in Int
      /\ n \in 0..N /\ SortsLess(g, n, N, D, V, key) /\ g = Upto(f, n)
  BY DEF Uses
<1>1. ASSUME NEW L, L \in 0..(N - n), NEW c, c \in [D -> V]
      PROVE  SortBody(f, key, n, L, c) = SortBody(g, key, n, L, c)
  <2>1. PICK R : R = L + n - 1 OBVIOUS
  <2>2. PICK w : w = Partition(c, key, L, R) OBVIOUS
  <2>3. PICK left : left = IF L < w.j THEN g[w.j - L + 1][L][w.cells] ELSE w.cells OBVIOUS
  <2>4. PICK r : r = IF w.i < R THEN g[R - w.i + 1][w.i][left] ELSE left OBVIOUS
  <2>5. Halves(g, c, key, L, R, w, left, r) BY <2>2, <2>3, <2>4 DEF Halves
  <2>6. SortBody(g, key, n, L, c) = r BY <2>1, <2>2, <2>3, <2>4 DEF SortBody
  <2>7. Fewer(w, n, L, R) BY <1>0, <1>1, <2>1, <2>5, SortBodyIs
  <2>8. \A m \in 0..(n - 1) : g[m] = f[m] BY <1>0 DEF Upto
  <2>9. L < w.j => g[w.j - L + 1] = f[w.j - L + 1] BY <2>7, <2>8 DEF Fewer
  <2>10. w.i < R => g[R - w.i + 1] = f[R - w.i + 1] BY <2>7, <2>8 DEF Fewer
  <2>11. left = IF L < w.j THEN f[w.j - L + 1][L][w.cells] ELSE w.cells BY <2>3, <2>9
  <2>12. r = IF w.i < R THEN f[R - w.i + 1][w.i][left] ELSE left BY <2>4, <2>10
  <2>13. SortBody(f, key, n, L, c) = r BY <2>1, <2>2, <2>11, <2>12 DEF SortBody
  <2> QED BY <2>6, <2>13
<1>2. \A L \in 0..(N - n) : \A c \in [D -> V] : SortBody(f, key, n, L, c) = SortBody(g, key, n, L, c) BY <1>1
<1> QED BY <1>2 DEF SortRow

LEMMA SortExists ==
  ASSUME NEW N, N \in Nat, NEW D, D = 0..(N - 1), NEW V, NEW key, \A v \in V : key[v] \in Int
  PROVE  \E sort : Sorts(sort, N, D, V, key)
<1>1. PICK T : T = Sorters(N, D, V, key) OBVIOUS
<1>2. PICK down : down = [n \in 0..N |-> [g \in Below(n, T) |-> SortRow(g, key, n, N, D, V)]] OBVIOUS
<1>3. ASSUME NEW n \in 0..N, NEW g \in Below(n, T) PROVE SortsLess(g, n, N, D, V, key)
  BY <1>1 DEF Below, SortsLess
<1>4. Descends(N, T, down)
  <2>1. ASSUME NEW n \in 0..N, NEW g \in Below(n, T) PROVE down[n][g] \in T[n]
    <3>1. SortsLess(g, n, N, D, V, key) BY <1>3
    <3>2. SortRow(g, key, n, N, D, V) \in Sorters(N, D, V, key)[n] BY <3>1, SortMade
    <3> QED BY <1>1, <1>2, <3>2
  <2> QED BY <2>1 DEF Descends
<1>5. PICK f : Recursive(f, N, T, down) BY <1>4, Recursion
<1>6. f \in Below(N + 1, T) /\ \A n \in 0..N : f[n] = down[n][Upto(f, n)] BY <1>5 DEF Recursive
<1>7. DOMAIN f = 0..N /\ f = [n \in 0..N |-> f[n]] /\ \A n \in 0..N : f[n] \in T[n]
  <2>1. N \in Nat /\ f \in Below(N + 1, T) BY <1>6
  <2> QED BY ONLY <2>1, BelowIs
<1>8. ASSUME NEW n \in 0..N PROVE f[n] = SortRow(f, key, n, N, D, V)
  <2>1. PICK g : g = Upto(f, n) OBVIOUS
  <2>2. \A m \in 0..(n - 1) : g[m] \in T[m] BY <1>7, <2>1 DEF Upto
  <2>3. g \in Below(n, T)
    <3>1. \A k \in 0..(n - 1) : g[k] \in UNION {T[m] : m \in 0..(n - 1)} BY <2>2
    <3>2. g = [k \in 0..(n - 1) |-> g[k]] BY <2>1 DEF Upto
    <3> QED BY <2>2, <3>1, <3>2 DEF Below
  <2>4. SortsLess(g, n, N, D, V, key) BY <1>3, <2>3
  <2>5. f[n] = SortRow(g, key, n, N, D, V) BY <1>2, <1>6, <2>1, <2>3
  <2>6. SortRow(f, key, n, N, D, V) = SortRow(g, key, n, N, D, V)
    <3>1. Uses(f, g, n, N, D, V, key) BY <2>1, <2>4 DEF Uses
    <3> QED BY ONLY <3>1, SortRowUses
  <2> QED BY <2>5, <2>6
<1>9. f = [n \in 0..N |-> [L \in 0..(N - n) |-> [c \in [D -> V] |-> SortBody(f, key, n, L, c)]]] BY <1>7, <1>8 DEF SortRow
<1>10. Sorts(f, N, D, V, key) BY <1>9 DEF Sorts
<1> QED BY <1>10

LEMMA SortsAll ==
  ASSUME NEW N, N \in Nat, NEW D, D = 0..(N - 1), NEW V, NEW key, \A v \in V : key[v] \in Int,
         NEW sort, Sorts(sort, N, D, V, key), NEW c \in [D -> V]
  PROVE  Sorted(sort[N][0][c], c, D, V, key, 0, N - 1)
<1>1. PICK S : S = {n \in Nat : n <= N + 1 => SortsLess(sort, n, N, D, V, key)} OBVIOUS
<1>2. 0 \in S BY <1>1 DEF SortsLess
<1>3. ASSUME NEW n \in Nat, n \in S PROVE n + 1 \in S
  <2>1. CASE n + 1 <= N + 1
    <3>1. SortsLess(sort, n, N, D, V, key) /\ n \in 0..N BY <1>1, <1>3, <2>1
    <3>2. sort[n] = SortRow(sort, key, n, N, D, V) BY <3>1 DEF Sorts, SortRow
    <3>3. SortRow(sort, key, n, N, D, V) \in Sorters(N, D, V, key)[n] BY <3>1, SortMade
    <3>4. \A m \in 0..n : m = n \/ m \in 0..(n - 1) BY <1>3
    <3>5. n + 1 - 1 = n BY <1>3
    <3>6. SortsLess(sort, n + 1, N, D, V, key) BY <3>1, <3>2, <3>3, <3>4, <3>5 DEF SortsLess
    <3> QED BY <1>1, <3>6
  <2>2. CASE ~(n + 1 <= N + 1) BY <1>1, <2>2
  <2> QED BY <2>1, <2>2
<1>4. Nat \subseteq S BY <1>2, <1>3, Inductive
<1>5. SortsLess(sort, N + 1, N, D, V, key) BY <1>1, <1>4
<1>6. N \in 0..N /\ N \in 0..(N + 1 - 1) /\ 0 \in 0..(N - N) /\ N - 1 = 0 + N - 1 OBVIOUS
<1>7. PICK h : h = sort[N] OBVIOUS
<1>8. h \in Sorters(N, D, V, key)[N] BY <1>5, <1>6, <1>7 DEF SortsLess
<1>9. PICK r : r = h[0][c] OBVIOUS
<1>10. PICK z : z = 0 OBVIOUS
<1>11. Sorted(r, c, D, V, key, z, N - 1)
  <2>1. z \in 0..(N - N) /\ N - 1 = z + N - 1 /\ r = h[z][c] /\ c \in [D -> V] /\ N \in Nat BY <1>6, <1>9, <1>10
  <2> QED BY ONLY <1>6, <1>8, <2>1, SorterIs
<1> QED BY <1>7, <1>9, <1>10, <1>11

\* QuickSort's items: in the order of their keys, the same as before
LEMMA QuickSortSorts ==
  ASSUME NEW l \in Block, NEW key, \A i \in 0..(l.count - 1) : key[l.cells[i]] \in Int,
         NEW d, d = QuickSort(l, key), NEW D, D = 0..(l.count - 1)
  PROVE  /\ d \in Block /\ d.count = l.count
         /\ \E r : Arranged(r, l.cells, D, 0, l.count - 1) /\ InOrder(r, key, 0, l.count - 1) /\ \A i \in D : d.cells[i] = r[i]
<1>1. /\ l = [cells |-> l.cells, capacity |-> l.capacity, count |-> l.count]
      /\ l.capacity \in Nat /\ l.count \in 0..l.capacity /\ l.cells \in [0..(l.capacity - 1) -> Int] BY BlockIs
<1>2. PICK V : V = {l.cells[i] : i \in D} OBVIOUS
<1>3. \A v \in V : key[v] \in Int BY <1>2
<1>4. l.count \in Nat BY <1>1
<1>5. \E sort : Sorts(sort, l.count, D, V, key) BY <1>3, <1>4, SortExists
<1>6. \E sort : Sorts(sort, l.count, 0..(l.count - 1), {l.cells[i] : i \in 0..(l.count - 1)}, key) BY <1>2, <1>5
<1>7. PICK sort : /\ Sorts(sort, l.count, 0..(l.count - 1), {l.cells[i] : i \in 0..(l.count - 1)}, key)
                  /\ d = [l EXCEPT !.cells = [i \in DOMAIN l.cells |-> IF i \in 0..(l.count - 1) THEN sort[l.count][0][[j \in 0..(l.count - 1) |-> l.cells[j]]][i] ELSE l.cells[i]]]
  BY <1>6 DEF QuickSort, SortBody, Sorts
<1>8. PICK c : c = [j \in D |-> l.cells[j]] OBVIOUS
<1>9. PICK r : r = sort[l.count][0][c] OBVIOUS
<1>10. c \in [D -> V] BY <1>2, <1>8
<1>11. Sorted(r, c, D, V, key, 0, l.count - 1)
  <2>1. Sorts(sort, l.count, D, V, key) BY <1>2, <1>7
  <2> QED BY <1>3, <1>4, <1>9, <1>10, <2>1, SortsAll
<1>12. PICK e : e = [i \in 0..(l.capacity - 1) |-> IF i \in D THEN r[i] ELSE l.cells[i]] OBVIOUS
<1>13. d.cells = e /\ d.capacity = l.capacity /\ d.count = l.count
       /\ d = [cells |-> d.cells, capacity |-> d.capacity, count |-> d.count]
  <2>1. DOMAIN l.cells = 0..(l.capacity - 1) BY <1>1
  <2>2. d = [l EXCEPT !.cells = [i \in DOMAIN l.cells |-> IF i \in D THEN r[i] ELSE l.cells[i]]] BY <1>7, <1>8, <1>9
  <2> QED BY <1>1, <1>12, <2>1, <2>2
<1>14. e \in [0..(l.capacity - 1) -> Int]
  <2>1. V \subseteq Int BY <1>1, <1>2
  <2>2. \A i \in D : r[i] \in Int BY <1>11, <2>1 DEF Sorted
  <2> QED BY <1>1, <1>12, <2>2
<1>15. d \in Block
  <2>1. d = [cells |-> e, capacity |-> l.capacity, count |-> l.count] BY <1>13
  <2> QED BY <1>1, <1>14, <2>1, BlockMade
<1>16. \A i \in D : d.cells[i] = r[i] BY <1>1, <1>12, <1>13
<1>17. Arranged(r, l.cells, D, 0, l.count - 1)
  <2>1. PICK p \in [D -> D] : /\ \A x, y \in D : p[x] = p[y] => x = y
                              /\ \A x \in D : r[x] = c[p[x]]
                              /\ \A x \in D : IF x \in 0..(l.count - 1) THEN p[x] \in 0..(l.count - 1) ELSE p[x] = x
    BY <1>11 DEF Sorted, Arranged
  <2>2. \A x \in D : r[x] = l.cells[p[x]] BY <1>8, <2>1
  <2> QED BY <2>1, <2>2 DEF Arranged
<1> QED BY <1>11, <1>13, <1>15, <1>16, <1>17 DEF Sorted

-----------------------------------------------------------------------------
\* TList, from a list and its copies to the sequence of their values.

Addresses == Nat \ {0}
Stores == UNION {[A -> Values] : A \in SUBSET Addresses}
Owning(s, h) == s \in Seq(Addresses) /\ h \in Stores /\ NoDuplicates(s) /\ Members(s) = DOMAIN h
Seen(s, h) == [i \in 1..Len(s) |-> h[s[i]]]
\* The same, item by item: the n copies of the store h are those s points at, and their values are r.
Dealt(s, n, h, r) ==
  /\ s \in Seq(Int) /\ Len(s) = n
  /\ \A i \in 1..n : s[i] \in DOMAIN h /\ s[i] \in Addresses
  /\ \A i, j \in 1..n : s[i] = s[j] => i = j
  /\ \A a \in DOMAIN h : \E i \in 1..n : s[i] = a
  /\ h = [a \in DOMAIN h |-> h[a]] /\ \A a \in DOMAIN h : a \in Addresses /\ h[a] \in Values
  /\ r \in Seq(Values) /\ Len(r) = n
  /\ \A i \in 1..n : r[i] = h[s[i]]

LEMMA OwningIs ==
  ASSUME NEW s, NEW h, Owning(s, h), NEW r, r = Seen(s, h), NEW n, n = Len(s)
  PROVE  n \in Nat /\ Dealt(s, n, h, r)
<1>1. s \in Seq(Addresses) /\ DOMAIN s = 1..n /\ n \in Nat BY DEF Owning
<1>2. \A i, j \in 1..n : s[i] = s[j] => i = j BY <1>1 DEF Owning, NoDuplicates
<1>3. DOMAIN h = {s[i] : i \in 1..n} BY <1>1 DEF Owning, Members
<1>4. h = [a \in DOMAIN h |-> h[a]] /\ \A a \in DOMAIN h : a \in Addresses /\ h[a] \in Values
  <2>1. PICK A \in SUBSET Addresses : h \in [A -> Values] BY DEF Owning, Stores
  <2> QED BY <2>1
<1>5. \A i \in 1..n : s[i] \in DOMAIN h BY <1>3
<1>6. \A a \in DOMAIN h : \E i \in 1..n : s[i] = a BY <1>3
<1>7. r = [i \in 1..n |-> h[s[i]]] BY DEF Seen
<1>8. r \in Seq(Values) /\ Len(r) = n /\ \A i \in 1..n : r[i] = h[s[i]] BY <1>1, <1>4, <1>5, <1>7
<1>9. s \in Seq(Int)
  <2>1. \A i \in 1..n : s[i] \in Int BY <1>4, <1>5 DEF Addresses
  <2>2. s = [i \in 1..n |-> s[i]] BY <1>1
  <2> QED BY <1>1, <2>1, <2>2
<1> QED BY <1>1, <1>2, <1>4, <1>5, <1>6, <1>8, <1>9 DEF Dealt

LEMMA OwningMade ==
  ASSUME NEW s, NEW n, n \in Nat, NEW h, NEW r, Dealt(s, n, h, r)
  PROVE  Owning(s, h) /\ r = Seen(s, h) /\ Len(s) = n
<1>0. s \in Seq(Int) /\ Len(s) = n /\ DOMAIN s = 1..n /\ s = [i \in 1..n |-> s[i]] BY DEF Dealt
<1>1. s \in Seq(Addresses)
  <2>1. \A i \in 1..n : s[i] \in Addresses BY DEF Dealt
  <2> QED BY <1>0, <2>1
<1>2. h \in Stores
  <2>1. PICK A : A = DOMAIN h OBVIOUS
  <2>2. h \in [A -> Values] /\ A \in SUBSET Addresses BY <2>1 DEF Dealt
  <2> QED BY <2>2 DEF Stores
<1>3. NoDuplicates(s) BY <1>0 DEF NoDuplicates, Dealt
<1>4. Members(s) = DOMAIN h
  <2>1. \A i \in 1..n : s[i] \in DOMAIN h BY DEF Dealt
  <2>2. \A a \in DOMAIN h : \E i \in 1..n : s[i] = a BY DEF Dealt
  <2>3. Members(s) = {s[i] : i \in 1..n} BY <1>0 DEF Members
  <2> QED BY <2>1, <2>2, <2>3
<1>5. r = Seen(s, h)
  <2>1. r = [i \in 1..n |-> r[i]] /\ \A i \in 1..n : r[i] = h[s[i]] BY DEF Dealt
  <2> QED BY <1>0, <2>1 DEF Seen
<1> QED BY <1>0, <1>1, <1>2, <1>3, <1>4, <1>5 DEF Owning

LEMMA OwnedCounted ==
  ASSUME NEW s, NEW h, Owning(s, h)
  PROVE  IsFiniteSet(DOMAIN h) /\ Cardinality(DOMAIN h) = Len(s) /\ Len(s) \in Nat
BY MembersCounted DEF Owning

LEMMA FreeAddressIsFree ==
  ASSUME NEW s, NEW h, Owning(s, h)
  PROVE  FreeAddress(h) \in Addresses /\ FreeAddress(h) \notin DOMAIN h
<1> DEFINE n == Cardinality(DOMAIN h)
           free == (1..(n + 1)) \ DOMAIN h
<1>1. n \in Nat /\ IsFiniteSet(DOMAIN h) BY OwnedCounted
<1>2. IsFiniteSet(1..(n + 1)) /\ Cardinality(1..(n + 1)) = n + 1 BY <1>1, FS_Interval
<1>3. free # {}
  <2> SUFFICES ASSUME 1..(n + 1) \in SUBSET DOMAIN h PROVE FALSE OBVIOUS
  <2>1. Cardinality(1..(n + 1)) <= n BY <1>1, FS_Subset
  <2> HIDE DEF n
  <2> QED BY <1>1, <1>2, <2>1
<1>4. free \subseteq Nat \ {0} BY <1>1
<1>5. Min(free) \in free BY <1>3, <1>4, LeastIndex
<1>6. FreeAddress(h) = Min(free) BY DEF FreeAddress
<1> QED BY <1>4, <1>5, <1>6 DEF Addresses

\* The store with v at the address a, and a sequence with v at the place k.
StoreWith(h, a, v) == [b \in DOMAIN h \cup {a} |-> IF b \in DOMAIN h THEN h[b] ELSE v]
Replaced(f, k, v) == [f EXCEPT ![k] = v]
\* A new copy, and the place that points at it
Opened(s, h, k, a, v, t, g, r, q) ==
  /\ k \in 1..(Len(s) + 1) /\ a \in Addresses /\ a \notin DOMAIN h /\ v \in Values
  /\ t = InsertAt(s, k, a) /\ g = StoreWith(h, a, v) /\ r = Seen(s, h) /\ q = InsertAt(r, k, v)

LEMMA OwnsInserted ==
  ASSUME NEW s, NEW h, Owning(s, h), NEW k, NEW a, NEW v, NEW t, NEW g, NEW r, NEW q, Opened(s, h, k, a, v, t, g, r, q)
  PROVE  Owning(t, g) /\ Seen(t, g) = q
<1>0. /\ k \in 1..(Len(s) + 1) /\ a \in Addresses /\ a \notin DOMAIN h /\ v \in Values
      /\ t = InsertAt(s, k, a) /\ g = StoreWith(h, a, v) /\ r = Seen(s, h) /\ q = InsertAt(r, k, v)
  BY DEF Opened
<1> USE <1>0
<1>1. PICK n : n = Len(s) OBVIOUS
<1>2. n \in Nat /\ Dealt(s, n, h, r) BY <1>1, OwningIs
<1>3. /\ t \in Seq(Int) /\ Len(t) = n + 1
      /\ \A o \in 1..(n + 1) : t[o] = IF o < k THEN s[o] ELSE IF o = k THEN a ELSE s[o - 1]
  <2>1. a \in Int /\ s \in Seq(Int) BY <1>2 DEF Addresses, Dealt
  <2>2. t \in Seq(Int) /\ Inserted(t, s, k, a) BY <2>1, InsertIs
  <2> QED BY <1>1, <2>2 DEF Inserted
<1>4. DOMAIN g = DOMAIN h \cup {a} /\ g[a] = v /\ (\A b \in DOMAIN h : g[b] = h[b]) /\ g = [b \in DOMAIN g |-> g[b]] BY DEF StoreWith
<1>5. \A b \in DOMAIN g : b \in Addresses /\ g[b] \in Values BY <1>2, <1>4 DEF Dealt
<1>6. k \in 1..(n + 1) /\ \A o \in 1..(n + 1) : (o < k => o \in 1..n) /\ (o > k => o - 1 \in 1..n) BY <1>1, <1>2
<1>70. \A i \in 1..n : s[i] \in DOMAIN h /\ s[i] # a BY <1>2 DEF Dealt
<1>7. ASSUME NEW o \in 1..(n + 1)
      PROVE  /\ o = k => t[o] = a
             /\ o < k => o \in 1..n /\ t[o] = s[o] /\ t[o] # a /\ t[o] \in DOMAIN h
             /\ o > k => o - 1 \in 1..n /\ t[o] = s[o - 1] /\ t[o] # a /\ t[o] \in DOMAIN h
             /\ t[o] \in DOMAIN g
  <2>1. o \in Int /\ k \in Int BY <1>2, <1>6
  <2>2. CASE o = k BY <1>3, <1>4, <2>1, <2>2
  <2>3. CASE o < k BY <1>3, <1>4, <1>6, <1>70, <2>1, <2>3
  <2>4. CASE o > k BY <1>3, <1>4, <1>6, <1>70, <2>1, <2>4
  <2> QED BY <2>1, <2>2, <2>3, <2>4
<1>8. ASSUME NEW i \in 1..(n + 1), NEW j \in 1..(n + 1), t[i] = t[j] PROVE i = j
  <2>0. i \in Int /\ j \in Int /\ k \in Int /\ \A x, y \in 1..n : s[x] = s[y] => x = y BY <1>2, <1>6 DEF Dealt
  <2>1. CASE i = k \/ j = k BY <1>7, <1>8, <2>0, <2>1
  <2>2. CASE i < k /\ j < k BY <1>7, <1>8, <2>0, <2>2
  <2>3. CASE i < k /\ j > k
    <3>1. i = j - 1 BY <1>7, <1>8, <2>0, <2>3
    <3> QED BY <2>0, <2>3, <3>1
  <2>4. CASE i > k /\ j < k
    <3>1. i - 1 = j BY <1>7, <1>8, <2>0, <2>4
    <3> QED BY <2>0, <2>4, <3>1
  <2>5. CASE i > k /\ j > k
    <3>1. i - 1 = j - 1 BY <1>7, <1>8, <2>0, <2>5
    <3> QED BY <2>0, <3>1
  <2> QED BY <2>0, <2>1, <2>2, <2>3, <2>4, <2>5
<1>9. ASSUME NEW b \in DOMAIN g PROVE \E i \in 1..(n + 1) : t[i] = b
  <2>1. CASE b = a BY <1>6, <1>7, <2>1
  <2>2. CASE b # a
    <3>1. PICK i \in 1..n : s[i] = b BY <1>2, <1>4, <2>2 DEF Dealt
    <3>2. CASE i < k
      <4>1. i \in 1..(n + 1) BY <1>2
      <4> QED BY <1>7, <3>1, <3>2, <4>1
    <3>3. CASE ~(i < k)
      <4>1. i + 1 \in 1..(n + 1) /\ (i + 1) - 1 = i /\ i + 1 > k BY <1>2, <1>6, <3>3
      <4> QED BY <1>7, <3>1, <4>1
    <3> QED BY <3>2, <3>3
  <2> QED BY <2>1, <2>2
<1>11. r \in Seq(Values) /\ Len(r) = n /\ \A i \in 1..n : r[i] = h[s[i]] BY <1>2 DEF Dealt
<1>13. q \in Seq(Values) /\ Len(q) = n + 1 /\ \A o \in 1..(n + 1) : q[o] = IF o < k THEN r[o] ELSE IF o = k THEN v ELSE r[o - 1]
  <2>0. k \in 1..(Len(r) + 1) /\ r \in Seq(Values) BY <1>6, <1>11
  <2>1. q \in Seq(Values) /\ Inserted(q, r, k, v) BY ONLY <1>0, <2>0, InsertOf
  <2> QED BY <1>11, <2>1 DEF Inserted
<1>14. ASSUME NEW o \in 1..(n + 1) PROVE q[o] = g[t[o]]
  <2>0. o \in Int /\ k \in Int BY <1>6
  <2>1. CASE o = k BY <1>4, <1>7, <1>13, <2>0, <2>1
  <2>2. CASE o < k BY <1>4, <1>7, <1>11, <1>13, <2>0, <2>2
  <2>3. CASE o > k
    <3>1. o - 1 \in 1..n /\ t[o] = s[o - 1] /\ t[o] \in DOMAIN h /\ ~(o < k) /\ o # k BY <1>7, <2>0, <2>3
    <3>2. q[o] = r[o - 1] BY <1>13, <3>1
    <3> QED BY <1>4, <1>11, <3>1, <3>2
  <2> QED BY <2>0, <2>1, <2>2, <2>3
<1>15. \A i \in 1..(n + 1) : t[i] \in DOMAIN g /\ t[i] \in Addresses BY <1>5, <1>7
<1>16. Dealt(t, n + 1, g, q) BY <1>3, <1>4, <1>5, <1>8, <1>9, <1>13, <1>14, <1>15 DEF Dealt
<1>17. n + 1 \in Nat BY <1>2
<1>18. Owning(t, g) /\ q = Seen(t, g) BY <1>16, <1>17, OwningMade
<1> QED BY <1>18

-----------------------------------------------------------------------------
\* A copy deleted, and the place that pointed at it closed
LEMMA OwnsRemoved ==
  ASSUME NEW s, NEW h, Owning(s, h), NEW k, k \in 1..Len(s), NEW a, a = s[k],
         NEW t, t = RemoveAt(s, k), NEW g, g = [b \in DOMAIN h \ {a} |-> h[b]]
  PROVE  Owning(t, g) /\ Seen(t, g) = RemoveAt(Seen(s, h), k)
<1>1. PICK n, r : n = Len(s) /\ r = Seen(s, h) OBVIOUS
<1>2. n \in Nat /\ Dealt(s, n, h, r) BY <1>1, OwningIs
<1>3. t \in Seq(Int) /\ Len(t) = n - 1 /\ \A o \in 1..(n - 1) : t[o] = IF o < k THEN s[o] ELSE s[o + 1]
  <2>1. s \in Seq(Int) BY <1>2 DEF Dealt
  <2>2. t \in Seq(Int) /\ Removed(t, s, k) BY ONLY k \in 1..Len(s), t = RemoveAt(s, k), <2>1, RemoveIs
  <2> QED BY <1>1, <2>2 DEF Removed
<1>4. DOMAIN g = DOMAIN h \ {a} /\ (\A b \in DOMAIN g : g[b] = h[b]) /\ g = [b \in DOMAIN g |-> g[b]] OBVIOUS
<1>5. \A b \in DOMAIN g : b \in Addresses /\ g[b] \in Values BY <1>2, <1>4 DEF Dealt
<1>6. k \in 1..n /\ n - 1 \in Nat /\ \A o \in 1..(n - 1) : o \in 1..n /\ o + 1 \in 1..n BY <1>1, <1>2
<1>7. ASSUME NEW o \in 1..(n - 1)
      PROVE  /\ o < k => t[o] = s[o]
             /\ ~(o < k) => t[o] = s[o + 1]
             /\ t[o] # a /\ t[o] \in DOMAIN h /\ t[o] \in DOMAIN g /\ t[o] \in Addresses
  <2>1. \A i \in 1..n : s[i] \in DOMAIN h /\ s[i] \in Addresses /\ (s[i] = a => i = k) BY <1>2, <1>6 DEF Dealt
  <2>2. CASE o < k
    <3>1. o \in 1..n /\ o # k /\ t[o] = s[o] BY <1>3, <1>6, <2>2
    <3> QED BY <1>4, <2>1, <2>2, <3>1
  <2>3. CASE ~(o < k)
    <3>1. o + 1 \in 1..n /\ o + 1 # k /\ t[o] = s[o + 1] BY <1>3, <1>6, <2>3
    <3> QED BY <1>4, <2>1, <2>3, <3>1
  <2> QED BY <2>2, <2>3
<1>8. ASSUME NEW i \in 1..(n - 1), NEW j \in 1..(n - 1), t[i] = t[j] PROVE i = j
  <2>0. i \in Int /\ j \in Int /\ k \in Int /\ \A x, y \in 1..n : s[x] = s[y] => x = y BY <1>2, <1>6 DEF Dealt
  <2>1. CASE i < k /\ j < k
    <3>1. s[i] = s[j] BY <1>7, <1>8, <2>1
    <3> QED BY <1>6, <2>0, <3>1
  <2>2. CASE i < k /\ ~(j < k)
    <3>1. s[i] = s[j + 1] BY <1>7, <1>8, <2>2
    <3>2. i = j + 1 BY <1>6, <2>0, <3>1
    <3> QED BY <2>0, <2>2, <3>2
  <2>3. CASE ~(i < k) /\ j < k
    <3>1. s[i + 1] = s[j] BY <1>7, <1>8, <2>3
    <3>2. i + 1 = j BY <1>6, <2>0, <3>1
    <3> QED BY <2>0, <2>3, <3>2
  <2>4. CASE ~(i < k) /\ ~(j < k)
    <3>1. s[i + 1] = s[j + 1] BY <1>7, <1>8, <2>4
    <3>2. i + 1 = j + 1 BY <1>6, <2>0, <3>1
    <3> QED BY <2>0, <3>2
  <2> QED BY <2>1, <2>2, <2>3, <2>4
<1>9. ASSUME NEW b \in DOMAIN g PROVE \E i \in 1..(n - 1) : t[i] = b
  <2>1. PICK i \in 1..n : s[i] = b BY <1>2, <1>4 DEF Dealt
  <2>2. i # k BY <1>4, <2>1
  <2>3. CASE i < k
    <3>1. i \in 1..(n - 1) BY <1>2, <1>6, <2>3
    <3> QED BY <1>7, <2>1, <2>3, <3>1
  <2>4. CASE ~(i < k)
    <3>1. i - 1 \in 1..(n - 1) /\ (i - 1) + 1 = i /\ ~(i - 1 < k) BY <1>2, <1>6, <2>2, <2>4
    <3> QED BY <1>7, <2>1, <3>1
  <2> QED BY <2>3, <2>4
<1>10. r \in Seq(Values) /\ Len(r) = n /\ \A i \in 1..n : r[i] = h[s[i]] BY <1>2 DEF Dealt
<1>11. PICK q : q = RemoveAt(r, k) OBVIOUS
<1>12. q \in Seq(Values) /\ Len(q) = n - 1 /\ \A o \in 1..(n - 1) : q[o] = IF o < k THEN r[o] ELSE r[o + 1]
  <2>0. k \in 1..Len(r) /\ r \in Seq(Values) BY <1>6, <1>10
  <2>1. q \in Seq(Values) /\ Removed(q, r, k) BY ONLY <1>11, <2>0, RemoveIs
  <2> QED BY <1>10, <2>1 DEF Removed
<1>13. ASSUME NEW o \in 1..(n - 1) PROVE q[o] = g[t[o]]
  <2>1. CASE o < k BY <1>4, <1>6, <1>7, <1>10, <1>12, <2>1
  <2>2. CASE ~(o < k)
    <3>1. o + 1 \in 1..n /\ t[o] = s[o + 1] /\ t[o] \in DOMAIN g BY <1>6, <1>7, <2>2
    <3>2. q[o] = r[o + 1] BY <1>12, <2>2
    <3> QED BY <1>4, <1>10, <3>1, <3>2
  <2> QED BY <2>1, <2>2
<1>14. \A i \in 1..(n - 1) : t[i] \in DOMAIN g /\ t[i] \in Addresses BY <1>7
<1>15. Dealt(t, n - 1, g, q) BY <1>3, <1>4, <1>5, <1>8, <1>9, <1>12, <1>13, <1>14 DEF Dealt
<1>16. Owning(t, g) /\ q = Seen(t, g) BY <1>6, <1>15, OwningMade
<1> QED BY <1>1, <1>11, <1>16

\* A copy assigned to
LEMMA OwnsAssigned ==
  ASSUME NEW s, NEW h, Owning(s, h), NEW k, k \in 1..Len(s), NEW v, v \in Values, NEW a, a = s[k], NEW g, g = Replaced(h, a, v),
         NEW r, r = Seen(s, h), NEW q, q = Replaced(r, k, v)
  PROVE  Owning(s, g) /\ Seen(s, g) = q
<1>1. PICK n : n = Len(s) OBVIOUS
<1>2. n \in Nat /\ Dealt(s, n, h, r) BY <1>1, OwningIs
<1>4. r \in Seq(Values) /\ Len(r) = n /\ \A i \in 1..n : r[i] = h[s[i]] BY <1>2 DEF Dealt
<1>5. q \in Seq(Values) /\ Len(q) = n /\ \A i \in 1..n : q[i] = IF i = k THEN v ELSE r[i] BY <1>1, <1>4 DEF Replaced
<1>6. DOMAIN g = DOMAIN h /\ s[k] \in DOMAIN h BY <1>1, <1>2 DEF Dealt, Replaced
<1>7. (\A b \in DOMAIN g : g[b] = IF b = s[k] THEN v ELSE h[b]) /\ g = [b \in DOMAIN g |-> g[b]] BY <1>6 DEF Replaced
<1>8. \A b \in DOMAIN g : b \in Addresses /\ g[b] \in Values BY <1>2, <1>6, <1>7 DEF Dealt
<1>9. ASSUME NEW i \in 1..n PROVE q[i] = g[s[i]]
  <2>1. s[i] \in DOMAIN h /\ (s[i] = s[k] => i = k) BY <1>1, <1>2 DEF Dealt
  <2> QED BY <1>4, <1>5, <1>6, <1>7, <2>1
<1>10. Dealt(s, n, g, q) BY <1>2, <1>5, <1>6, <1>7, <1>8, <1>9 DEF Dealt
<1>11. Owning(s, g) /\ q = Seen(s, g) BY <1>2, <1>10, OwningMade
<1> QED BY <1>11

\* The places in another order
Onto(p, n) ==
  /\ p \in [1..n -> 1..n] /\ \A i, j \in 1..n : p[i] = p[j] => i = j
  /\ \A x \in 1..n : \E i \in 1..n : p[i] = x

LEMMA OrdersOnto ==
  ASSUME NEW n, n \in Nat, NEW p, p \in [1..n -> 1..n], \A i, j \in 1..n : p[i] = p[j] => i = j
  PROVE  Onto(p, n)
<1>1. PICK S : S = 1..n OBVIOUS
<1>2. IsFiniteSet(S) BY <1>1, FS_Interval
<1>3. p \in Injection(S, S) BY <1>1 DEF Injection, IsInjective
<1>4. p \in Surjection(S, S) BY <1>2, <1>3, FS_Injection
<1>5. \A x \in 1..n : \E i \in 1..n : p[i] = x BY <1>1, <1>4 DEF Surjection
<1> QED BY <1>5 DEF Onto

LEMMA OwnsRearranged ==
  ASSUME NEW s, NEW h, Owning(s, h), NEW n, n = Len(s), NEW p, Onto(p, n), NEW t, t \in Seq(Int), Len(t) = n,
         \A i \in 1..n : t[i] = s[p[i]], NEW q, q = [i \in 1..n |-> Seen(s, h)[p[i]]]
  PROVE  Owning(t, h) /\ Seen(t, h) = q
<1>1. PICK r : r = Seen(s, h) OBVIOUS
<1>2. n \in Nat /\ Dealt(s, n, h, r) BY <1>1, OwningIs
<1>3. \A i \in 1..n : p[i] \in 1..n BY DEF Onto
<1>4. r \in Seq(Values) /\ Len(r) = n /\ \A i \in 1..n : r[i] = h[s[i]] BY <1>2 DEF Dealt
<1>5. q \in Seq(Values) /\ Len(q) = n /\ \A i \in 1..n : q[i] = h[t[i]] BY <1>1, <1>2, <1>3, <1>4
<1>6. \A i \in 1..n : t[i] \in DOMAIN h /\ t[i] \in Addresses BY <1>2, <1>3 DEF Dealt
<1>7. \A i, j \in 1..n : t[i] = t[j] => i = j BY <1>2, <1>3 DEF Dealt, Onto
<1>8. ASSUME NEW a \in DOMAIN h PROVE \E i \in 1..n : t[i] = a
  <2>1. PICK x \in 1..n : s[x] = a BY <1>2 DEF Dealt
  <2>2. PICK i \in 1..n : p[i] = x BY DEF Onto
  <2> QED BY <2>1, <2>2
<1>9. h = [a \in DOMAIN h |-> h[a]] /\ \A a \in DOMAIN h : a \in Addresses /\ h[a] \in Values BY <1>2 DEF Dealt
<1>10. Dealt(t, n, h, q) BY <1>5, <1>6, <1>7, <1>8, <1>9 DEF Dealt
<1> QED BY <1>2, <1>10, OwningMade

\* The last places dropped, with their copies
Cut(s, h, m, t, out, g, q) ==
  /\ m \in 0..Len(s) /\ t \in Seq(Int) /\ Len(t) = m /\ \A i \in 1..m : t[i] = s[i]
  /\ \A i \in (m + 1)..Len(s) : s[i] \in out
  /\ \A a \in out : \E i \in (m + 1)..Len(s) : s[i] = a
  /\ g = [b \in DOMAIN h \ out |-> h[b]] /\ q = [i \in 1..m |-> Seen(s, h)[i]]

LEMMA OwnsShortened ==
  ASSUME NEW s, NEW h, Owning(s, h), NEW m, NEW t, NEW out, NEW g, NEW q, Cut(s, h, m, t, out, g, q)
  PROVE  Owning(t, g) /\ Seen(t, g) = q
<1>0. /\ m \in 0..Len(s) /\ t \in Seq(Int) /\ Len(t) = m /\ \A i \in 1..m : t[i] = s[i]
      /\ g = [b \in DOMAIN h \ out |-> h[b]] /\ q = [i \in 1..m |-> Seen(s, h)[i]]
  BY DEF Cut
<1>1. PICK n, r : n = Len(s) /\ r = Seen(s, h) OBVIOUS
<1>2. n \in Nat /\ Dealt(s, n, h, r) BY <1>1, OwningIs
<1>3. m \in Nat /\ \A i \in 1..m : i \in 1..n BY <1>0, <1>1, <1>2
<1>4. r \in Seq(Values) /\ Len(r) = n /\ \A i \in 1..n : r[i] = h[s[i]] BY <1>2 DEF Dealt
<1>5. /\ \A i \in (m + 1)..n : s[i] \in out
      /\ \A a \in out : \E i \in (m + 1)..n : s[i] = a
  BY <1>1 DEF Cut
<1>6. DOMAIN g = DOMAIN h \ out /\ (\A b \in DOMAIN g : g[b] = h[b]) /\ g = [b \in DOMAIN g |-> g[b]] BY <1>0, <1>1
<1>7. \A i \in 1..m : t[i] \in DOMAIN g /\ t[i] \in Addresses
  <2> TAKE i \in 1..m
  <2>1. s[i] \notin out
    <3>1. \A j \in (m + 1)..n : j \in 1..n /\ j # i BY <1>2, <1>3
    <3>2. \A j \in (m + 1)..n : s[j] # s[i] BY <1>2, <1>3, <3>1 DEF Dealt
    <3> QED BY <1>5, <3>2
  <2> QED BY <1>0, <1>2, <1>3, <1>6, <2>1 DEF Dealt
<1>8. \A i, j \in 1..m : t[i] = t[j] => i = j BY <1>0, <1>2, <1>3 DEF Dealt
<1>9. ASSUME NEW a \in DOMAIN g PROVE \E i \in 1..m : t[i] = a
  <2>1. PICK x \in 1..n : s[x] = a BY <1>2, <1>6 DEF Dealt
  <2>2. x \notin (m + 1)..n BY <1>5, <1>6, <2>1
  <2>3. x \in 1..m BY <1>2, <1>3, <2>2
  <2> QED BY <1>0, <2>1, <2>3
<1>10. \A a \in DOMAIN g : a \in Addresses /\ g[a] \in Values BY <1>2, <1>6 DEF Dealt
<1>11. q \in Seq(Values) /\ Len(q) = m /\ \A i \in 1..m : q[i] = g[t[i]]
  <2>1. \A i \in 1..m : r[i] \in Values BY <1>3, <1>4
  <2>2. q = [i \in 1..m |-> r[i]] BY <1>0, <1>1
  <2>3. \A i \in 1..m : q[i] = g[t[i]] BY <1>0, <1>3, <1>4, <1>6, <1>7, <2>2
  <2>4. \A i \in 1..m : q[i] \in Values BY <2>1, <2>2
  <2>5. q = [i \in 1..m |-> q[i]] BY <2>2
  <2>6. q \in Seq(Values) /\ Len(q) = m BY <1>3, <2>4, <2>5
  <2> QED BY <2>3, <2>6
<1>12. Dealt(t, m, g, q) BY <1>0, <1>6, <1>7, <1>8, <1>9, <1>10, <1>11 DEF Dealt
<1> QED BY <1>3, <1>12, OwningMade

-----------------------------------------------------------------------------
\* The TLists, and the values a TList has.
TLists == {st \in [list : Block, heap : Stores] : Owning(Contents(st.list), st.heap)}
View(st) == Seen(Contents(st.list), st.heap)

LEMMA TListIs ==
  ASSUME NEW st, st \in TLists
  PROVE  /\ st = [list |-> st.list, heap |-> st.heap] /\ st.list \in Block /\ Owning(Contents(st.list), st.heap)
         /\ Len(Contents(st.list)) = st.list.count /\ st.list.count \in Nat
         /\ View(st) \in Seq(Values) /\ Len(View(st)) = st.list.count
<1>1. st = [list |-> st.list, heap |-> st.heap] /\ st.list \in Block /\ Owning(Contents(st.list), st.heap) BY DEF TLists
<1>2. Len(Contents(st.list)) = st.list.count /\ st.list.count \in Nat BY <1>1, ContentsAre
<1>3. PICK n, r : n = Len(Contents(st.list)) /\ r = View(st) OBVIOUS
<1>4. Dealt(Contents(st.list), n, st.heap, r) BY <1>1, <1>3, OwningIs DEF View
<1>5. r \in Seq(Values) /\ Len(r) = n BY <1>4 DEF Dealt
<1> QED BY <1>1, <1>2, <1>3, <1>5

LEMMA TListMade ==
  ASSUME NEW l, l \in Block, NEW h, Owning(Contents(l), h), NEW st, st = [list |-> l, heap |-> h]
  PROVE  st \in TLists /\ View(st) = Seen(Contents(l), h) /\ st.list = l /\ st.heap = h
<1>1. st \in [list : Block, heap : Stores] BY DEF Owning
<1> QED BY <1>1 DEF TLists, View

\* What an item is: the value of the copy its cell points at
LEMMA TListItems ==
  ASSUME NEW st, st \in TLists, NEW i, i \in 0..(st.list.count - 1)
  PROVE  /\ st.list.cells[i] \in DOMAIN st.heap /\ st.list.cells[i] \in Addresses
         /\ View(st)[i + 1] = st.heap[st.list.cells[i]] /\ Contents(st.list)[i + 1] = st.list.cells[i]
         /\ i + 1 \in 1..Len(View(st)) /\ i + 1 \in 1..Len(Contents(st.list))
<1>1. st.list \in Block /\ Owning(Contents(st.list), st.heap) BY TListIs
<1>2. PICK s, n, r : s = Contents(st.list) /\ n = Len(s) /\ r = View(st) OBVIOUS
<1>3. n \in Nat /\ Dealt(s, n, st.heap, r) BY <1>1, <1>2, OwningIs DEF View
<1>4. n = st.list.count BY <1>1, <1>2, ContentsAre
<1>5. i + 1 \in 1..n /\ (i + 1) - 1 = i BY <1>3, <1>4
<1>6. s[i + 1] = st.list.cells[i] BY <1>2, <1>4, <1>5 DEF Contents
<1>7. Len(r) = n BY <1>3 DEF Dealt
<1> QED BY <1>2, <1>3, <1>5, <1>6, <1>7 DEF Dealt

LEMMA AllocateIs ==
  ASSUME NEW h, NEW a, a = FreeAddress(h), NEW v
  PROVE  Allocate(h, v) = StoreWith(h, a, v)
BY DEF Allocate, StoreWith

\* TList::Insert
LEMMA TInsertInserts ==
  ASSUME NEW st, st \in TLists, NEW i, i \in 0..st.list.count, NEW v, v \in Values
  PROVE  TInsert(st, i, v) \in TLists /\ View(TInsert(st, i, v)) = InsertAt(View(st), i + 1, v)
<1>1. st.list \in Block /\ Owning(Contents(st.list), st.heap) /\ Len(Contents(st.list)) = st.list.count /\ st.list.count \in Nat BY TListIs
<1>2. PICK l, h, s : l = st.list /\ h = st.heap /\ s = Contents(l) OBVIOUS
<1>3. PICK a : a = FreeAddress(h) OBVIOUS
<1>4. a \in Addresses /\ a \notin DOMAIN h BY <1>1, <1>2, <1>3, FreeAddressIsFree
<1>5. PICK m : m = ListInsert(l, i, a) OBVIOUS
<1>6. m \in Block /\ Contents(m) = InsertAt(s, i + 1, a)
  <2>1. a \in Int BY <1>4 DEF Addresses
  <2> QED BY <1>1, <1>2, <1>5, <2>1, InsertInserts
<1>7. PICK g : g = Allocate(h, v) OBVIOUS
<1>8. PICK k : k = i + 1 OBVIOUS
<1>80. PICK t, r, q : t = Contents(m) /\ r = Seen(s, h) /\ q = InsertAt(r, k, v) OBVIOUS
<1>9. Owning(t, g) /\ Seen(t, g) = q
  <2>1. g = StoreWith(h, a, v) BY <1>3, <1>7, AllocateIs
  <2>2. k \in 1..(Len(s) + 1) BY <1>1, <1>2, <1>8
  <2>3. Owning(s, h) /\ t = InsertAt(s, k, a) BY <1>1, <1>2, <1>6, <1>8, <1>80
  <2>4. Opened(s, h, k, a, v, t, g, r, q) BY <1>4, <1>80, <2>1, <2>2, <2>3 DEF Opened
  <2> QED BY <2>3, <2>4, OwnsInserted
<1>10. TInsert(st, i, v) = [list |-> m, heap |-> g] BY <1>2, <1>3, <1>5, <1>7 DEF TInsert, ListInsert
<1>11. TInsert(st, i, v) \in TLists /\ View(TInsert(st, i, v)) = Seen(Contents(m), g) BY <1>6, <1>80, <1>9, <1>10, TListMade
<1> QED BY <1>2, <1>8, <1>80, <1>9, <1>11 DEF View

\* A list of the same items in more room
LEMMA TListMoved ==
  ASSUME NEW st, st \in TLists, NEW l, l \in Block, Contents(l) = Contents(st.list), NEW u, u = [st EXCEPT !.list = l]
  PROVE  u \in TLists /\ View(u) = View(st) /\ u.list = l /\ u.heap = st.heap
<1>1. st = [list |-> st.list, heap |-> st.heap] /\ Owning(Contents(l), st.heap) BY TListIs
<1>2. u = [list |-> l, heap |-> st.heap] BY <1>1
<1> QED BY <1>1, <1>2, TListMade DEF View

LEMMA InsertAtEnd ==
  ASSUME NEW S, NEW s, s \in Seq(S), NEW x, x \in S
  PROVE  InsertAt(s, Len(s) + 1, x) = Append(s, x)
<1>1. PICK n \in Nat : n = Len(s) OBVIOUS
<1>2. PICK k : k = n + 1 OBVIOUS
<1>3. PICK r : r = InsertAt(s, k, x) OBVIOUS
<1>4. r \in Seq(S) /\ Len(r) = n + 1 /\ \A o \in 1..(n + 1) : r[o] = IF o < k THEN s[o] ELSE IF o = k THEN x ELSE s[o - 1]
  <2>1. k \in 1..(Len(s) + 1) BY <1>1, <1>2
  <2>2. r \in Seq(S) /\ Inserted(r, s, k, x) BY ONLY s \in Seq(S), x \in S, <1>3, <2>1, InsertOf
  <2> QED BY <1>1, <2>2 DEF Inserted
<1>5. PICK a : a = Append(s, x) OBVIOUS
<1>6. a \in Seq(S) /\ Len(a) = n + 1 /\ a[n + 1] = x /\ \A o \in 1..n : a[o] = s[o] BY <1>1, <1>5, AppendProperties
<1>7. \A o \in 1..(n + 1) : r[o] = a[o]
  <2> TAKE o \in 1..(n + 1)
  <2>1. CASE o = n + 1 BY <1>2, <1>4, <1>6, <2>1
  <2>2. CASE o # n + 1
    <3>1. o \in 1..n /\ o < k BY <1>2, <2>2
    <3> QED BY <1>4, <1>6, <3>1
  <2> QED BY <2>1, <2>2
<1>8. r = a BY <1>4, <1>6, <1>7, SequenceEqual
<1> QED BY <1>1, <1>2, <1>3, <1>5, <1>8

\* TList::Add
LEMMA TAddAppends ==
  ASSUME NEW st, st \in TLists, NEW v, v \in Values
  PROVE  TAdd(st, v) \in TLists /\ View(TAdd(st, v)) = Append(View(st), v)
<1>1. PICK e : e = Expand(st.list) OBVIOUS
<1>2. st.list \in Block BY TListIs
<1>3. e \in Block /\ Contents(e) = Contents(st.list) /\ e.count = st.list.count BY <1>1, <1>2, ExpandKeeps
<1>4. PICK u : u = [st EXCEPT !.list = e] OBVIOUS
<1>5. u \in TLists /\ View(u) = View(st) /\ u.list = e BY <1>3, <1>4, TListMoved
<1>6. PICK n : n = st.list.count OBVIOUS
<1>7. n \in Nat /\ Len(View(st)) = n /\ View(st) \in Seq(Values) BY <1>6, TListIs
<1>8. TAdd(st, v) = TInsert(u, n, v) BY <1>1, <1>4, <1>6 DEF TAdd
<1>9. n \in 0..u.list.count BY <1>3, <1>5, <1>6, <1>7
<1>10. TInsert(u, n, v) \in TLists /\ View(TInsert(u, n, v)) = InsertAt(View(u), n + 1, v) BY <1>5, <1>9, TInsertInserts
<1>11. InsertAt(View(st), n + 1, v) = Append(View(st), v) BY <1>7, InsertAtEnd
<1> QED BY <1>5, <1>8, <1>10, <1>11

\* TList::Delete
LEMMA TDeleteRemoves ==
  ASSUME NEW st, st \in TLists, NEW i, i \in 0..(st.list.count - 1)
  PROVE  /\ TDelete(st, i) \in TLists /\ View(TDelete(st, i)) = RemoveAt(View(st), i + 1)
         /\ TDelete(st, i).list.count = st.list.count - 1
<1>1. st.list \in Block /\ Owning(Contents(st.list), st.heap) BY TListIs
<1>2. PICK l, h, s, k, a : l = st.list /\ h = st.heap /\ s = Contents(l) /\ k = i + 1 /\ a = l.cells[i] OBVIOUS
<1>3. s[k] = a /\ k \in 1..Len(s) BY <1>2, TListItems
<1>4. PICK m : m = CloseCell(l, i) OBVIOUS
<1>5. m \in Block /\ m.count = l.count - 1 /\ Contents(m) = RemoveAt(s, k) BY <1>1, <1>2, <1>4, DeleteRemoves
<1>6. PICK g : g = Release(h, a) OBVIOUS
<1>7. Owning(Contents(m), g) /\ Seen(Contents(m), g) = RemoveAt(Seen(s, h), k)
  <2>1. g = [b \in DOMAIN h \ {a} |-> h[b]] BY <1>6 DEF Release
  <2>2. Owning(s, h) /\ a = s[k] BY <1>1, <1>2, <1>3
  <2> QED BY ONLY <1>3, <1>5, <2>1, <2>2, OwnsRemoved
<1>8. TDelete(st, i) = [list |-> m, heap |-> g] BY <1>2, <1>4, <1>6 DEF TDelete
<1>9. TDelete(st, i) \in TLists /\ View(TDelete(st, i)) = Seen(Contents(m), g) /\ TDelete(st, i).list = m BY <1>5, <1>7, <1>8, TListMade
<1> QED BY <1>2, <1>5, <1>7, <1>9 DEF View

\* TList::Put
LEMMA TPutAssigns ==
  ASSUME NEW st, st \in TLists, NEW i, i \in 0..(st.list.count - 1), NEW v, v \in Values
  PROVE  TPutItem(st, i, v) \in TLists /\ View(TPutItem(st, i, v)) = [View(st) EXCEPT ![i + 1] = v]
<1>1. st = [list |-> st.list, heap |-> st.heap] /\ st.list \in Block /\ Owning(Contents(st.list), st.heap) BY TListIs
<1>2. PICK l, h, s, k : l = st.list /\ h = st.heap /\ s = Contents(l) /\ k = i + 1 OBVIOUS
<1>3. s[k] = l.cells[i] /\ k \in 1..Len(s) BY <1>2, TListItems
<1>30. PICK a, r : a = s[k] /\ r = Seen(s, h) OBVIOUS
<1>4. PICK g, q : g = Replaced(h, a, v) /\ q = Replaced(r, k, v) OBVIOUS
<1>5. Owning(s, g) /\ Seen(s, g) = q
  <2>1. Owning(s, h) BY <1>1, <1>2
  <2> QED BY ONLY v \in Values, <1>3, <1>30, <1>4, <2>1, OwnsAssigned
<1>6. TPutItem(st, i, v) = [list |-> l, heap |-> g] BY <1>1, <1>2, <1>3, <1>30, <1>4 DEF TPutItem, Replaced
<1>7. TPutItem(st, i, v) \in TLists /\ View(TPutItem(st, i, v)) = Seen(s, g) BY <1>1, <1>2, <1>5, <1>6, TListMade
<1> QED BY <1>2, <1>30, <1>4, <1>5, <1>7 DEF View, Replaced

-----------------------------------------------------------------------------
\* t is s sorted: its items, in the order p puts them, are in the order of their keys.
SortedAs(t, s, p, n, key) ==
  /\ Onto(p, n) /\ \A i \in 1..n : t[i] = s[p[i]]
  /\ \A i, j \in 1..n : i < j => key[t[i]] <= key[t[j]]

LEMMA QuickSortOrders ==
  ASSUME NEW l, l \in Block, NEW key, \A i \in 0..(l.count - 1) : key[l.cells[i]] \in Int, NEW d, d = QuickSort(l, key),
         NEW s, s = Contents(l), NEW t, t = Contents(d)
  PROVE  d \in Block /\ d.count = l.count /\ \E p : SortedAs(t, s, p, l.count, key)
<1>1. PICK n \in Nat : n = l.count BY ContentsAre
<1>2. PICK D : D = 0..(n - 1) OBVIOUS
<1>3. d \in Block /\ d.count = n /\ \E r : Arranged(r, l.cells, D, 0, n - 1) /\ InOrder(r, key, 0, n - 1) /\ \A i \in D : d.cells[i] = r[i]
  BY <1>1, <1>2, QuickSortSorts
<1>4. PICK r : Arranged(r, l.cells, D, 0, n - 1) /\ InOrder(r, key, 0, n - 1) /\ \A i \in D : d.cells[i] = r[i] BY <1>3
<1>5. PICK q \in [D -> D] : /\ \A x, y \in D : q[x] = q[y] => x = y
                            /\ \A x \in D : r[x] = l.cells[q[x]]
  BY <1>4 DEF Arranged
<1>6. PICK p : p = [i \in 1..n |-> q[i - 1] + 1] OBVIOUS
<1>7. \A i \in 1..n : i - 1 \in D /\ q[i - 1] \in D /\ p[i] = q[i - 1] + 1 /\ p[i] \in 1..n /\ p[i] - 1 = q[i - 1]
  <2> TAKE i \in 1..n
  <2>1. i - 1 \in D BY <1>2
  <2>2. PICK e \in D : e = q[i - 1] BY <1>5, <2>1
  <2>3. p[i] = e + 1 BY <1>6, <2>2
  <2>4. e \in 0..(n - 1) BY <1>2, <2>2
  <2> QED BY <2>1, <2>2, <2>3, <2>4
<1>8. p \in [1..n -> 1..n] BY <1>6, <1>7
<1>9. ASSUME NEW i \in 1..n, NEW j \in 1..n, p[i] = p[j] PROVE i = j
  <2>1. q[i - 1] = q[j - 1] /\ i - 1 \in D /\ j - 1 \in D BY <1>7, <1>9
  <2>2. i - 1 = j - 1 BY <1>5, <2>1
  <2> QED BY <2>2
<1>10. Onto(p, n) BY <1>8, <1>9, OrdersOnto
<1>11. \A i \in 1..n : s[i] = l.cells[i - 1] BY <1>1, ContentsAre
<1>12. \A i \in 1..n : t[i] = d.cells[i - 1] BY <1>3, ContentsAre
<1>13. ASSUME NEW i \in 1..n PROVE t[i] = s[p[i]] /\ t[i] = r[i - 1] BY <1>4, <1>5, <1>7, <1>11, <1>12
<1>14. ASSUME NEW i \in 1..n, NEW j \in 1..n, i < j PROVE key[t[i]] <= key[t[j]]
  <2>1. i - 1 \in 0..(n - 1) /\ j - 1 \in 0..(n - 1) /\ i - 1 < j - 1 BY <1>14
  <2> QED BY <1>4, <1>13, <2>1 DEF InOrder
<1>15. SortedAs(t, s, p, n, key) BY <1>10, <1>13, <1>14 DEF SortedAs
<1> QED BY <1>1, <1>3, <1>15

\* The place of the first x among the n items of s, counted from 0, or -1.
PlaceOf(s, n, x) ==
  IF \E i \in 0..(n - 1) : s[i + 1] = x
  THEN CHOOSE i \in 0..(n - 1) : s[i + 1] = x /\ \A j \in 0..(i - 1) : s[j + 1] # x
  ELSE -1

LEMMA PlaceAt ==
  ASSUME NEW S, NEW s, s \in Seq(S), NEW n, n = Len(s), NEW x
  PROVE  First(s, x, PlaceOf(s, n, x))
<1>1. First(s, x, PlaceOf(s, Len(s), x)) BY PlaceIsFirst DEF PlaceOf
<1> QED BY <1>1

\* TList::IndexOf
LEMMA TIndexOfIs ==
  ASSUME NEW st, st \in TLists, NEW x, NEW s, s = View(st), NEW k, k = TIndexOf(st, x)
  PROVE  /\ k = Abstract!IndexIn(s, x) /\ (k >= 0 <=> Abstract!Has(s, x)) /\ (k = -1 <=> ~Abstract!Has(s, x))
         /\ k >= 0 => k \in 0..(st.list.count - 1)
<1>1. PICK n \in Nat : n = st.list.count BY TListIs
<1>2. s \in Seq(Values) /\ Len(s) = n BY <1>1, TListIs
<1>3. \A i \in 0..(n - 1) : s[i + 1] = st.heap[st.list.cells[i]]
  <2> TAKE i \in 0..(n - 1)
  <2>1. i \in 0..(st.list.count - 1) BY <1>1
  <2> QED BY <2>1, TListItems
<1>4. (\E i \in 0..(n - 1) : s[i + 1] = x) <=> (\E i \in 0..(n - 1) : st.heap[st.list.cells[i]] = x) BY <1>3
<1>5. ASSUME NEW i \in 0..(n - 1)
      PROVE  (s[i + 1] = x /\ \A j \in 0..(i - 1) : s[j + 1] # x) <=>
             (st.heap[st.list.cells[i]] = x /\ \A j \in 0..(i - 1) : st.heap[st.list.cells[j]] # x)
  <2>1. \A j \in 0..(i - 1) : j \in 0..(n - 1) OBVIOUS
  <2> QED BY <1>3, <2>1
<1>6. (CHOOSE i \in 0..(n - 1) : s[i + 1] = x /\ \A j \in 0..(i - 1) : s[j + 1] # x) =
      (CHOOSE i \in 0..(n - 1) : st.heap[st.list.cells[i]] = x /\ \A j \in 0..(i - 1) : st.heap[st.list.cells[j]] # x)
  BY <1>5
<1>7. k = PlaceOf(s, n, x)
  <2>1. k = IF \E i \in 0..(n - 1) : st.heap[st.list.cells[i]] = x
            THEN CHOOSE i \in 0..(n - 1) : st.heap[st.list.cells[i]] = x /\ \A j \in 0..(i - 1) : st.heap[st.list.cells[j]] # x
            ELSE -1
    BY <1>1 DEF TIndexOf
  <2> QED BY <1>4, <1>6, <2>1 DEF PlaceOf
<1>9. First(s, x, k)
  <2>1. PICK S : S = Values OBVIOUS
  <2>2. s \in Seq(S) /\ n = Len(s) BY <1>2, <2>1
  <2> QED BY ONLY <1>7, <2>2, PlaceAt
<1> QED BY <1>1, <1>2, <1>9, FirstIsHas

\* TList::Remove
LEMMA TRemoveRemoves ==
  ASSUME NEW st, st \in TLists, NEW x, NEW s, s = View(st)
  PROVE  TRemove(st, x) \in TLists /\ View(TRemove(st, x)) = Less(s, x)
<1>1. PICK k : k = TIndexOf(st, x) OBVIOUS
<1>2. /\ k = Abstract!IndexIn(s, x) /\ (k >= 0 <=> Abstract!Has(s, x))
      /\ k >= 0 => k \in 0..(st.list.count - 1)
  BY <1>1, TIndexOfIs
<1>3. CASE k >= 0
  <2>1. TDelete(st, k) \in TLists /\ View(TDelete(st, k)) = RemoveAt(s, k + 1) BY <1>2, <1>3, TDeleteRemoves
  <2>2. TRemove(st, x) = TDelete(st, k) BY <1>1, <1>3 DEF TRemove
  <2> QED BY <1>2, <1>3, <2>1, <2>2 DEF Less
<1>4. CASE ~(k >= 0) BY <1>1, <1>2, <1>4 DEF TRemove, Less
<1> QED BY <1>3, <1>4

\* TList::Extract, of the copy at i
LEMMA TExtractRemoves ==
  ASSUME NEW st, st \in TLists, NEW i, i \in 0..(st.list.count - 1), NEW a, a = st.list.cells[i]
  PROVE  /\ ListIndexOf(st.list, a) = i
         /\ TExtract(st, a) \in TLists /\ View(TExtract(st, a)) = RemoveAt(View(st), i + 1)
<1>1. st.list \in Block /\ Owning(Contents(st.list), st.heap) BY TListIs
<1>2. PICK l, h, s, k : l = st.list /\ h = st.heap /\ s = Contents(l) /\ k = i + 1 OBVIOUS
<1>3. s[k] = a /\ k \in 1..Len(s) BY <1>2, TListItems
<1>4. ListIndexOf(l, a) = i
  <2>1. PICK m : m = ListIndexOf(l, a) OBVIOUS
  <2>2. First(s, a, m) BY <1>1, <1>2, <2>1, IndexOfIsFirst
  <2>3. PICK n, r : n = Len(s) /\ r = Seen(s, h) OBVIOUS
  <2>4. n \in Nat /\ Dealt(s, n, h, r) BY <1>1, <1>2, <2>3, OwningIs
  <2>5. \A x, y \in 1..n : s[x] = s[y] => x = y BY <2>4 DEF Dealt
  <2>6. m \in 0..(n - 1) /\ s[m + 1] = a BY <1>3, <2>2, <2>3 DEF First
  <2>7. m + 1 \in 1..n /\ k \in 1..n BY <1>3, <2>3, <2>4, <2>6
  <2>8. m + 1 = k BY <1>3, <2>5, <2>6, <2>7
  <2> QED BY <1>2, <2>1, <2>6, <2>8
<1>5. PICK p : p = ListPut(l, i, Nil) OBVIOUS
<1>6. p \in Block /\ p.count = l.count /\ Contents(p) = [s EXCEPT ![i + 1] = Nil]
  <2>1. Nil \in Int BY DEF Nil
  <2> QED BY <1>1, <1>2, <1>5, <2>1, PutReplaces
<1>7. PICK m : m = CloseCell(p, i) OBVIOUS
<1>8. m \in Block /\ Contents(m) = RemoveAt(Contents(p), i + 1)
  <2>1. i \in 0..(p.count - 1) BY <1>2, <1>6
  <2> QED BY <1>6, <1>7, <2>1, DeleteRemoves
<1>9. Contents(m) = RemoveAt(s, k)
  <2>1. PICK S, y : S = Int /\ y = Nil OBVIOUS
  <2>2. s \in Seq(S) /\ k \in 1..Len(s) /\ y \in S BY <1>1, <1>2, <1>3, <2>1, ContentsAre DEF Nil
  <2>3. RemoveAt([s EXCEPT ![k] = y], k) = RemoveAt(s, k) BY ONLY <2>2, RemoveChanged
  <2> QED BY <1>2, <1>6, <1>8, <2>1, <2>3
<1>10. PICK g : g = Release(h, a) OBVIOUS
<1>11. PICK t : t = Contents(m) OBVIOUS
<1>12. Owning(t, g) /\ Seen(t, g) = RemoveAt(Seen(s, h), k)
  <2>1. g = [b \in DOMAIN h \ {a} |-> h[b]] BY <1>10 DEF Release
  <2>2. Owning(s, h) /\ a = s[k] /\ t = RemoveAt(s, k) BY <1>1, <1>2, <1>3, <1>9, <1>11
  <2> QED BY ONLY <1>3, <2>1, <2>2, OwnsRemoved
<1>13. TExtract(st, a) = [list |-> m, heap |-> g] BY <1>2, <1>4, <1>5, <1>7, <1>10 DEF TExtract, ListPut
<1>14. TExtract(st, a) \in TLists /\ View(TExtract(st, a)) = Seen(t, g) BY <1>8, <1>11, <1>12, <1>13, TListMade
<1> QED BY <1>2, <1>4, <1>12, <1>14 DEF View

-----------------------------------------------------------------------------
\* A list of the same copies in another order
Rearranged(l, st, p, n) == Onto(p, n) /\ l.count = n /\ \A i \in 1..n : Contents(l)[i] = Contents(st.list)[p[i]]
With(st, l) == [st EXCEPT !.list = l]

LEMMA TListRearranged ==
  ASSUME NEW st, st \in TLists, NEW l, l \in Block, NEW n, n = st.list.count, NEW p, Rearranged(l, st, p, n),
         NEW u, u = With(st, l)
  PROVE  u \in TLists /\ View(u) = [i \in 1..n |-> View(st)[p[i]]] /\ u.list = l
<1>1. st = [list |-> st.list, heap |-> st.heap] /\ st.list \in Block /\ Owning(Contents(st.list), st.heap)
      /\ Len(Contents(st.list)) = n
  BY TListIs
<1>10. Onto(p, n) /\ l.count = n /\ \A i \in 1..n : Contents(l)[i] = Contents(st.list)[p[i]] BY DEF Rearranged
<1>2. PICK s, h, t : s = Contents(st.list) /\ h = st.heap /\ t = Contents(l) OBVIOUS
<1>3. t \in Seq(Int) /\ Len(t) = n BY <1>2, <1>10, ContentsAre
<1>4. PICK q : q = [i \in 1..n |-> Seen(s, h)[p[i]]] OBVIOUS
<1>5. Owning(t, h) /\ Seen(t, h) = q
  <2>1. Owning(s, h) /\ n = Len(s) /\ \A i \in 1..n : t[i] = s[p[i]] BY <1>1, <1>2, <1>10
  <2> QED BY ONLY <1>10, <1>3, <1>4, <2>1, OwnsRearranged
<1>6. u = [list |-> l, heap |-> h] BY <1>1, <1>2 DEF With
<1>7. u \in TLists /\ View(u) = Seen(t, h) /\ u.list = l
  <2>1. Owning(Contents(l), h) BY <1>2, <1>5
  <2> QED BY <1>2, <1>6, <2>1, TListMade
<1> QED BY <1>2, <1>4, <1>5, <1>7 DEF View

\* TList::Exchange
LEMMA TExchangeSwaps ==
  ASSUME NEW st, st \in TLists, NEW i, i \in 0..(st.list.count - 1), NEW j, j \in 0..(st.list.count - 1),
         NEW u, u = With(st, Exchange(st.list, i, j)), NEW r, r = View(st)
  PROVE  u \in TLists /\ View(u) = [r EXCEPT ![i + 1] = r[j + 1], ![j + 1] = r[i + 1]]
<1>1. PICK n \in Nat : n = st.list.count BY TListIs
<1>2. st.list \in Block /\ r \in Seq(Values) /\ Len(r) = n BY <1>1, TListIs
<1>3. PICK l : l = Exchange(st.list, i, j) OBVIOUS
<1>4. PICK s : s = Contents(st.list) OBVIOUS
<1>5. s \in Seq(Int) /\ Len(s) = n BY <1>1, <1>2, <1>4, ContentsAre
<1>6. l \in Block /\ l.count = n /\ Contents(l) = [s EXCEPT ![i + 1] = s[j + 1], ![j + 1] = s[i + 1]]
  BY <1>1, <1>2, <1>3, <1>4, ExchangeSwaps
<1>7. PICK a, b \in 1..n : a = i + 1 /\ b = j + 1
  <2>1. i + 1 \in 1..n /\ j + 1 \in 1..n BY <1>1
  <2> QED BY <2>1
<1>8. PICK p : p = [x \in 1..n |-> IF x = b THEN a ELSE IF x = a THEN b ELSE x] OBVIOUS
<1>9. p \in [1..n -> 1..n] /\ \A x, y \in 1..n : p[x] = p[y] => x = y BY <1>8
<1>10. Onto(p, n) BY <1>9, OrdersOnto
<1>11. \A x \in 1..n : Contents(l)[x] = s[p[x]] BY <1>5, <1>6, <1>7, <1>8
<1>12. u \in TLists /\ View(u) = [x \in 1..n |-> r[p[x]]]
  <2>1. Rearranged(l, st, p, n) BY <1>4, <1>6, <1>10, <1>11 DEF Rearranged
  <2>2. u = With(st, l) BY <1>3
  <2>3. PICK o : o = [x \in 1..n |-> View(st)[p[x]]] OBVIOUS
  <2>4. u \in TLists /\ View(u) = o BY <1>1, <1>6, <2>1, <2>2, <2>3, TListRearranged
  <2> QED BY <2>3, <2>4
<1>13. PICK q : q = [r EXCEPT ![a] = r[b], ![b] = r[a]] OBVIOUS
<1>14. q = [x \in 1..n |-> r[p[x]]]
  <2>0. q \in Seq(Values) /\ Len(q) = n BY <1>2, <1>7, <1>13
  <2>1. q = [x \in 1..n |-> q[x]] BY <2>0
  <2>2. \A x \in 1..n : q[x] = r[p[x]] BY <1>2, <1>7, <1>8, <1>13
  <2> QED BY <2>1, <2>2
<1> QED BY <1>7, <1>12, <1>13, <1>14

\* TList::SetCapacity
LEMMA TReserveKeeps ==
  ASSUME NEW st, st \in TLists, NEW n, n \in Nat, st.list.count <= n, NEW u, u = [st EXCEPT !.list = SetCapacity(@, n)]
  PROVE  u \in TLists /\ View(u) = View(st) /\ u.list = SetCapacity(st.list, n) /\ u.list.count = st.list.count
<1>1. st.list \in Block BY TListIs
<1>2. PICK l : l = SetCapacity(st.list, n) OBVIOUS
<1>3. l \in Block /\ Contents(l) = Contents(st.list) /\ l.count = st.list.count BY <1>1, <1>2, CapacityKeeps
<1>4. u = [st EXCEPT !.list = l] BY <1>2
<1> QED BY <1>2, <1>3, <1>4, TListMoved

\* TList::SetCount, to no more items
LEMMA TShrinkKeeps ==
  ASSUME NEW st, st \in TLists, NEW m, m \in 0..st.list.count, NEW u, u = TShrink(st, m), NEW r, r = View(st)
  PROVE  u \in TLists /\ View(u) = [i \in 1..m |-> r[i]] /\ u.list.count = m
<1>1. PICK n \in Nat : n = st.list.count BY TListIs
<1>2. st.list \in Block /\ Owning(Contents(st.list), st.heap) /\ Len(Contents(st.list)) = n /\ r \in Seq(Values) /\ Len(r) = n
  BY <1>1, TListIs
<1>3. CASE m = n
  <2>1. u = st BY <1>1, <1>3 DEF TShrink
  <2>2. r = [i \in 1..m |-> r[i]] BY <1>2, <1>3
  <2> QED BY <1>1, <1>3, <2>1, <2>2
<1>4. CASE m # n
  <2>0. m \in 0..n /\ m < n BY <1>1, <1>4
  <2>1. PICK l : l = ListSetCount(st.list, m) OBVIOUS
  <2>2. PICK s, h, t : s = Contents(st.list) /\ h = st.heap /\ t = Contents(l) OBVIOUS
  <2>30. m \in Nat BY <2>0
  <2>3. l \in Block /\ l.count = m BY <1>2, <2>1, <2>30, SetCountResizes
  <2>31. Contents(l) = [i \in 1..m |-> IF i <= Len(Contents(st.list)) THEN Contents(st.list)[i] ELSE Nil] BY <1>2, <2>1, <2>30, SetCountResizes
  <2>4. t \in Seq(Int) /\ Len(t) = m BY <2>2, <2>3, ContentsAre
  <2>5. \A i \in 1..m : t[i] = s[i]
    <3> TAKE i \in 1..m
    <3>1. i <= Len(s) BY <1>2, <2>0, <2>2
    <3> QED BY <2>2, <2>31, <3>1
  <2>6. PICK out, g : out = {st.list.cells[i] : i \in m..(n - 1)} /\ g = [a \in DOMAIN h \ out |-> h[a]] OBVIOUS
  <2>7. PICK q : q = [i \in 1..m |-> Seen(s, h)[i]] OBVIOUS
  <2>8. Owning(t, g) /\ Seen(t, g) = q
    <3>1. Owning(s, h) /\ m \in 0..Len(s) /\ Len(s) = n BY <1>2, <2>0, <2>2
    <3>2. \A i \in 1..n : s[i] = st.list.cells[i - 1] BY <1>1, <1>2, <2>2, ContentsAre
    <3>3. ASSUME NEW i \in (m + 1)..n PROVE s[i] \in out
      <4>1. i \in 1..n /\ i - 1 \in m..(n - 1) BY <2>0
      <4> QED BY <2>6, <3>2, <4>1
    <3>4. ASSUME NEW a \in out PROVE \E i \in (m + 1)..n : s[i] = a
      <4>1. PICK k \in m..(n - 1) : a = st.list.cells[k] BY <2>6
      <4>2. k + 1 \in (m + 1)..n /\ k + 1 \in 1..n /\ (k + 1) - 1 = k BY <2>0
      <4> QED BY <3>2, <4>1, <4>2
    <3>5. Cut(s, h, m, t, out, g, q) BY <2>4, <2>5, <2>6, <2>7, <3>1, <3>3, <3>4 DEF Cut
    <3> QED BY ONLY <3>1, <3>5, OwnsShortened
  <2>9. u = [list |-> l, heap |-> g] BY <1>1, <2>0, <2>1, <2>2, <2>6 DEF TShrink
  <2>10. u \in TLists /\ View(u) = Seen(t, g) /\ u.list = l
    <3>1. Owning(Contents(l), g) BY <2>2, <2>8
    <3> QED BY <2>2, <2>3, <2>9, <3>1, TListMade
  <2>11. q = [i \in 1..m |-> r[i]] BY <2>2, <2>7 DEF View
  <2> QED BY <2>3, <2>8, <2>10, <2>11
<1> QED BY <1>3, <1>4

\* TList::Clear
LEMMA TClearEmpties ==
  ASSUME NEW st, st \in TLists, NEW u, u = TClear(st)
  PROVE  u \in TLists /\ View(u) = << >> /\ u.list.count = 0
<1>1. PICK d : d = TShrink(st, 0) OBVIOUS
<1>2. st.list.count \in Nat /\ 0 \in 0..st.list.count
  <2>1. st.list.count \in Nat BY TListIs
  <2> QED BY <2>1
<1>3. d \in TLists /\ d.list.count = 0 BY <1>1, <1>2, TShrinkKeeps
<1>4. u = [d EXCEPT !.list = SetCapacity(@, 0)] BY <1>1 DEF TClear
<1>5. u \in TLists /\ View(u) = View(d) /\ u.list.count = 0 BY <1>3, <1>4, TReserveKeeps
<1>6. View(d) \in Seq(Values) /\ Len(View(d)) = 0 BY <1>3, TListIs
<1> QED BY <1>5, <1>6

\* What stands in the heap for the items of a list may be compared.
LEMMA TKeys ==
  ASSUME NEW st, st \in TLists
  PROVE  \A i \in 0..(st.list.count - 1) : st.heap[st.list.cells[i]] \in Int
<1> TAKE i \in 0..(st.list.count - 1)
<1>1. View(st)[i + 1] = st.heap[st.list.cells[i]] /\ i + 1 \in 1..Len(View(st)) BY TListItems
<1>2. View(st) \in Seq(Values) BY TListIs
<1>3. View(st)[i + 1] \in Values BY <1>1, <1>2
<1>4. View(st)[i + 1] \in Nat BY <1>3, ListAssumption
<1> QED BY <1>1, <1>4

\* r is s sorted: the order p is one of the orders of its items, and they are in order in it.
SortedBy(r, s, p, n) ==
  /\ p \in Abstract!Orders(n) /\ r = [i \in 1..n |-> s[p[i]]]
  /\ \A i, j \in 1..n : i < j => s[p[i]] <= s[p[j]]

LEMMA OntoOrders == ASSUME NEW n, NEW p, Onto(p, n) PROVE p \in Abstract!Orders(n)
BY DEF Onto, Abstract!Orders

\* TList::Sort
LEMMA TSortSorts ==
  ASSUME NEW st, st \in TLists, NEW u, u = TSort(st)
  PROVE  u \in TLists /\ u.list.count = st.list.count /\ \E p : SortedBy(View(u), View(st), p, st.list.count)
<1>1. PICK n \in Nat : n = st.list.count BY TListIs
<1>2. st = [list |-> st.list, heap |-> st.heap] /\ st.list \in Block /\ View(st) \in Seq(Values) /\ Len(View(st)) = n BY <1>1, TListIs
<1>3. CASE n = 0
  <2>1. u = st BY <1>1, <1>2, <1>3 DEF TSort
  <2>2. PICK p : p = [i \in 1..n |-> i] OBVIOUS
  <2>3. p \in [1..n -> 1..n] /\ \A i, j \in 1..n : p[i] = p[j] => i = j BY <2>2
  <2>4. Onto(p, n) BY <2>3, OrdersOnto
  <2>5. PICK r : r = View(st) OBVIOUS
  <2>6. r = [i \in 1..n |-> r[p[i]]] BY <1>2, <1>3, <2>5
  <2>7. \A i, j \in 1..n : i < j => r[p[i]] <= r[p[j]] BY <1>3
  <2>8. SortedBy(r, r, p, n) BY <2>4, <2>6, <2>7, OntoOrders DEF SortedBy
  <2> QED BY <1>1, <2>1, <2>5, <2>8
<1>4. CASE n # 0
  <2>1. PICK l, key, d, s, t : l = st.list /\ key = st.heap /\ d = QuickSort(l, key) /\ s = Contents(l) /\ t = Contents(d) OBVIOUS
  <2>2. \A i \in 0..(l.count - 1) : key[l.cells[i]] \in Int BY <2>1, TKeys
  <2>3. d \in Block /\ d.count = n /\ \E p : SortedAs(t, s, p, n, key)
    <3>1. l \in Block /\ l.count = n BY <1>1, <1>2, <2>1
    <3> QED BY <2>1, <2>2, <3>1, QuickSortOrders
  <2>4. PICK p : SortedAs(t, s, p, n, key) BY <2>3
  <2>5. u = With(st, d) BY <1>1, <1>4, <2>1 DEF TSort, With
  <2>6. PICK r : r = View(st) OBVIOUS
  <2>7. Onto(p, n) /\ \A i \in 1..n : Contents(d)[i] = Contents(st.list)[p[i]] BY <2>1, <2>4 DEF SortedAs
  <2>70. Rearranged(d, st, p, n) BY <2>3, <2>7 DEF Rearranged
  <2>71. PICK o : o = [i \in 1..n |-> View(st)[p[i]]] OBVIOUS
  <2>72. u \in TLists /\ View(u) = o /\ u.list = d BY <1>1, <2>3, <2>5, <2>70, <2>71, TListRearranged
  <2>8. u \in TLists /\ View(u) = [i \in 1..n |-> r[p[i]]] /\ u.list = d BY <2>6, <2>71, <2>72
  <2>9. \A i \in 1..n : key[t[i]] = r[p[i]]
    <3> TAKE i \in 1..n
    <3>1. p[i] \in 1..n BY <2>7 DEF Onto
    <3>2. PICK x \in 1..n : x = p[i] BY <3>1
    <3>3. x - 1 \in 0..(st.list.count - 1) /\ (x - 1) + 1 = x BY <1>1
    <3>4. r[x] = key[s[x]] BY <2>1, <2>6, <3>3, TListItems
    <3> QED BY <2>1, <2>7, <3>2, <3>4
  <2>10. \A i, j \in 1..n : i < j => r[p[i]] <= r[p[j]] BY <2>4, <2>9 DEF SortedAs
  <2>11. SortedBy(View(u), r, p, n) BY <2>7, <2>8, <2>10, OntoOrders DEF SortedBy
  <2> QED BY <1>1, <2>3, <2>6, <2>8, <2>11
<1> QED BY <1>3, <1>4

-----------------------------------------------------------------------------
\* TList::Delete, from the last index down, of the items of a set
LEMMA TDeleteItemsDrops ==
  ASSUME NEW l, l \in TLists, NEW drop, NEW s, s = View(l)
  PROVE  /\ TDeleteItems(l, drop) \in TLists
         /\ View(TDeleteItems(l, drop)) \in Abstract!Choice(s, Outside(s, drop))
<1>1. PICK N \in Nat : N = l.list.count /\ N = Len(s) BY TListIs
<1>2. PICK T : T = [n \in 0..N |-> {w \in TLists : w.list.count >= N - n}] OBVIOUS
<1>3. l \in T[0] BY <1>1, <1>2, SMTT(20)
<1>4. ASSUME NEW n \in 1..N, NEW w \in T[n - 1]
      PROVE  /\ (IF w.heap[w.list.cells[N - n]] \in drop THEN TDelete(w, N - n) ELSE w) \in T[n]
             /\ w \in TLists /\ N - n \in 0..(w.list.count - 1)
             /\ w.heap[w.list.cells[N - n]] = View(w)[N - n + 1]
  <2>1. n - 1 \in 0..N /\ n \in 0..N OBVIOUS
  <2>2. w \in TLists /\ w.list.count >= N - (n - 1) BY <1>2, <2>1
  <2>3. w.list.count \in Nat BY <2>2, TListIs
  <2>4. N - n \in 0..(w.list.count - 1) BY <2>1, <2>2, <2>3
  <2>5. TDelete(w, N - n) \in TLists /\ TDelete(w, N - n).list.count = w.list.count - 1 BY <2>2, <2>4, TDeleteRemoves
  <2>6. PICK d : d = TDelete(w, N - n) OBVIOUS
  <2>7. d \in TLists /\ d.list.count >= N - n BY <2>1, <2>2, <2>3, <2>5, <2>6
  <2>8. d \in T[n] /\ w \in T[n] BY <1>2, <2>1, <2>2, <2>3, <2>7
  <2>9. w.heap[w.list.cells[N - n]] = View(w)[N - n + 1] BY <2>2, <2>4, TListItems
  <2> QED BY <2>2, <2>4, <2>6, <2>8, <2>9
<1>5. PICK step : step = [n \in 1..N |-> [w \in T[n - 1] |-> IF w.heap[w.list.cells[N - n]] \in drop THEN TDelete(w, N - n) ELSE w]] OBVIOUS
<1>6. \A n \in 1..N : \A w \in T[n - 1] : step[n][w] = (IF w.heap[w.list.cells[N - n]] \in drop THEN TDelete(w, N - n) ELSE w) BY <1>5
<1>7. Typed(N, T, l, step) BY <1>3, <1>4, <1>6 DEF Typed
<1>8. PICK f : Loop(f, N, T, l, step) BY <1>7, LoopIs
<1>9. f = [n \in 0..N |-> IF n = 0 THEN l ELSE IF f[n - 1].heap[f[n - 1].list.cells[N - n]] \in drop THEN TDelete(f[n - 1], N - n) ELSE f[n - 1]]
  <2>1. \A n \in 0..N : f[n] = IF n = 0 THEN l ELSE IF f[n - 1].heap[f[n - 1].list.cells[N - n]] \in drop THEN TDelete(f[n - 1], N - n) ELSE f[n - 1]
    <3> TAKE n \in 0..N
    <3>2. n # 0 => n \in 1..N /\ n - 1 \in 0..N OBVIOUS
    <3>1. f[n] = IF n = 0 THEN l ELSE step[n][f[n - 1]] BY <1>8, <3>2 DEF Loop
    <3>3. n # 0 => f[n - 1] \in T[n - 1] BY <1>8, <3>2 DEF Loop
    <3> QED BY <1>6, <3>1, <3>2, <3>3
  <2>2. f = [n \in 0..N |-> f[n]] BY <1>8 DEF Loop
  <2> QED BY <2>1, <2>2
<1>90. PICK M : M = l.list.count OBVIOUS
<1>91. f = [n \in 0..M |-> IF n = 0 THEN l ELSE IF f[n - 1].heap[f[n - 1].list.cells[M - n]] \in drop THEN TDelete(f[n - 1], M - n) ELSE f[n - 1]]
  <2>1. M = N BY <1>1, <1>90
  <2> QED BY ONLY <1>9, <2>1
<1>92. PICK left : /\ left = [n \in 0..l.list.count |-> IF n = 0 THEN l ELSE IF left[n - 1].heap[left[n - 1].list.cells[l.list.count - n]] \in drop THEN TDelete(left[n - 1], l.list.count - n) ELSE left[n - 1]]
                   /\ TDeleteItems(l, drop) = left[l.list.count]
  BY <1>90, <1>91 DEF TDeleteItems
<1>10. /\ left = [n \in 0..N |-> IF n = 0 THEN l ELSE IF left[n - 1].heap[left[n - 1].list.cells[N - n]] \in drop THEN TDelete(left[n - 1], N - n) ELSE left[n - 1]]
       /\ TDeleteItems(l, drop) = left[N]
  BY <1>1, <1>92
<1>11. left[0] = l /\ \A n \in 1..N : left[n] = IF left[n - 1].heap[left[n - 1].list.cells[N - n]] \in drop THEN TDelete(left[n - 1], N - n) ELSE left[n - 1]
  <2>1. left[0] = l BY <1>10
  <2>2. ASSUME NEW n \in 1..N PROVE left[n] = IF left[n - 1].heap[left[n - 1].list.cells[N - n]] \in drop THEN TDelete(left[n - 1], N - n) ELSE left[n - 1]
    <3>1. n \in 0..N /\ n # 0 OBVIOUS
    <3> QED BY <1>10, <3>1
  <2> QED BY <2>1, <2>2
<1>12. \A n \in 0..N : left[n] \in T[n]
  <2>1. Keeps(left, N, T) BY <1>3, <1>4, <1>11 DEF Keeps
  <2> QED BY <2>1, KeepsAll
<1>13. PICK q : q = [n \in 0..N |-> View(left[n])] OBVIOUS
<1>14. q[0] = s BY <1>11, <1>13
<1>15. ASSUME NEW n \in 1..N
       PROVE  q[n] = IF q[n - 1][N - n + 1] \in drop THEN RemoveAt(q[n - 1], N - n + 1) ELSE q[n - 1]
  <2>1. n - 1 \in 0..N /\ n \in 0..N OBVIOUS
  <2>2. PICK w \in T[n - 1] : w = left[n - 1] BY <1>12, <2>1
  <2>3. /\ w \in TLists /\ N - n \in 0..(w.list.count - 1)
        /\ w.heap[w.list.cells[N - n]] = View(w)[N - n + 1]
    BY <1>4
  <2>4. q[n - 1] = View(w) BY <1>13, <2>1, <2>2
  <2>5. left[n] = IF w.heap[w.list.cells[N - n]] \in drop THEN TDelete(w, N - n) ELSE w BY <1>11, <2>2
  <2>6. q[n] = View(left[n]) BY <1>13, <2>1
  <2>7. View(TDelete(w, N - n)) = RemoveAt(View(w), N - n + 1) BY <2>3, TDeleteRemoves
  <2> QED BY <2>3, <2>4, <2>5, <2>6, <2>7
<1>16. PICK S : S = Values OBVIOUS
<1>17. q[N] \in Abstract!Choice(s, Outside(s, drop))
  <2>1. Dropping(q, s, N, drop) BY <1>14, <1>15 DEF Dropping
  <2>2. N = Len(s) /\ s \in Seq(S) BY <1>1, <1>16, TListIs
  <2> QED BY ONLY <2>1, <2>2, DeleteLoop
<1>18. q[N] = View(left[N]) /\ left[N] \in TLists BY <1>2, <1>12, <1>13
<1> QED BY <1>10, <1>17, <1>18

\* TList::Add, of each item of another list
LEMMA TAddAllConcats ==
  ASSUME NEW l, l \in TLists, NEW s, s \in Seq(Values)
  PROVE  TAddAll(l, s) \in TLists /\ View(TAddAll(l, s)) = View(l) \o s
<1>1. PICK N \in Nat : N = Len(s) /\ \A n \in 1..N : s[n] \in Values OBVIOUS
<1>2. PICK T : T = [n \in 0..N |-> TLists] OBVIOUS
<1>3. \A n \in 1..N : T[n - 1] = TLists /\ T[n] = TLists BY <1>2
<1>4. T[0] = TLists BY <1>1, <1>2
<1>5. PICK step : step = [n \in 1..N |-> [w \in TLists |-> TAdd(w, s[n])]] OBVIOUS
<1>6. \A n \in 1..N : \A w \in TLists : step[n][w] = TAdd(w, s[n]) /\ TAdd(w, s[n]) \in TLists BY <1>1, <1>5, TAddAppends
<1>7. Typed(N, T, l, step) BY <1>3, <1>4, <1>6 DEF Typed
<1>8. PICK f : Loop(f, N, T, l, step) BY <1>7, LoopIs
<1>9. f = [n \in 0..N |-> IF n = 0 THEN l ELSE TAdd(f[n - 1], s[n])]
  <2>1. \A n \in 0..N : f[n] = IF n = 0 THEN l ELSE TAdd(f[n - 1], s[n])
    <3> TAKE n \in 0..N
    <3>1. n # 0 => n \in 1..N /\ n - 1 \in 0..N OBVIOUS
    <3>2. f[n] = IF n = 0 THEN l ELSE step[n][f[n - 1]] BY <1>8, <3>1 DEF Loop
    <3>3. n # 0 => f[n - 1] \in TLists BY <1>3, <1>8, <3>1 DEF Loop
    <3> QED BY <1>6, <3>1, <3>2, <3>3
  <2>2. f = [n \in 0..N |-> f[n]] BY <1>8 DEF Loop
  <2> QED BY <2>1, <2>2
<1>10. PICK more : /\ more = [n \in 0..N |-> IF n = 0 THEN l ELSE TAdd(more[n - 1], s[n])]
                   /\ TAddAll(l, s) = more[N]
  BY <1>1, <1>9 DEF TAddAll
<1>11. more[0] = l /\ \A n \in 1..N : more[n] = TAdd(more[n - 1], s[n]) BY <1>10
<1>12. \A n \in 0..N : more[n] \in TLists
  <2>1. Keeps(more, N, T) BY <1>3, <1>4, <1>6, <1>11 DEF Keeps
  <2> QED BY <1>2, <2>1, KeepsAll
<1>13. PICK q : q = [n \in 0..N |-> View(more[n])] OBVIOUS
<1>14. PICK r, S : r = View(l) /\ S = Values OBVIOUS
<1>15. Adding(q, r, s)
  <2>1. q[0] = r BY <1>11, <1>13, <1>14
  <2>2. ASSUME NEW n \in 1..N PROVE q[n] = Append(q[n - 1], s[n])
    <3>1. n - 1 \in 0..N /\ n \in 0..N OBVIOUS
    <3>2. View(TAdd(more[n - 1], s[n])) = Append(View(more[n - 1]), s[n])
      <4>1. more[n - 1] \in TLists /\ s[n] \in Values BY <1>1, <1>12, <3>1
      <4> QED BY <4>1, TAddAppends
    <3> QED BY <1>11, <1>13, <3>1, <3>2
  <2> QED BY <1>1, <2>1, <2>2 DEF Adding
<1>16. r \in Seq(S) /\ s \in Seq(S) BY <1>14, TListIs
<1>17. q[Len(s)] = r \o s BY ONLY <1>15, <1>16, AddLoop
<1> QED BY <1>1, <1>10, <1>12, <1>13, <1>14, <1>17

\* TList::Add, of each item of another list that this one has not
LEMMA TAddMissingJoins ==
  ASSUME NEW l, l \in TLists, NEW s, s \in Seq(Values)
  PROVE  TAddMissing(l, s) \in TLists /\ View(TAddMissing(l, s)) \in Abstract!Assigned("laOr", View(l), s)
<1>1. PICK N \in Nat : N = Len(s) /\ \A n \in 1..N : s[n] \in Values OBVIOUS
<1>2. PICK T : T = [n \in 0..N |-> TLists] OBVIOUS
<1>3. \A n \in 1..N : T[n - 1] = TLists /\ T[n] = TLists BY <1>2
<1>4. T[0] = TLists BY <1>1, <1>2
<1>5. PICK step : step = [n \in 1..N |-> [w \in TLists |-> IF TIndexOf(w, s[n]) = -1 THEN TAdd(w, s[n]) ELSE w]] OBVIOUS
<1>6. \A n \in 1..N : \A w \in TLists : /\ step[n][w] = IF TIndexOf(w, s[n]) = -1 THEN TAdd(w, s[n]) ELSE w
                                        /\ TAdd(w, s[n]) \in TLists
  BY <1>1, <1>5, TAddAppends
<1>7. Typed(N, T, l, step)
  <2>1. \A n \in 1..N : \A w \in TLists : step[n][w] \in TLists BY <1>6
  <2> QED BY <1>3, <1>4, <2>1 DEF Typed
<1>8. PICK f : Loop(f, N, T, l, step) BY <1>7, LoopIs
<1>9. f = [n \in 0..N |-> IF n = 0 THEN l ELSE IF TIndexOf(f[n - 1], s[n]) = -1 THEN TAdd(f[n - 1], s[n]) ELSE f[n - 1]]
  <2>1. \A n \in 0..N : f[n] = IF n = 0 THEN l ELSE IF TIndexOf(f[n - 1], s[n]) = -1 THEN TAdd(f[n - 1], s[n]) ELSE f[n - 1]
    <3> TAKE n \in 0..N
    <3>1. n # 0 => n \in 1..N /\ n - 1 \in 0..N OBVIOUS
    <3>2. f[n] = IF n = 0 THEN l ELSE step[n][f[n - 1]] BY <1>8, <3>1 DEF Loop
    <3>3. n # 0 => f[n - 1] \in TLists BY <1>3, <1>8, <3>1 DEF Loop
    <3> QED BY <1>6, <3>1, <3>2, <3>3
  <2>2. f = [n \in 0..N |-> f[n]] BY <1>8 DEF Loop
  <2> QED BY <2>1, <2>2
<1>10. PICK more : /\ more = [n \in 0..N |-> IF n = 0 THEN l ELSE IF TIndexOf(more[n - 1], s[n]) = -1 THEN TAdd(more[n - 1], s[n]) ELSE more[n - 1]]
                   /\ TAddMissing(l, s) = more[N]
  BY <1>1, <1>9 DEF TAddMissing
<1>11. more[0] = l /\ \A n \in 1..N : more[n] = IF TIndexOf(more[n - 1], s[n]) = -1 THEN TAdd(more[n - 1], s[n]) ELSE more[n - 1]
  BY <1>10
<1>12. \A n \in 0..N : more[n] \in TLists
  <2>1. \A n \in 1..N : more[n - 1] \in TLists => more[n] \in TLists BY <1>6, <1>11
  <2>2. Keeps(more, N, T) BY <1>3, <1>4, <1>11, <2>1 DEF Keeps
  <2> QED BY <1>2, <2>2, KeepsAll
<1>13. PICK q : q = [n \in 0..N |-> View(more[n])] OBVIOUS
<1>14. PICK r, S : r = View(l) /\ S = Values OBVIOUS
<1>15. AddingMissing(q, r, s)
  <2>1. q[0] = r BY <1>11, <1>13, <1>14
  <2>2. ASSUME NEW n \in 1..N PROVE q[n] = IF Abstract!Has(q[n - 1], s[n]) THEN q[n - 1] ELSE Append(q[n - 1], s[n])
    <3>1. n - 1 \in 0..N /\ n \in 0..N OBVIOUS
    <3>2. PICK w \in TLists : w = more[n - 1] BY <1>12, <3>1
    <3>3. View(TAdd(w, s[n])) = Append(View(w), s[n]) BY <1>1, TAddAppends
    <3>4. TIndexOf(w, s[n]) = -1 <=> ~Abstract!Has(View(w), s[n]) BY TIndexOfIs
    <3>5. q[n - 1] = View(w) /\ q[n] = View(more[n]) BY <1>13, <3>1, <3>2
    <3>6. more[n] = IF TIndexOf(w, s[n]) = -1 THEN TAdd(w, s[n]) ELSE w BY <1>11, <3>2
    <3> QED BY <3>3, <3>4, <3>5, <3>6
  <2> QED BY <1>1, <2>1, <2>2 DEF AddingMissing
<1>16. r \in Seq(S) /\ s \in Seq(S) BY <1>14, TListIs
<1>17. q[Len(s)] \in Abstract!Assigned("laOr", r, s) BY ONLY <1>15, <1>16, AddMissingLoop
<1> QED BY <1>1, <1>10, <1>12, <1>13, <1>14, <1>17

\* LTemp of laXor and laDestUnique
LEMMA TMissingTakes ==
  ASSUME NEW l, l \in TLists, NEW s, s \in Seq(Values), NEW r, r = View(l)
  PROVE  TMissing(l, s) \in Abstract!Without(s, r) /\ TMissing(l, s) \in Seq(Values)
<1>1. PICK N \in Nat : N = Len(s) /\ \A n \in 1..N : s[n] \in Values OBVIOUS
<1>2. PICK T : T = [n \in 0..N |-> Seq(Values)] OBVIOUS
<1>3. \A n \in 1..N : T[n - 1] = Seq(Values) /\ T[n] = Seq(Values) BY <1>2
<1>4. T[0] = Seq(Values) /\ << >> \in Seq(Values) BY <1>1, <1>2
<1>5. PICK step : step = [n \in 1..N |-> [u \in Seq(Values) |-> IF TIndexOf(l, s[n]) = -1 THEN Append(u, s[n]) ELSE u]] OBVIOUS
<1>6. \A n \in 1..N : \A u \in Seq(Values) : /\ step[n][u] = IF TIndexOf(l, s[n]) = -1 THEN Append(u, s[n]) ELSE u
                                             /\ Append(u, s[n]) \in Seq(Values)
  BY <1>1, <1>5
<1>7. Typed(N, T, << >>, step) BY <1>3, <1>4, <1>6 DEF Typed
<1>8. PICK f : Loop(f, N, T, << >>, step) BY <1>7, LoopIs
<1>9. f = [n \in 0..N |-> IF n = 0 THEN << >> ELSE IF TIndexOf(l, s[n]) = -1 THEN Append(f[n - 1], s[n]) ELSE f[n - 1]]
  <2>1. \A n \in 0..N : f[n] = IF n = 0 THEN << >> ELSE IF TIndexOf(l, s[n]) = -1 THEN Append(f[n - 1], s[n]) ELSE f[n - 1]
    <3> TAKE n \in 0..N
    <3>1. n # 0 => n \in 1..N /\ n - 1 \in 0..N OBVIOUS
    <3>2. f[n] = IF n = 0 THEN << >> ELSE step[n][f[n - 1]] BY <1>8, <3>1 DEF Loop
    <3>3. n # 0 => f[n - 1] \in Seq(Values) BY <1>3, <1>8, <3>1 DEF Loop
    <3> QED BY <1>6, <3>1, <3>2, <3>3
  <2>2. f = [n \in 0..N |-> f[n]] BY <1>8 DEF Loop
  <2> QED BY <2>1, <2>2
<1>10. PICK temp : /\ temp = [n \in 0..N |-> IF n = 0 THEN << >> ELSE IF TIndexOf(l, s[n]) = -1 THEN Append(temp[n - 1], s[n]) ELSE temp[n - 1]]
                   /\ TMissing(l, s) = temp[N]
  BY <1>1, <1>9 DEF TMissing
<1>11. temp[0] = << >> /\ \A n \in 1..N : temp[n] = IF TIndexOf(l, s[n]) = -1 THEN Append(temp[n - 1], s[n]) ELSE temp[n - 1]
  <2>1. temp[0] = << >> BY <1>10
  <2>2. ASSUME NEW n \in 1..N PROVE temp[n] = IF TIndexOf(l, s[n]) = -1 THEN Append(temp[n - 1], s[n]) ELSE temp[n - 1]
    <3>1. n \in 0..N /\ n # 0 OBVIOUS
    <3> QED BY <1>10, <3>1
  <2> QED BY <2>1, <2>2
<1>12. PICK K, S : K = {i \in 1..Len(s) : ~Abstract!Has(r, s[i])} /\ S = Values OBVIOUS
<1>13. Taking(temp, s, K)
  <2>1. ASSUME NEW n \in 1..N PROVE TIndexOf(l, s[n]) = -1 <=> n \in K
    <3>1. TIndexOf(l, s[n]) = -1 <=> ~Abstract!Has(r, s[n]) BY TIndexOfIs
    <3> QED BY <1>1, <1>12, <3>1
  <2> QED BY <1>1, <1>11, <2>1 DEF Taking
<1>14. K \subseteq 1..Len(s) /\ s \in Seq(S) BY <1>12
<1>15. temp[Len(s)] \in Abstract!Choice(s, K) BY ONLY <1>13, <1>14, TakeLoop
<1>16. Abstract!Without(s, r) = Abstract!Choice(s, K) BY <1>12 DEF Abstract!Without
<1>17. temp[Len(s)] \in Seq(S) BY ONLY <1>14, <1>15, ChoiceType
<1> QED BY <1>1, <1>10, <1>12, <1>15, <1>16, <1>17

-----------------------------------------------------------------------------
\* TList::Assign of a copy
LEMMA TCopyCopies ==
  ASSUME NEW st, st \in TLists, NEW s, s \in Seq(Values), NEW n, n \in Nat
  PROVE  TCopy(st, s, n) \in TLists /\ View(TCopy(st, s, n)) = s
<1>1. PICK c : c = TClear(st) OBVIOUS
<1>2. c \in TLists /\ View(c) = << >> /\ c.list.count = 0 BY <1>1, TClearEmpties
<1>3. PICK u : u = [c EXCEPT !.list = SetCapacity(@, n)] OBVIOUS
<1>4. u \in TLists /\ View(u) = << >>
  <2>1. c.list.count <= n BY <1>2
  <2> QED BY <1>2, <1>3, <2>1, TReserveKeeps
<1>5. TAddAll(u, s) \in TLists /\ View(TAddAll(u, s)) = << >> \o s BY <1>4, TAddAllConcats
<1>6. << >> \o s = s BY ConcatEmptySeq
<1>7. TCopy(st, s, n) = TAddAll(u, s) BY <1>1, <1>3 DEF TCopy
<1> QED BY <1>5, <1>6, <1>7

LEMMA TXorExcludes ==
  ASSUME NEW st, st \in TLists, NEW t, t \in Seq(Values), NEW s, s = View(st)
  PROVE  TXor(st, t) \in TLists /\ View(TXor(st, t)) \in Abstract!Assigned("laXor", s, t)
<1>1. PICK k : k = TDeleteItems(st, ToSet(t)) OBVIOUS
<1>2. k \in TLists /\ View(k) \in Abstract!Choice(s, Outside(s, ToSet(t))) BY <1>1, TDeleteItemsDrops
<1>3. PICK S : S = Values OBVIOUS
<1>4. s \in Seq(S) /\ t \in Seq(S) BY <1>3, TListIs
<1>5. Abstract!Choice(s, Outside(s, ToSet(t))) = Abstract!Without(s, t) BY ONLY <1>4, OutsideMembers
<1>6. PICK m : m = TMissing(st, t) OBVIOUS
<1>7. m \in Abstract!Without(t, s) /\ m \in Seq(Values) BY <1>6, TMissingTakes
<1>8. PICK n : n = k.list.count + Len(m) OBVIOUS
<1>9. k.list.count \in Nat /\ n \in Nat /\ k.list.count <= n
  <2>1. k.list.count \in Nat BY <1>2, TListIs
  <2>2. Len(m) \in Nat BY <1>7
  <2> QED BY <1>8, <2>1, <2>2
<1>10. PICK a : a = [k EXCEPT !.list = AtLeast(@, @.count + Len(m))] OBVIOUS
<1>11. a \in TLists /\ View(a) = View(k)
  <2>1. CASE k.list.capacity < n
    <3>1. a = [k EXCEPT !.list = SetCapacity(@, n)] BY <1>8, <1>10, <2>1 DEF AtLeast
    <3> QED BY <1>2, <1>9, <3>1, TReserveKeeps
  <2>2. CASE ~(k.list.capacity < n)
    <3>1. a = [k EXCEPT !.list = @] BY <1>8, <1>10, <2>2 DEF AtLeast
    <3>2. k = [list |-> k.list, heap |-> k.heap] BY <1>2, TListIs
    <3>3. a = k BY <3>1, <3>2
    <3> QED BY <1>2, <3>3
  <2> QED BY <2>1, <2>2
<1>12. TAddAll(a, m) \in TLists /\ View(TAddAll(a, m)) = View(k) \o m BY <1>7, <1>11, TAddAllConcats
<1>13. TXor(st, t) = TAddAll(a, m) BY <1>1, <1>6, <1>10 DEF TXor
<1>14. PICK v : v = View(k) OBVIOUS
<1>15. v \o m \in Abstract!Assigned("laXor", s, t) BY <1>2, <1>5, <1>7, <1>14, XorHas
<1> QED BY <1>12, <1>13, <1>14, <1>15

\* TList::Assign
LEMMA TAssignAssigns ==
  ASSUME NEW l, l \in TLists, NEW t, t \in Seq(Values), NEW s, s = View(l), NEW op, op \in Abstract!AssignOps
  PROVE  TAssign(op, l, t) \in TLists /\ View(TAssign(op, l, t)) \in Abstract!Assigned(op, s, t)
<1>0. s \in Seq(Values) /\ Len(t) \in Nat BY TListIs
<1>00. PICK S : S = Values OBVIOUS
<1>01. s \in Seq(S) /\ t \in Seq(S) BY <1>0, <1>00
<1>1. CASE op = "laCopy"
  <2>1. TAssign(op, l, t) = TCopy(l, t, Len(t)) BY <1>1 DEF TAssign
  <2>2. Abstract!Assigned(op, s, t) = {t} BY <1>1 DEF Abstract!Assigned
  <2> QED BY <1>0, <2>1, <2>2, TCopyCopies
<1>2. CASE op = "laAnd"
  <2>1. TAssign(op, l, t) = TDeleteItems(l, S \ ToSet(t)) BY <1>2, <1>00 DEF TAssign
  <2>2. Abstract!Assigned(op, s, t) = Abstract!Only(s, t) BY <1>2 DEF Abstract!Assigned
  <2>4. Abstract!Choice(s, Outside(s, S \ ToSet(t))) = Abstract!Only(s, t) BY ONLY <1>01, OutsideMembers
  <2> QED BY <2>1, <2>2, <2>4, TDeleteItemsDrops
<1>3. CASE op = "laOr"
  <2>1. TAssign(op, l, t) = TAddMissing(l, t) BY <1>3 DEF TAssign
  <2> QED BY <1>3, <2>1, TAddMissingJoins
<1>4. CASE op = "laXor"
  <2>1. TAssign(op, l, t) = TXor(l, t) BY <1>4 DEF TAssign
  <2> QED BY <1>4, <2>1, TXorExcludes
<1>5. CASE op = "laSrcUnique"
  <2>1. TAssign(op, l, t) = TDeleteItems(l, ToSet(t)) BY <1>5 DEF TAssign
  <2>2. Abstract!Assigned(op, s, t) = Abstract!Without(s, t) BY <1>5 DEF Abstract!Assigned
  <2>3. Abstract!Choice(s, Outside(s, ToSet(t))) = Abstract!Without(s, t) BY ONLY <1>01, OutsideMembers
  <2> QED BY <2>1, <2>2, <2>3, TDeleteItemsDrops
<1>6. CASE op = "laDestUnique"
  <2>0. PICK r : r = Reverse(t) OBVIOUS
  <2>1. TAssign(op, l, t) = TCopy(l, TMissing(l, r), Len(t)) BY <1>6, <2>0 DEF TAssign
  <2>2. Abstract!Assigned(op, s, t) = Abstract!Without(r, s) BY <1>6, <2>0, SameOperators DEF Abstract!Assigned
  <2>3. r \in Seq(Values)
    <3>1. r \in Seq(S) BY <1>01, <2>0, ReverseIs
    <3> QED BY <1>00, <3>1
  <2>4. TMissing(l, r) \in Abstract!Without(r, s) /\ TMissing(l, r) \in Seq(Values) BY <2>3, TMissingTakes
  <2> QED BY <1>0, <2>1, <2>2, <2>4, TCopyCopies
<1> QED BY <1>1, <1>2, <1>3, <1>4, <1>5, <1>6 DEF Abstract!AssignOps

\* What Assign makes of lists of S is a list of S.
LEMMA AssignedType ==
  ASSUME NEW S, NEW s, s \in Seq(S), NEW t, t \in Seq(S), NEW op, op \in Abstract!AssignOps, NEW u, u \in Abstract!Assigned(op, s, t)
  PROVE  u \in Seq(S)
<1>1. \A a, b : a \in Seq(S) => (\A w \in Abstract!Without(a, b) : w \in Seq(S)) /\ (\A w \in Abstract!Only(a, b) : w \in Seq(S))
                              /\ (\A w \in Abstract!Added(a, b) : w \in Seq(S))
  <2> SUFFICES ASSUME NEW a, NEW b, a \in Seq(S)
               PROVE  (\A w \in Abstract!Without(a, b) : w \in Seq(S)) /\ (\A w \in Abstract!Only(a, b) : w \in Seq(S))
                      /\ (\A w \in Abstract!Added(a, b) : w \in Seq(S))
    OBVIOUS
  <2>1. ASSUME NEW I, I \subseteq 1..Len(a), NEW w, w \in Abstract!Choice(a, I) PROVE w \in Seq(S) BY <2>1, ChoiceType
  <2>2. PICK I, J, K : /\ I = {i \in 1..Len(a) : ~Abstract!Has(b, a[i])} /\ J = {i \in 1..Len(a) : Abstract!Has(b, a[i])}
                       /\ K = {i \in 1..Len(a) : ~Abstract!Has(b, a[i]) /\ \A j \in 1..(i - 1) : a[j] # a[i]}
    OBVIOUS
  <2>3. I \subseteq 1..Len(a) /\ J \subseteq 1..Len(a) /\ K \subseteq 1..Len(a) BY <2>2
  <2>4. Abstract!Without(a, b) = Abstract!Choice(a, I) BY <2>2 DEF Abstract!Without
  <2>5. Abstract!Only(a, b) = Abstract!Choice(a, J) BY <2>2 DEF Abstract!Only
  <2>6. Abstract!Added(a, b) = Abstract!Choice(a, K) BY <2>2 DEF Abstract!Added
  <2> QED BY <2>1, <2>3, <2>4, <2>5, <2>6
<1>2. \A a, b : a \in Seq(S) /\ b \in Seq(S) => a \o b \in Seq(S) OBVIOUS
<1>3. CASE op = "laCopy" BY <1>3 DEF Abstract!Assigned
<1>4. CASE op = "laAnd"
  <2>1. u \in Abstract!Only(s, t) BY <1>4 DEF Abstract!Assigned
  <2> QED BY <1>1, <2>1
<1>5. CASE op = "laOr"
  <2>1. u \in {s \o w : w \in Abstract!Added(t, s)} BY <1>5 DEF Abstract!Assigned
  <2> QED BY <1>1, <1>2, <2>1
<1>6. CASE op = "laXor"
  <2>1. PICK A, B : A = Abstract!Without(s, t) /\ B = Abstract!Without(t, s) OBVIOUS
  <2>2. \A w : w \in Abstract!Assigned("laXor", s, t) <=> \E x \in A, y \in B : w = x \o y BY <2>1 DEF Abstract!Assigned
  <2>3. PICK x \in A, y \in B : u = x \o y BY <1>6, <2>2
  <2>4. x \in Seq(S) /\ y \in Seq(S) BY <1>1, <2>1
  <2> QED BY <2>3, <2>4
<1>7. CASE op = "laSrcUnique"
  <2>1. u \in Abstract!Without(s, t) BY <1>7 DEF Abstract!Assigned
  <2> QED BY <1>1, <2>1
<1>8. CASE op = "laDestUnique"
  <2>1. PICK r : r = Reverse(t) OBVIOUS
  <2>2. u \in Abstract!Without(r, s) BY <1>8, <2>1, SameOperators DEF Abstract!Assigned
  <2>3. r \in Seq(S) BY <2>1, ReverseIs
  <2> QED BY <1>1, <2>2, <2>3
<1> QED BY <1>3, <1>4, <1>5, <1>6, <1>7, <1>8 DEF Abstract!AssignOps

-----------------------------------------------------------------------------
ListInv ==
  /\ kind \in {"CList", "TList"} /\ source \in Seq(Values) /\ list.count <= MaxCount
  /\ kind = "CList" => list \in Block /\ Contents(list) \in Seq(Values \cup {Nil})
  /\ kind = "TList" => Owned \in TLists

\* The items of a list that may hold null pointers, and of one that owns its copies
LEMMA SequenceOfCList ==
  ASSUME kind = "CList", list \in Block
  PROVE  Sequence = Contents(list)
<1>1. \A i \in 1..list.count : Item(list, heap, i - 1) = list.cells[i - 1] BY DEF Item
<1> QED BY <1>1 DEF Sequence, Contents

LEMMA SequenceOfTList ==
  ASSUME kind = "TList", Owned \in TLists
  PROVE  Sequence = View(Owned)
<1>1. PICK n \in Nat : n = Owned.list.count BY TListIs
<1>2. n = list.count /\ Owned.list = list /\ Owned.heap = heap BY <1>1 DEF Owned
<1>3. View(Owned) \in Seq(Values) /\ Len(View(Owned)) = n BY <1>1, TListIs
<1>4. ASSUME NEW i \in 1..n PROVE Item(list, heap, i - 1) = View(Owned)[i]
  <2>1. i - 1 \in 0..(Owned.list.count - 1) /\ (i - 1) + 1 = i BY <1>1
  <2>2. list.cells[i - 1] \in DOMAIN heap /\ View(Owned)[i] = heap[list.cells[i - 1]] BY <1>2, <2>1, TListItems, SMTT(20)
  <2> QED BY <2>2 DEF Item
<1>5. PICK r : r = View(Owned) OBVIOUS
<1>6. r = [i \in 1..n |-> r[i]] BY <1>3, <1>5
<1>7. Sequence = [i \in 1..n |-> r[i]] BY <1>2, <1>4, <1>5 DEF Sequence
<1> QED BY <1>5, <1>6, <1>7

\* What a call of a CList comes to, and one of a TList
LEMMA CListCall ==
  ASSUME ListInv, kind = "CList", NEW c, c \in Block, Contents(c) \in Seq(Values \cup {Nil}), NEW t, NEW r, Becomes(c, t, r)
  PROVE  ListInv' /\ Sequence' = Contents(c) /\ listResult' = r
<1>1. kind' = "CList" /\ list' = c /\ list'.count <= MaxCount /\ source' = source /\ listResult' = r BY DEF Becomes
<1>2. ListInv'
  <2>1. source \in Seq(Values) BY DEF ListInv
  <2> QED BY <1>1, <2>1 DEF ListInv
<1>3. Sequence' = Contents(list')
  <2>1. kind' = "CList" /\ list' \in Block BY <1>1
  <2>2. \A i \in 1..list'.count : Item(list, heap, i - 1)' = list'.cells[i - 1] BY <2>1 DEF Item
  <2> QED BY <2>1, <2>2 DEF Sequence, Contents, Item
<1> QED BY <1>1, <1>2, <1>3

LEMMA TListCall ==
  ASSUME ListInv, kind = "TList", NEW c, NEW t, t \in TLists, NEW r, Becomes(c, t, r)
  PROVE  ListInv' /\ Sequence' = View(t) /\ listResult' = r
<1>1. kind' = "TList" /\ list' = t.list /\ heap' = t.heap /\ list'.count <= MaxCount /\ source' = source /\ listResult' = r
  BY DEF Becomes
<1>2. Owned' = t
  <2>1. t = [list |-> t.list, heap |-> t.heap] BY TListIs
  <2> QED BY <1>1, <2>1 DEF Owned
<1>3. ListInv'
  <2>1. source \in Seq(Values) BY DEF ListInv
  <2> QED BY <1>1, <1>2, <2>1 DEF ListInv
<1>4. kind' = "TList" /\ Owned' \in TLists BY <1>1, <1>2
<1>5. Sequence' = View(Owned')
  <2>1. PICK n \in Nat : n = t.list.count BY TListIs
  <2>2. PICK s : s = View(t) OBVIOUS
  <2>3. s \in Seq(Values) /\ Len(s) = n BY <2>1, <2>2, TListIs
  <2>4. ASSUME NEW i \in 1..n PROVE /\ list'.cells[i - 1] \in DOMAIN heap'
                                   /\ heap'[list'.cells[i - 1]] = s[i]
    <3>1. i - 1 \in 0..(t.list.count - 1) /\ (i - 1) + 1 = i BY <2>1
    <3> QED BY <1>1, <2>2, <3>1, TListItems
  <2>5. Sequence' = [i \in 1..n |-> s[i]] BY <1>1, <2>1, <2>4 DEF Sequence, Item
  <2>6. s = [i \in 1..n |-> s[i]] BY <2>3
  <2> QED BY <1>2, <2>2, <2>5, <2>6
<1> QED BY <1>1, <1>2, <1>3, <1>5

-----------------------------------------------------------------------------
\* The items of the sequence: values, and the null pointers SetCount makes.
Items == Values \cup {Nil}

LEMMA CListState ==
  ASSUME ListInv, kind = "CList"
  PROVE  /\ list \in Block /\ Sequence = Contents(list) /\ Sequence \in Seq(Items) /\ Sequence \in Seq(Int)
         /\ Len(Sequence) = list.count /\ list.count \in 0..MaxCount
         /\ source \in Seq(Items) /\ source \in Seq(Int) /\ \A x \in Items : x \in Int
<1>1. list \in Block /\ Contents(list) \in Seq(Items) /\ source \in Seq(Values) /\ list.count <= MaxCount BY DEF ListInv, Items
<1>2. Sequence = Contents(list) BY <1>1, SequenceOfCList
<1>3. Contents(list) \in Seq(Int) /\ Len(Contents(list)) = list.count /\ list.count \in Nat BY <1>1, ContentsAre
<1>4. \A x \in Items : x \in Int BY ListAssumption DEF Items, Nil
<1>5. \A i \in 1..Len(source) : source[i] \in Items BY <1>1 DEF Items
<1>6. source \in Seq(Items) BY <1>1, <1>5
<1>7. source \in Seq(Int)
  <2>1. \A i \in 1..Len(source) : source[i] \in Int BY <1>4, <1>5
  <2> QED BY <1>1, <2>1
<1>8. MaxCount \in Nat BY ListAssumption
<1> QED BY <1>1, <1>2, <1>3, <1>4, <1>6, <1>7, <1>8

LEMMA TListState ==
  ASSUME ListInv, kind = "TList"
  PROVE  /\ Owned \in TLists /\ Owned.list = list /\ Owned.heap = heap /\ Sequence = View(Owned) /\ Sequence \in Seq(Values)
         /\ Len(Sequence) = list.count /\ list.count \in 0..MaxCount
         /\ source \in Seq(Values) /\ Values \subseteq Items
<1>1. Owned \in TLists /\ source \in Seq(Values) /\ list.count <= MaxCount BY DEF ListInv
<1>2. Owned.list = list /\ Owned.heap = heap BY DEF Owned
<1>3. Sequence = View(Owned) BY <1>1, SequenceOfTList
<1>4. View(Owned) \in Seq(Values) /\ Len(View(Owned)) = list.count /\ list.count \in Nat BY <1>1, <1>2, TListIs
<1>5. MaxCount \in Nat BY ListAssumption
<1> QED BY <1>1, <1>2, <1>3, <1>4, <1>5 DEF Items

LEMMA AddStep ==
  ASSUME ListInv, CallAdd
  PROVE  ListInv' /\ Abstract!AddItem
<1>1. PICK x \in Storable : Becomes(ListAdd(list, x), TAdd(Owned, x), list.count) BY DEF CallAdd
<1>2. kind \in {"CList", "TList"} BY DEF ListInv
<1>3. CASE kind = "CList"
  <2>1. x \in Items /\ x \in Int BY <1>3, CListState DEF Storable, Items
  <2>2. list \in Block /\ Sequence = Contents(list) /\ Sequence \in Seq(Items) /\ Len(Sequence) = list.count BY <1>3, CListState
  <2>3. PICK c : c = ListAdd(list, x) OBVIOUS
  <2>4. c \in Block /\ Contents(c) = Append(Sequence, x) BY <2>1, <2>2, <2>3, AddAppends
  <2>5. Contents(c) \in Seq(Values \cup {Nil}) BY <2>1, <2>2, <2>4 DEF Items
  <2>6. ListInv' /\ Sequence' = Contents(c) /\ listResult' = list.count BY <1>1, <1>3, <2>3, <2>4, <2>5, CListCall
  <2> QED BY <2>1, <2>2, <2>4, <2>6 DEF Abstract!AddItem, Items
<1>4. CASE kind = "TList"
  <2>1. x \in Values BY <1>4 DEF Storable
  <2>2. Owned \in TLists /\ Sequence = View(Owned) /\ Len(Sequence) = list.count BY <1>4, TListState
  <2>3. PICK t : t = TAdd(Owned, x) OBVIOUS
  <2>4. t \in TLists /\ View(t) = Append(Sequence, x) BY <2>1, <2>2, <2>3, TAddAppends
  <2>6. ListInv' /\ Sequence' = View(t) /\ listResult' = list.count BY <1>1, <1>4, <2>3, <2>4, TListCall
  <2> QED BY <2>1, <2>2, <2>4, <2>6 DEF Abstract!AddItem
<1> QED BY <1>2, <1>3, <1>4

LEMMA InsertStep ==
  ASSUME ListInv, CallInsert
  PROVE  ListInv' /\ Abstract!InsertItem
<1>1. PICK i \in 0..list.count, x \in Storable : Becomes(ListInsert(list, i, x), TInsert(Owned, i, x), i) BY DEF CallInsert
<1>2. kind \in {"CList", "TList"} BY DEF ListInv
<1>3. CASE kind = "CList"
  <2>1. x \in Items /\ x \in Int BY <1>3, CListState DEF Storable, Items
  <2>2. list \in Block /\ Sequence = Contents(list) /\ Sequence \in Seq(Items) /\ Len(Sequence) = list.count BY <1>3, CListState
  <2>3. PICK c, k : c = ListInsert(list, i, x) /\ k = i + 1 OBVIOUS
  <2>4. c \in Block /\ Contents(c) = InsertAt(Sequence, k, x) BY <2>1, <2>2, <2>3, InsertInserts
  <2>5. Contents(c) \in Seq(Items)
    <3>1. k \in 1..(Len(Sequence) + 1)
      <4>1. list.count \in Nat BY <2>2, ContentsAre
      <4> QED BY <2>2, <2>3, <4>1
    <3>2. PICK s, S : s = Sequence /\ S = Items OBVIOUS
    <3>3. s \in Seq(S) /\ k \in 1..(Len(s) + 1) /\ x \in S /\ Contents(c) = InsertAt(s, k, x) BY <2>1, <2>2, <2>4, <3>1, <3>2
    <3>4. Contents(c) \in Seq(S) BY ONLY <3>3, InsertOf
    <3> QED BY <3>2, <3>4
  <2>6. ListInv' /\ Sequence' = Contents(c) /\ listResult' = i BY <1>1, <1>3, <2>3, <2>4, <2>5, CListCall DEF Items
  <2> QED BY <2>1, <2>2, <2>3, <2>4, <2>6, SameOperators DEF Abstract!InsertItem, Items
<1>4. CASE kind = "TList"
  <2>1. x \in Values BY <1>4 DEF Storable
  <2>2. Owned \in TLists /\ Sequence = View(Owned) /\ Len(Sequence) = list.count /\ Owned.list = list BY <1>4, TListState
  <2>3. PICK t : t = TInsert(Owned, i, x) OBVIOUS
  <2>4. t \in TLists /\ View(t) = InsertAt(Sequence, i + 1, x) BY <2>1, <2>2, <2>3, TInsertInserts
  <2>6. ListInv' /\ Sequence' = View(t) /\ listResult' = i BY <1>1, <1>4, <2>3, <2>4, TListCall
  <2> QED BY <2>1, <2>2, <2>4, <2>6, SameOperators DEF Abstract!InsertItem
<1> QED BY <1>2, <1>3, <1>4

LEMMA DeleteStep ==
  ASSUME ListInv, CallDelete
  PROVE  ListInv' /\ Abstract!DeleteItem
<1>1. PICK i \in 0..(list.count - 1) : Becomes(ListDelete(list, i), TDelete(Owned, i), i) BY DEF CallDelete
<1>2. kind \in {"CList", "TList"} BY DEF ListInv
<1>3. CASE kind = "CList"
  <2>2. list \in Block /\ Sequence = Contents(list) /\ Sequence \in Seq(Items) /\ Len(Sequence) = list.count BY <1>3, CListState
  <2>3. PICK c, k : c = ListDelete(list, i) /\ k = i + 1 OBVIOUS
  <2>4. c \in Block /\ Contents(c) = RemoveAt(Sequence, k) BY <2>2, <2>3, DeleteRemoves DEF ListDelete
  <2>5. Contents(c) \in Seq(Items)
    <3>1. k \in 1..Len(Sequence)
      <4>1. list.count \in Nat BY <2>2, ContentsAre
      <4> QED BY <2>2, <2>3, <4>1
    <3>2. PICK s, S : s = Sequence /\ S = Items OBVIOUS
    <3>3. s \in Seq(S) /\ k \in 1..Len(s) /\ Contents(c) = RemoveAt(s, k) BY <2>2, <2>4, <3>1, <3>2
    <3>4. Contents(c) \in Seq(S) BY ONLY <3>3, RemoveIs
    <3> QED BY <3>2, <3>4
  <2>6. ListInv' /\ Sequence' = Contents(c) /\ listResult' = i BY <1>1, <1>3, <2>3, <2>4, <2>5, CListCall DEF Items
  <2> QED BY <2>2, <2>3, <2>4, <2>6, SameOperators DEF Abstract!DeleteItem
<1>4. CASE kind = "TList"
  <2>2. Owned \in TLists /\ Sequence = View(Owned) /\ Len(Sequence) = list.count /\ Owned.list = list BY <1>4, TListState
  <2>3. PICK t : t = TDelete(Owned, i) OBVIOUS
  <2>4. t \in TLists /\ View(t) = RemoveAt(Sequence, i + 1) BY <2>2, <2>3, TDeleteRemoves
  <2>6. ListInv' /\ Sequence' = View(t) /\ listResult' = i BY <1>1, <1>4, <2>3, <2>4, TListCall
  <2> QED BY <2>2, <2>4, <2>6, SameOperators DEF Abstract!DeleteItem
<1> QED BY <1>2, <1>3, <1>4

LEMMA PutStep ==
  ASSUME ListInv, CallPut
  PROVE  ListInv' /\ Abstract!PutItem
<1>1. PICK i \in 0..(list.count - 1), x \in Storable : Becomes(ListPut(list, i, x), TPutItem(Owned, i, x), i) BY DEF CallPut
<1>2. kind \in {"CList", "TList"} BY DEF ListInv
<1>3. CASE kind = "CList"
  <2>1. x \in Items /\ x \in Int BY <1>3, CListState DEF Storable, Items
  <2>2. list \in Block /\ Sequence = Contents(list) /\ Sequence \in Seq(Items) /\ Len(Sequence) = list.count BY <1>3, CListState
  <2>3. PICK c, s : c = ListPut(list, i, x) /\ s = Sequence OBVIOUS
  <2>4. c \in Block /\ Contents(c) = [s EXCEPT ![i + 1] = x] BY <2>1, <2>2, <2>3, PutReplaces
  <2>5. Contents(c) \in Seq(Items) BY <2>1, <2>2, <2>3, <2>4
  <2>6. ListInv' /\ Sequence' = Contents(c) /\ listResult' = i BY <1>1, <1>3, <2>3, <2>4, <2>5, CListCall DEF Items
  <2> QED BY <2>1, <2>2, <2>3, <2>4, <2>6 DEF Abstract!PutItem, Items
<1>4. CASE kind = "TList"
  <2>1. x \in Values BY <1>4 DEF Storable
  <2>2. Owned \in TLists /\ Sequence = View(Owned) /\ Len(Sequence) = list.count /\ Owned.list = list BY <1>4, TListState
  <2>3. PICK t, s : t = TPutItem(Owned, i, x) /\ s = Sequence OBVIOUS
  <2>4. t \in TLists /\ View(t) = [s EXCEPT ![i + 1] = x] BY <2>1, <2>2, <2>3, TPutAssigns
  <2>6. ListInv' /\ Sequence' = View(t) /\ listResult' = i BY <1>1, <1>4, <2>3, <2>4, TListCall
  <2> QED BY <2>1, <2>2, <2>3, <2>4, <2>6 DEF Abstract!PutItem
<1> QED BY <1>2, <1>3, <1>4

LEMMA SwapStep ==
  ASSUME ListInv, CallSwap
  PROVE  ListInv' /\ Abstract!ExchangeItem
<1>1. PICK i \in 0..(list.count - 1), j \in 0..(list.count - 1) :
        Becomes(Exchange(list, i, j), [Owned EXCEPT !.list = Exchange(list, i, j)], i)
  BY DEF CallSwap
<1>2. kind \in {"CList", "TList"} BY DEF ListInv
<1>3. CASE kind = "CList"
  <2>2. list \in Block /\ Sequence = Contents(list) /\ Sequence \in Seq(Items) /\ Len(Sequence) = list.count /\ list.count \in Nat
    BY <1>3, CListState, ContentsAre
  <2>3. PICK c, s, a, b : c = Exchange(list, i, j) /\ s = Sequence /\ a = i + 1 /\ b = j + 1 OBVIOUS
  <2>30. a \in 1..Len(s) /\ b \in 1..Len(s) /\ a - 1 = i BY <2>2, <2>3
  <2>4. c \in Block /\ Contents(c) = [s EXCEPT ![a] = s[b], ![b] = s[a]] BY <2>2, <2>3, ExchangeSwaps
  <2>5. Contents(c) \in Seq(Items)
    <3>1. s \in Seq(Items) /\ s[a] \in Items /\ s[b] \in Items BY <2>2, <2>3, <2>30
    <3> QED BY <2>4, <2>30, <3>1
  <2>6. ListInv' /\ Sequence' = Contents(c) /\ listResult' = i BY <1>1, <1>3, <2>3, <2>4, <2>5, CListCall DEF Items
  <2> QED BY <2>2, <2>3, <2>30, <2>4, <2>6 DEF Abstract!ExchangeItem
<1>4. CASE kind = "TList"
  <2>2. Owned \in TLists /\ Sequence = View(Owned) /\ Len(Sequence) = list.count /\ Owned.list = list /\ list.count \in Nat
    BY <1>4, TListState
  <2>3. PICK t, s, a, b : t = With(Owned, Exchange(Owned.list, i, j)) /\ s = Sequence /\ a = i + 1 /\ b = j + 1 OBVIOUS
  <2>30. a \in 1..Len(s) /\ b \in 1..Len(s) /\ a - 1 = i BY <2>2, <2>3
  <2>4. t \in TLists /\ View(t) = [s EXCEPT ![a] = s[b], ![b] = s[a]]
    <3>1. i \in 0..(Owned.list.count - 1) /\ j \in 0..(Owned.list.count - 1) /\ s = View(Owned) BY <2>2, <2>3
    <3>2. t \in TLists /\ View(t) = [s EXCEPT ![i + 1] = s[j + 1], ![j + 1] = s[i + 1]] BY <2>2, <2>3, <3>1, TExchangeSwaps
    <3> QED BY <2>3, <3>2
  <2>5. Becomes(Exchange(list, i, j), t, i) BY <1>1, <2>2, <2>3 DEF With
  <2>6. ListInv' /\ Sequence' = View(t) /\ listResult' = i BY <1>4, <2>4, <2>5, TListCall
  <2> QED BY <2>2, <2>3, <2>30, <2>4, <2>6 DEF Abstract!ExchangeItem
<1> QED BY <1>2, <1>3, <1>4

-----------------------------------------------------------------------------
LEMMA LessType ==
  ASSUME NEW S, NEW s, s \in Seq(S), NEW x, NEW r, r = Less(s, x)
  PROVE  r \in Seq(S)
<1>1. CASE Abstract!Has(s, x)
  <2>1. PICK m : m = Abstract!IndexIn(s, x) OBVIOUS
  <2>2. First(s, x, m) BY <2>1, IndexInIsFirst
  <2>3. m \in 0..(Len(s) - 1) BY <1>1, <2>1, <2>2, FirstIsHas
  <2>4. PICK k : k = m + 1 OBVIOUS
  <2>5. k \in 1..Len(s) BY <2>3, <2>4
  <2>6. r = RemoveAt(s, k) BY <1>1, <2>1, <2>4 DEF Less
  <2> QED BY ONLY s \in Seq(S), <2>5, <2>6, RemoveIs
<1>2. CASE ~Abstract!Has(s, x) BY <1>2 DEF Less
<1> QED BY <1>1, <1>2

LEMMA MoveStep ==
  ASSUME ListInv, CallMove
  PROVE  ListInv' /\ Abstract!MoveItem
<1>1. PICK i \in 0..(list.count - 1), j \in 0..(list.count - 1) : Becomes(ListMove(list, i, j), Owned, j) BY DEF CallMove
<1>2. kind = "CList" BY DEF CallMove
<1>3. list \in Block /\ Sequence = Contents(list) /\ Sequence \in Seq(Items) /\ Len(Sequence) = list.count /\ list.count \in Nat
  BY <1>2, CListState, ContentsAre
<1>4. PICK c, s, a, b : c = ListMove(list, i, j) /\ s = Sequence /\ a = i + 1 /\ b = j + 1 OBVIOUS
<1>5. a \in 1..Len(s) /\ b \in 1..Len(s) /\ b - 1 = j BY <1>3, <1>4
<1>6. c \in Block /\ Contents(c) = InsertAt(RemoveAt(s, a), b, s[a]) BY <1>3, <1>4, MoveMoves
<1>7. Contents(c) \in Seq(Items)
  <2>1. PICK S, r, x : S = Items /\ r = RemoveAt(s, a) /\ x = s[a] OBVIOUS
  <2>2. s \in Seq(S) /\ x \in S BY <1>3, <1>4, <1>5, <2>1
  <2>3. r \in Seq(S) /\ Removed(r, s, a) BY ONLY <1>5, <2>1, <2>2, RemoveIs
  <2>4. b \in 1..(Len(r) + 1) BY <1>5, <2>3 DEF Removed
  <2>5. Contents(c) = InsertAt(r, b, x) BY <1>6, <2>1
  <2>6. Contents(c) \in Seq(S) BY ONLY <2>2, <2>3, <2>4, <2>5, InsertOf
  <2> QED BY <2>1, <2>6
<1>8. ListInv' /\ Sequence' = Contents(c) /\ listResult' = j BY <1>1, <1>2, <1>4, <1>6, <1>7, CListCall DEF Items
<1>9. PICK r : r = RemoveAt(s, a) OBVIOUS
<1>10. Abstract!InsertAt(Abstract!RemoveAt(s, a), b, s[a]) = InsertAt(r, b, s[a]) BY <1>9, SameOperators
<1>11. Sequence' = Abstract!InsertAt(Abstract!RemoveAt(Sequence, a), b, Sequence[a]) BY <1>4, <1>6, <1>8, <1>9, <1>10
<1>12. a \in 1..Len(Sequence) /\ b \in 1..Len(Sequence) /\ listResult' = b - 1 BY <1>4, <1>5, <1>8
<1>13. Abstract!MoveItem BY <1>11, <1>12 DEF Abstract!MoveItem
<1> QED BY <1>8, <1>13

LEMMA RemoveStep ==
  ASSUME ListInv, CallRemove
  PROVE  ListInv' /\ Abstract!RemoveItem
<1>1. PICK x \in Storable : Becomes(ListRemove(list, x), TRemove(Owned, x),
                                    IF kind = "CList" THEN ListIndexOf(list, x) ELSE TIndexOf(Owned, x))
  BY DEF CallRemove
<1>2. kind \in {"CList", "TList"} BY DEF ListInv
<1>3. CASE kind = "CList"
  <2>1. x \in Items BY <1>3 DEF Storable, Items
  <2>2. list \in Block /\ Sequence = Contents(list) /\ Sequence \in Seq(Items) BY <1>3, CListState
  <2>3. PICK c, k : c = ListRemove(list, x) /\ k = ListIndexOf(list, x) OBVIOUS
  <2>4. c \in Block /\ Contents(c) = Less(Sequence, x) BY <2>2, <2>3, RemoveRemoves
  <2>5. Contents(c) \in Seq(Items) BY <2>2, <2>4, LessType
  <2>6. k = Abstract!IndexIn(Sequence, x) BY <2>2, <2>3, IndexOfIs
  <2>7. Becomes(c, TRemove(Owned, x), k) BY <1>1, <1>3, <2>3
  <2>8. ListInv' /\ Sequence' = Contents(c) /\ listResult' = k BY <1>3, <2>4, <2>5, <2>7, CListCall DEF Items
  <2> QED BY <2>1, <2>4, <2>6, <2>8, SameOperators DEF Abstract!RemoveItem, Items, Less
<1>4. CASE kind = "TList"
  <2>1. x \in Items BY <1>4 DEF Storable, Items
  <2>2. Owned \in TLists /\ Sequence = View(Owned) BY <1>4, TListState
  <2>3. PICK t, k : t = TRemove(Owned, x) /\ k = TIndexOf(Owned, x) OBVIOUS
  <2>4. t \in TLists /\ View(t) = Less(Sequence, x) BY <2>2, <2>3, TRemoveRemoves
  <2>6. k = Abstract!IndexIn(Sequence, x) BY <2>2, <2>3, TIndexOfIs
  <2>7. Becomes(ListRemove(list, x), t, k) BY <1>1, <1>4, <2>3
  <2>8. ListInv' /\ Sequence' = View(t) /\ listResult' = k BY <1>4, <2>4, <2>7, TListCall
  <2> QED BY <2>1, <2>4, <2>6, <2>8, SameOperators DEF Abstract!RemoveItem, Items, Less
<1> QED BY <1>2, <1>3, <1>4

\* Extract takes out the item a CList has first, and the very copy a TList has.
LEMMA ExtractStep ==
  ASSUME ListInv, CallExtract
  PROVE  ListInv' /\ (Abstract!RemoveItem \/ Abstract!DeleteItem)
<1>0. PICK i \in 0..(list.count - 1) :
        \E x : x = list.cells[i] /\ Becomes(ListExtract(list, x), TExtract(Owned, x), ListIndexOf(list, x))
  BY DEF CallExtract
<1>1. PICK x : x = list.cells[i] /\ Becomes(ListExtract(list, x), TExtract(Owned, x), ListIndexOf(list, x)) BY <1>0
<1>2. kind \in {"CList", "TList"} BY DEF ListInv
<1>3. CASE kind = "CList"
  <2>2. list \in Block /\ Sequence = Contents(list) /\ Sequence \in Seq(Items) /\ Len(Sequence) = list.count BY <1>3, CListState
  <2>1. x \in Items
    <3>1. list.count \in Nat BY <2>2, ContentsAre
    <3>2. i + 1 \in 1..list.count /\ (i + 1) - 1 = i BY <3>1
    <3>3. Sequence[i + 1] = x BY <1>1, <2>2, <3>2, ContentsAre
    <3> QED BY <2>2, <3>2, <3>3
  <2>3. PICK c, k : c = ListExtract(list, x) /\ k = ListIndexOf(list, x) OBVIOUS
  <2>4. c \in Block /\ Contents(c) = Less(Sequence, x) BY <2>2, <2>3, ExtractRemoves
  <2>5. Contents(c) \in Seq(Items) BY <2>2, <2>4, LessType
  <2>6. k = Abstract!IndexIn(Sequence, x) BY <2>2, <2>3, IndexOfIs
  <2>8. ListInv' /\ Sequence' = Contents(c) /\ listResult' = k BY <1>1, <1>3, <2>3, <2>4, <2>5, CListCall DEF Items
  <2> QED BY <2>1, <2>4, <2>6, <2>8, SameOperators DEF Abstract!RemoveItem, Items, Less
<1>4. CASE kind = "TList"
  <2>2. Owned \in TLists /\ Sequence = View(Owned) /\ Len(Sequence) = list.count /\ Owned.list = list BY <1>4, TListState
  <2>3. PICK t : t = TExtract(Owned, x) OBVIOUS
  <2>4. t \in TLists /\ View(t) = RemoveAt(Sequence, i + 1) /\ ListIndexOf(list, x) = i BY <1>1, <2>2, <2>3, TExtractRemoves
  <2>8. ListInv' /\ Sequence' = View(t) /\ listResult' = i BY <1>1, <1>4, <2>3, <2>4, TListCall
  <2> QED BY <2>2, <2>4, <2>8, SameOperators DEF Abstract!DeleteItem
<1> QED BY <1>2, <1>3, <1>4

\* A list of n items: those it had, and null pointers
LEMMA ResizeStep ==
  ASSUME NEW n, n \in 0..MaxCount, NEW r, NEW s, s = Sequence, \A i \in 1..n : r[i] = IF i <= Len(s) THEN s[i] ELSE Nil,
         r = [i \in 1..n |-> r[i]], Sequence' = r, listResult' = n
  PROVE  Abstract!ResizeTo
<1>1. \A i \in 1..n : r[i] = IF i <= Len(Sequence) THEN Sequence[i] ELSE Nil OBVIOUS
<1>2. Sequence' = [i \in 1..n |-> IF i <= Len(Sequence) THEN Sequence[i] ELSE Nil] BY <1>1
<1> QED BY <1>2 DEF Abstract!ResizeTo, Abstract!Nil, Nil

\* The same sequence, and its length returned
LEMMA CountStep ==
  ASSUME NEW S, NEW s, s \in Seq(S), s = Sequence, NEW n, n \in 0..MaxCount, n = Len(s), Sequence' = s, listResult' = n
  PROVE  Abstract!ResizeTo
<1>1. s = [i \in 1..n |-> s[i]] /\ \A i \in 1..n : s[i] = IF i <= Len(s) THEN s[i] ELSE Nil OBVIOUS
<1> QED BY <1>1, ResizeStep

LEMMA SetCountStep ==
  ASSUME ListInv, CallSetCount
  PROVE  ListInv' /\ Abstract!ResizeTo
<1>1. PICK n \in 0..(IF kind = "CList" THEN MaxCount ELSE list.count) : Becomes(ListSetCount(list, n), TShrink(Owned, n), n)
  BY DEF CallSetCount
<1>2. kind \in {"CList", "TList"} /\ MaxCount \in Nat BY ListAssumption DEF ListInv
<1>3. CASE kind = "CList"
  <2>1. n \in 0..MaxCount /\ n \in Nat BY <1>3
  <2>2. list \in Block /\ Sequence = Contents(list) /\ Sequence \in Seq(Items) BY <1>3, CListState
  <2>3. PICK c, s : c = ListSetCount(list, n) /\ s = Contents(list) OBVIOUS
  <2>4. c \in Block /\ c.count = n BY <2>1, <2>2, <2>3, SetCountResizes
  <2>5. Contents(c) = [i \in 1..n |-> IF i <= Len(Contents(list)) THEN Contents(list)[i] ELSE Nil] BY <2>1, <2>2, <2>3, SetCountResizes
  <2>6. PICK r : r = Contents(c) OBVIOUS
  <2>7. \A i \in 1..n : r[i] = IF i <= Len(s) THEN s[i] ELSE Nil BY <2>3, <2>5, <2>6
  <2>8. r = [i \in 1..n |-> r[i]] BY <2>5, <2>6
  <2>9. r \in Seq(Items)
    <3>1. Nil \in Items /\ s \in Seq(Items) /\ Len(s) \in Nat BY <2>2, <2>3 DEF Items
    <3>2. ASSUME NEW i \in 1..n PROVE r[i] \in Items
      <4>1. i <= Len(s) => i \in 1..Len(s) BY <3>1
      <4>2. i <= Len(s) => s[i] \in Items BY <3>1, <4>1
      <4> QED BY <2>7, <3>1, <4>2
    <3> QED BY <2>1, <2>8, <3>2
  <2>10. Contents(c) \in Seq(Values \cup {Nil}) BY <2>6, <2>9 DEF Items
  <2>11. ListInv' /\ Sequence' = Contents(c) /\ listResult' = n BY <1>1, <1>3, <2>3, <2>4, <2>10, CListCall
  <2>12. s = Sequence /\ Sequence' = r BY <2>2, <2>3, <2>6, <2>11
  <2>13. Abstract!ResizeTo BY ONLY <2>1, <2>7, <2>8, <2>11, <2>12, ResizeStep
  <2> QED BY <2>11, <2>13
<1>4. CASE kind = "TList"
  <2>2. Owned \in TLists /\ Sequence = View(Owned) /\ Len(Sequence) = list.count /\ Owned.list = list /\ list.count \in 0..MaxCount
        /\ Sequence \in Seq(Values)
    BY <1>4, TListState
  <2>1. n \in 0..list.count BY <1>4
  <2>3. PICK t, s, r : t = TShrink(Owned, n) /\ s = View(Owned) /\ r = View(t) OBVIOUS
  <2>4. t \in TLists /\ View(t) = [i \in 1..n |-> View(Owned)[i]] BY <2>1, <2>2, <2>3, TShrinkKeeps
  <2>5. r = [i \in 1..n |-> s[i]] BY <2>3, <2>4
  <2>6. \A i \in 1..n : r[i] = IF i <= Len(s) THEN s[i] ELSE Nil BY <2>1, <2>2, <2>3, <2>5
  <2>7. r = [i \in 1..n |-> r[i]] BY <2>5
  <2>8. ListInv' /\ Sequence' = View(t) /\ listResult' = n BY <1>1, <1>4, <2>3, <2>4, TListCall
  <2>9. s = Sequence /\ Sequence' = r /\ n \in 0..MaxCount BY <1>2, <2>1, <2>2, <2>3, <2>8
  <2>10. Abstract!ResizeTo BY ONLY <2>6, <2>7, <2>8, <2>9, ResizeStep
  <2> QED BY <2>8, <2>10
<1> QED BY <1>2, <1>3, <1>4

-----------------------------------------------------------------------------
LEMMA ClearStep ==
  ASSUME ListInv, CallClear
  PROVE  ListInv' /\ Abstract!ResizeTo
<1>1. Becomes(ListClear(list), TClear(Owned), 0) BY DEF CallClear
<1>2. kind \in {"CList", "TList"} /\ 0 \in 0..MaxCount BY ListAssumption DEF ListInv
<1>3. ListInv' /\ Sequence' = << >> /\ listResult' = 0
  <2>1. CASE kind = "CList"
    <3>1. list \in Block BY <2>1, CListState
    <3>2. PICK c : c = ListClear(list) OBVIOUS
    <3>3. c \in Block /\ Contents(c) = << >> BY <3>1, <3>2, ClearEmpties
    <3>4. Contents(c) \in Seq(Values \cup {Nil}) BY <3>3
    <3> QED BY <1>1, <2>1, <3>2, <3>3, <3>4, CListCall
  <2>2. CASE kind = "TList"
    <3>1. Owned \in TLists BY <2>2, TListState
    <3>2. PICK t : t = TClear(Owned) OBVIOUS
    <3>3. t \in TLists /\ View(t) = << >> BY <3>1, <3>2, TClearEmpties
    <3> QED BY <1>1, <2>2, <3>2, <3>3, TListCall
  <2> QED BY <1>2, <2>1, <2>2
<1>4. PICK n, r, s : n = 0 /\ r = << >> /\ s = Sequence OBVIOUS
<1>5. (\A i \in 1..n : r[i] = IF i <= Len(s) THEN s[i] ELSE Nil) /\ r = [i \in 1..n |-> r[i]] BY <1>4
<1>6. n \in 0..MaxCount /\ s = Sequence /\ Sequence' = r /\ listResult' = n BY <1>2, <1>3, <1>4
<1>7. Abstract!ResizeTo BY ONLY <1>5, <1>6, ResizeStep
<1> QED BY <1>3, <1>7

LEMMA CountUpto == ASSUME NEW n \in Nat PROVE Cardinality(1..n) = n
<1>1. IsFiniteSet(1..n) /\ Cardinality(1..n) = (IF 1 > n THEN 0 ELSE n - 1 + 1) BY FS_Interval
<1> QED BY <1>1

\* All of a sequence without null pointers: nothing is packed away.
LEMMA ChoiceOfAll ==
  ASSUME NEW S, NEW s, s \in Seq(S), NEW n, n = Len(s), NEW t, t \in Abstract!Choice(s, 1..n)
  PROVE  Len(t) = n
<1>1. PICK I : I = 1..n OBVIOUS
<1>2. I \subseteq 1..Len(s) /\ t \in Abstract!Choice(s, I) BY <1>1
<1>3. Len(t) = Cardinality(I) BY ONLY s \in Seq(S), <1>2, ChoiceType
<1>4. n \in Nat OBVIOUS
<1>5. Cardinality(1..n) = n BY <1>4, CountUpto
<1> QED BY <1>1, <1>3, <1>5

LEMMA PackStep ==
  ASSUME ListInv, CallPack
  PROVE  ListInv' /\ (Abstract!PackItems \/ Abstract!ResizeTo)
<1>1. Becomes(ListPack(list), Owned, ListPack(list).count) BY DEF CallPack
<1>2. kind \in {"CList", "TList"} BY DEF ListInv
<1>3. PICK c, s, drop : c = ListPack(list) /\ s = Contents(list) /\ drop = {Nil} OBVIOUS
<1>4. list \in Block
  <2>1. CASE kind = "CList" BY <2>1, CListState
  <2>2. CASE kind = "TList"
    <3>1. Owned \in TLists /\ Owned.list = list BY <2>2, TListState
    <3> QED BY <3>1, TListIs
  <2> QED BY <1>2, <2>1, <2>2
<1>5. c = DeleteItems(list, drop) BY <1>3 DEF ListPack
<1>6. c \in Block /\ Contents(c) \in Abstract!Choice(s, Outside(s, drop)) BY <1>3, <1>4, <1>5, DeleteItemsDrops
<1>7. Len(Contents(c)) = c.count /\ s \in Seq(Int) /\ Len(s) = list.count BY <1>3, <1>4, <1>6, ContentsAre
<1>8. CASE kind = "CList"
  <2>1. Sequence = s /\ s \in Seq(Items) BY <1>3, <1>8, CListState
  <2>2. Contents(c) \in Seq(Items)
    <3>1. PICK I, S, t : I = Outside(s, drop) /\ S = Items /\ t = Contents(c) OBVIOUS
    <3>2. I \subseteq 1..Len(s) /\ t \in Abstract!Choice(s, I) /\ s \in Seq(S) BY <1>6, <2>1, <3>1 DEF Outside
    <3>3. t \in Seq(S) BY ONLY <3>2, ChoiceType
    <3> QED BY <3>1, <3>3
  <2>3. Contents(c) \in Abstract!Without(s, <<Nil>>)
    <3>1. PICK t, S : t = <<Nil>> /\ S = Int OBVIOUS
    <3>2. s \in Seq(S) /\ t \in Seq(S) BY <1>7, <3>1 DEF Nil
    <3>3. Abstract!Choice(s, Outside(s, ToSet(t))) = Abstract!Without(s, t) BY ONLY <3>2, OutsideMembers
    <3>4. ToSet(t) = drop BY <1>3, <3>1 DEF ToSet
    <3> QED BY <1>6, <3>1, <3>3, <3>4
  <2>4. ListInv' /\ Sequence' = Contents(c) /\ listResult' = c.count BY <1>1, <1>3, <1>6, <1>8, <2>2, CListCall DEF Items
  <2>5. Abstract!PackItems BY <1>7, <2>1, <2>3, <2>4 DEF Abstract!PackItems, Abstract!Nil, Nil
  <2> QED BY <2>4, <2>5
<1>9. CASE kind = "TList"
  <2>1. /\ Owned \in TLists /\ Owned.list = list /\ Sequence = View(Owned) /\ Sequence \in Seq(Values) /\ Len(Sequence) = list.count
        /\ list.count \in 0..MaxCount
    BY <1>9, TListState
  <2>2. PICK n : n = Len(s) OBVIOUS
  <2>3. Outside(s, drop) = 1..n
    <3>1. \A i \in 1..n : s[i] # Nil
      <4> TAKE i \in 1..n
      <4>1. i - 1 \in 0..(Owned.list.count - 1) /\ (i - 1) + 1 = i BY <1>7, <2>1, <2>2
      <4>2. Contents(Owned.list)[i] \in Addresses BY <2>1, <4>1, TListItems
      <4> QED BY <1>3, <2>1, <4>2 DEF Addresses, Nil
    <3> QED BY <1>3, <2>2, <3>1 DEF Outside
  <2>4. Len(Contents(c)) = n
    <3>1. PICK S, t : S = Int /\ t = Contents(c) OBVIOUS
    <3>2. s \in Seq(S) /\ t \in Abstract!Choice(s, 1..n) BY <1>6, <1>7, <2>3, <3>1
    <3> QED BY <2>2, <3>1, <3>2, ChoiceOfAll
  <2>5. ListInv' /\ Sequence' = View(Owned) /\ listResult' = n BY <1>1, <1>3, <1>7, <1>9, <2>1, <2>4, TListCall
  <2>6. PICK S, r : S = Values /\ r = Sequence OBVIOUS
  <2>7. r \in Seq(S) /\ r = Sequence /\ n \in 0..MaxCount /\ n = Len(r) /\ Sequence' = r /\ listResult' = n
    BY <1>7, <2>1, <2>2, <2>5, <2>6
  <2>8. Abstract!ResizeTo BY ONLY <2>7, CountStep
  <2> QED BY <2>5, <2>8
<1> QED BY <1>2, <1>8, <1>9

LEMMA ReserveStep ==
  ASSUME ListInv, CallReserve
  PROVE  ListInv' /\ Abstract!ResizeTo
<1>1. PICK n \in list.count..MaxCount :
        Becomes(SetCapacity(list, n), [Owned EXCEPT !.list = SetCapacity(@, n)], list.count)
  BY DEF CallReserve
<1>2. kind \in {"CList", "TList"} BY DEF ListInv
<1>3. ListInv' /\ Sequence' = Sequence /\ listResult' = list.count /\ list.count \in 0..MaxCount /\ Len(Sequence) = list.count
      /\ \E S : Sequence \in Seq(S)
  <2>1. CASE kind = "CList"
    <3>1. /\ list \in Block /\ list.count \in 0..MaxCount /\ Sequence = Contents(list) /\ Sequence \in Seq(Items)
          /\ Len(Sequence) = list.count
      BY <2>1, CListState
    <3>2. PICK c : c = SetCapacity(list, n) OBVIOUS
    <3>3. n \in Nat /\ list.count <= n BY <3>1, ListAssumption
    <3>4. c \in Block /\ Contents(c) = Contents(list) BY <3>1, <3>2, <3>3, CapacityKeeps
    <3>5. Contents(c) \in Seq(Values \cup {Nil}) BY <3>1, <3>4 DEF Items
    <3>6. ListInv' /\ Sequence' = Contents(c) /\ listResult' = list.count BY <1>1, <2>1, <3>2, <3>4, <3>5, CListCall
    <3> QED BY <3>1, <3>4, <3>6
  <2>2. CASE kind = "TList"
    <3>1. /\ Owned \in TLists /\ Owned.list = list /\ list.count \in 0..MaxCount /\ Sequence = View(Owned) /\ Sequence \in Seq(Values)
          /\ Len(Sequence) = list.count
      BY <2>2, TListState
    <3>2. PICK t : t = [Owned EXCEPT !.list = SetCapacity(@, n)] OBVIOUS
    <3>3. n \in Nat /\ Owned.list.count <= n BY <3>1, ListAssumption
    <3>4. t \in TLists /\ View(t) = View(Owned) BY <3>1, <3>2, <3>3, TReserveKeeps
    <3>6. ListInv' /\ Sequence' = View(t) /\ listResult' = list.count BY <1>1, <2>2, <3>2, <3>4, TListCall
    <3> QED BY <3>1, <3>4, <3>6
  <2> QED BY <1>2, <2>1, <2>2
<1>4. PICK S, r, m : r = Sequence /\ m = list.count /\ Sequence \in Seq(S) BY <1>3
<1>5. r \in Seq(S) /\ r = Sequence /\ m \in 0..MaxCount /\ m = Len(r) /\ Sequence' = r /\ listResult' = m BY <1>3, <1>4
<1>6. Abstract!ResizeTo BY ONLY <1>5, CountStep
<1> QED BY <1>3, <1>6

\* The items of s in an order p that their keys are in
LEMMA SortedStep ==
  ASSUME NEW s, s = Sequence, NEW n, n = Len(s), NEW p, NEW r, SortedBy(r, s, p, n), Sequence' = r, listResult' = n
  PROVE  Abstract!SortItems
<1>1. p \in Abstract!Orders(n) /\ r = [i \in 1..n |-> s[p[i]]] /\ \A i, j \in 1..n : i < j => s[p[i]] <= s[p[j]] BY DEF SortedBy
<1>2. p \in Abstract!Orders(Len(Sequence)) BY <1>1
<1>3. Sequence' = [i \in 1..Len(Sequence) |-> Sequence[p[i]]] BY <1>1
<1>4. \A i, j \in 1..Len(Sequence) : i < j => Sequence[p[i]] <= Sequence[p[j]] BY <1>1
<1> QED BY <1>2, <1>3, <1>4 DEF Abstract!SortItems

LEMMA SortCallStep ==
  ASSUME ListInv, CallSort
  PROVE  ListInv' /\ Abstract!SortItems
<1>1. Becomes(ListSort(list), TSort(Owned), list.count) BY DEF CallSort
<1>2. kind \in {"CList", "TList"} BY DEF ListInv
<1>3. CASE kind = "CList"
  <2>1. /\ list \in Block /\ list.count \in 0..MaxCount /\ Sequence = Contents(list) /\ Sequence \in Seq(Items)
        /\ Len(Sequence) = list.count /\ \A x \in Items : x \in Int
    BY <1>3, CListState
  <2>2. PICK c, s, n, key : c = ListSort(list) /\ s = Contents(list) /\ n = list.count /\ key = [v \in Items |-> v] OBVIOUS
  <2>3. n \in Nat /\ \A i \in 1..n : s[i] = list.cells[i - 1] /\ s[i] \in Items BY <2>1, <2>2, ContentsAre
  <2>4. c \in Block /\ \E p : SortedBy(Contents(c), s, p, n)
    <3>1. CASE n > 0
      <4>1. c = QuickSort(list, key) BY <2>2, <3>1 DEF ListSort, Items
      <4>2. \A i \in 0..(list.count - 1) : key[list.cells[i]] \in Int
        <5> TAKE i \in 0..(list.count - 1)
        <5>1. i + 1 \in 1..n /\ (i + 1) - 1 = i BY <2>2, <2>3
        <5>2. list.cells[i] \in Items BY <2>3, <5>1
        <5> QED BY <2>1, <2>2, <5>2
      <4>3. PICK t : t = Contents(c) OBVIOUS
      <4>4. c \in Block /\ \E p : SortedAs(t, s, p, n, key) BY <2>1, <2>2, <4>1, <4>2, <4>3, QuickSortOrders
      <4>5. PICK p : SortedAs(t, s, p, n, key) BY <4>4
      <4>50. Len(t) = n /\ t \in Seq(Int)
        <5>1. c.count = n BY <2>1, <2>2, <4>1, <4>2, <4>3, QuickSortOrders
        <5> QED BY <4>3, <4>4, <5>1, ContentsAre
      <4>6. Onto(p, n) /\ \A i \in 1..n : t[i] = s[p[i]] BY <4>5 DEF SortedAs
      <4>7. \A i \in 1..n : p[i] \in 1..n BY <4>6 DEF Onto
      <4>8. \A i \in 1..n : s[p[i]] \in Items BY <2>3, <4>7
      <4>9. \A i \in 1..n : key[t[i]] = s[p[i]] BY <2>2, <4>6, <4>8
      <4>10. \A i, j \in 1..n : i < j => s[p[i]] <= s[p[j]] BY <4>5, <4>9 DEF SortedAs
      <4>11. t = [i \in 1..n |-> s[p[i]]]
        <5>1. t = [i \in 1..n |-> t[i]] BY <4>50
        <5> QED BY <4>6, <5>1
      <4>12. SortedBy(t, s, p, n) BY <4>6, <4>10, <4>11, OntoOrders DEF SortedBy
      <4> QED BY <4>3, <4>4, <4>12
    <3>2. CASE ~(n > 0)
      <4>1. c = list /\ n = 0 BY <2>2, <2>3, <3>2 DEF ListSort
      <4>2. PICK p : p = [i \in 1..n |-> i] OBVIOUS
      <4>3. p \in [1..n -> 1..n] /\ \A i, j \in 1..n : p[i] = p[j] => i = j BY <4>2
      <4>4. Onto(p, n) BY <2>3, <4>3, OrdersOnto
      <4>5. s = [i \in 1..n |-> s[p[i]]] BY <2>1, <2>2, <4>1
      <4>6. \A i, j \in 1..n : i < j => s[p[i]] <= s[p[j]] BY <4>1
      <4>7. SortedBy(s, s, p, n) BY <4>4, <4>5, <4>6, OntoOrders DEF SortedBy
      <4> QED BY <2>1, <2>2, <4>1, <4>7
    <3> QED BY <3>1, <3>2
  <2>5. PICK p : SortedBy(Contents(c), s, p, n) BY <2>4
  <2>6. Contents(c) \in Seq(Items)
    <3>1. p \in Abstract!Orders(n) /\ Contents(c) = [i \in 1..n |-> s[p[i]]] BY <2>5 DEF SortedBy
    <3>2. \A i \in 1..n : p[i] \in 1..n BY <3>1 DEF Abstract!Orders
    <3>3. \A i \in 1..n : s[p[i]] \in Items BY <2>3, <3>2
    <3> QED BY <2>3, <3>1, <3>3
  <2>7. ListInv' /\ Sequence' = Contents(c) /\ listResult' = n BY <1>1, <1>3, <2>2, <2>4, <2>6, CListCall DEF Items
  <2>8. PICK r : r = Contents(c) OBVIOUS
  <2>9. s = Sequence /\ n = Len(s) /\ SortedBy(r, s, p, n) /\ Sequence' = r /\ listResult' = n BY <2>1, <2>2, <2>5, <2>7, <2>8
  <2>10. Abstract!SortItems BY ONLY <2>9, SortedStep
  <2> QED BY <2>7, <2>10
<1>4. CASE kind = "TList"
  <2>1. Owned \in TLists /\ Owned.list = list /\ Sequence = View(Owned) /\ Len(Sequence) = list.count BY <1>4, TListState
  <2>2. PICK t, s, n : t = TSort(Owned) /\ s = View(Owned) /\ n = list.count OBVIOUS
  <2>3. t \in TLists /\ \E p : SortedBy(View(t), s, p, n) BY <2>1, <2>2, TSortSorts
  <2>4. PICK p : SortedBy(View(t), s, p, n) BY <2>3
  <2>5. ListInv' /\ Sequence' = View(t) /\ listResult' = n BY <1>1, <1>4, <2>2, <2>3, TListCall
  <2>6. PICK r : r = View(t) OBVIOUS
  <2>7. s = Sequence /\ n = Len(s) /\ SortedBy(r, s, p, n) /\ Sequence' = r /\ listResult' = n BY <2>1, <2>2, <2>4, <2>5, <2>6
  <2>8. Abstract!SortItems BY ONLY <2>7, SortedStep
  <2> QED BY <2>5, <2>8
<1> QED BY <1>2, <1>3, <1>4

-----------------------------------------------------------------------------
LEMMA AssignStep ==
  ASSUME ListInv, CallAssign
  PROVE  ListInv' /\ Abstract!AssignList(source)
<1>0. PICK op \in Abstract!AssignOps :
        \E c, t : /\ c = (IF kind = "CList" THEN ListAssign(op, list, source) ELSE list)
                 /\ t = (IF kind = "TList" THEN TAssign(op, Owned, source) ELSE Owned)
                 /\ Becomes(c, t, IF kind = "CList" THEN c.count ELSE t.list.count)
  BY DEF CallAssign, Abstract!AssignOps
<1>1. PICK c, t :
        /\ c = (IF kind = "CList" THEN ListAssign(op, list, source) ELSE list)
        /\ t = (IF kind = "TList" THEN TAssign(op, Owned, source) ELSE Owned)
        /\ Becomes(c, t, IF kind = "CList" THEN c.count ELSE t.list.count)
  BY <1>0
<1>2. kind \in {"CList", "TList"} BY DEF ListInv
<1>3. CASE kind = "CList"
  <2>1. /\ list \in Block /\ Sequence = Contents(list) /\ Sequence \in Seq(Items) /\ source \in Seq(Items) /\ source \in Seq(Int)
    BY <1>3, CListState
  <2>2. PICK s, u : s = Contents(list) /\ u = Contents(c) OBVIOUS
  <2>3. s \in Seq(Values \cup {Nil}) BY <2>1, <2>2 DEF Items
  <2>4. c = ListAssign(op, list, source) BY <1>1, <1>3
  <2>5. c \in Block /\ u \in Abstract!Assigned(op, s, source) BY <1>1, <2>1, <2>2, <2>3, <2>4, AssignAssigns
  <2>6. u \in Seq(Items)
    <3>1. PICK S, r : S = Items /\ r = source OBVIOUS
    <3>2. s \in Seq(S) /\ r \in Seq(S) /\ op \in Abstract!AssignOps /\ u \in Abstract!Assigned(op, s, r) BY <2>1, <2>2, <2>5, <3>1
    <3>3. u \in Seq(S) BY ONLY <3>2, AssignedType
    <3> QED BY <3>1, <3>3
  <2>7. u \in Seq(Values \cup {Nil}) BY <2>6 DEF Items
  <2>8. Becomes(c, t, c.count) BY <1>1, <1>3
  <2>9. ListInv' /\ Sequence' = u /\ listResult' = c.count BY <1>3, <2>2, <2>5, <2>7, <2>8, CListCall
  <2>10. Len(u) = c.count BY <2>2, <2>5, ContentsAre
  <2> QED BY <2>1, <2>2, <2>5, <2>9, <2>10 DEF Abstract!AssignList
<1>4. CASE kind = "TList"
  <2>1. Owned \in TLists /\ Sequence = View(Owned) /\ source \in Seq(Values) BY <1>4, TListState
  <2>2. PICK s, u : s = View(Owned) /\ u = View(t) OBVIOUS
  <2>4. t = TAssign(op, Owned, source) BY <1>1, <1>4
  <2>5. t \in TLists /\ u \in Abstract!Assigned(op, s, source) BY <1>1, <2>1, <2>2, <2>4, TAssignAssigns
  <2>8. Becomes(c, t, t.list.count) BY <1>1, <1>4
  <2>9. ListInv' /\ Sequence' = u /\ listResult' = t.list.count BY <1>4, <2>2, <2>5, <2>8, TListCall
  <2>10. Len(u) = t.list.count BY <2>2, <2>5, TListIs
  <2> QED BY <2>1, <2>2, <2>5, <2>9, <2>10 DEF Abstract!AssignList
<1> QED BY <1>2, <1>3, <1>4

LEMMA ErrorStep ==
  ASSUME ListInv, IndexError
  PROVE  ListInv' /\ Abstract!Refuse
<1>1. listResult' = Throws /\ kind' = kind /\ list' = list /\ heap' = heap /\ source' = source BY DEF IndexError
<1>2. Sequence' = Sequence BY <1>1 DEF Sequence, Item
<1>3. Owned' = Owned BY <1>1 DEF Owned
<1>4. ListInv' BY <1>1, <1>3 DEF ListInv
<1> QED BY <1>1, <1>2, <1>4 DEF Abstract!Refuse, Abstract!Throws, Throws

LEMMA ListStep ==
  ASSUME ListInv, ListNext
  PROVE  ListInv' /\ Abstract!Next(source)
<1>1. CASE CallAdd BY <1>1, AddStep DEF Abstract!Next
<1>2. CASE CallInsert BY <1>2, InsertStep DEF Abstract!Next
<1>3. CASE CallDelete BY <1>3, DeleteStep DEF Abstract!Next
<1>4. CASE CallPut BY <1>4, PutStep DEF Abstract!Next
<1>5. CASE CallSwap BY <1>5, SwapStep DEF Abstract!Next
<1>6. CASE CallMove BY <1>6, MoveStep DEF Abstract!Next
<1>7. CASE CallRemove BY <1>7, RemoveStep DEF Abstract!Next
<1>8. CASE CallExtract BY <1>8, ExtractStep DEF Abstract!Next
<1>9. CASE CallSetCount BY <1>9, SetCountStep DEF Abstract!Next
<1>10. CASE CallClear BY <1>10, ClearStep DEF Abstract!Next
<1>11. CASE CallPack BY <1>11, PackStep DEF Abstract!Next
<1>12. CASE CallSort BY <1>12, SortCallStep DEF Abstract!Next
<1>13. CASE CallReserve BY <1>13, ReserveStep DEF Abstract!Next
<1>14. CASE CallAssign BY <1>14, AssignStep DEF Abstract!Next
<1>15. CASE IndexError BY <1>15, ErrorStep DEF Abstract!Next
<1> QED BY <1>1, <1>2, <1>3, <1>4, <1>5, <1>6, <1>7, <1>8, <1>9, <1>10, <1>11, <1>12, <1>13, <1>14, <1>15 DEF ListNext

LEMMA ListStart == ListInit => ListInv /\ Abstract!Init
<1> SUFFICES ASSUME ListInit PROVE ListInv /\ Abstract!Init OBVIOUS
<1>1. kind \in {"CList", "TList"} /\ list = NewList /\ heap = [a \in {} |-> Junk] /\ source \in [1..SourceCount -> Values] /\ listResult = 0
  BY DEF ListInit
<1>2. source \in Seq(Values) /\ MaxCount \in Nat
  <2>1. SourceCount \in Nat /\ MaxCount \in Nat BY ListAssumption
  <2> QED BY <1>1, <2>1
<1>3. list \in Block /\ list.count = 0 /\ Contents(list) = << >> BY <1>1, NewListIsBlock
<1>4. Contents(list) \in Seq(Values \cup {Nil}) BY <1>3
<1>5. Owning(Contents(list), heap)
  <2>1. PICK s, r, n : s = << >> /\ r = << >> /\ n = 0 OBVIOUS
  <2>2. DOMAIN heap = {} /\ heap = [a \in DOMAIN heap |-> heap[a]]
    <3>1. DOMAIN heap = {} BY <1>1
    <3> QED BY <1>1, <3>1
  <2>3. s \in Seq(Int) /\ Len(s) = n /\ r \in Seq(Values) /\ Len(r) = n /\ 1..n = {} BY <2>1
  <2>4. Dealt(s, n, heap, r) BY <2>2, <2>3 DEF Dealt
  <2>5. n \in Nat BY <2>1
  <2>6. Owning(s, heap) BY ONLY <2>4, <2>5, OwningMade
  <2> QED BY <1>3, <2>1, <2>6
<1>6. Owned \in TLists BY <1>3, <1>5, TListMade DEF Owned
<1>7. ListInv BY <1>1, <1>2, <1>3, <1>4, <1>6 DEF ListInv
<1>8. Sequence = << >>
  <2>1. Sequence = [i \in 1..0 |-> Item(list, heap, i - 1)] BY <1>3 DEF Sequence
  <2> QED BY <2>1
<1> QED BY <1>1, <1>7, <1>8 DEF Abstract!Init

\* ListInv is inductive.
LEMMA ListAlways == ListSpec => []ListInv
<1>1. ListInv /\ UNCHANGED listVars => ListInv'
  <2> SUFFICES ASSUME ListInv, UNCHANGED listVars PROVE ListInv' OBVIOUS
  <2>1. kind' = kind /\ list' = list /\ heap' = heap /\ source' = source BY DEF listVars
  <2>2. Owned' = Owned BY <2>1 DEF Owned
  <2> QED BY <2>1, <2>2 DEF ListInv
<1>2. ListInv /\ [ListNext]_listVars => ListInv' BY <1>1, ListStep
<1> QED BY <1>2, ListStart, PTL DEF ListSpec

\* Whatever the values, the bounds and the calls: a CList and a TList start as
\* the empty sequence, and every call of either does to the sequence of its
\* items, and returns, what the operation on a sequence would.
THEOREM ListsAreSequences == ListSpec => Abstract!Init /\ ListIsSequence
<1>1. ListInv /\ [ListNext]_listVars => [Abstract!Next(source)]_<<Sequence, listResult>>
  <2> SUFFICES ASSUME ListInv, [ListNext]_listVars PROVE [Abstract!Next(source)]_<<Sequence, listResult>> OBVIOUS
  <2>1. CASE ListNext BY <2>1, ListStep
  <2>2. CASE UNCHANGED listVars
    <3>1. kind' = kind /\ list' = list /\ heap' = heap /\ listResult' = listResult BY <2>2 DEF listVars
    <3>2. Sequence' = Sequence BY <3>1 DEF Sequence, Item
    <3> QED BY <3>1, <3>2
  <2> QED BY <2>1, <2>2
<1>2. ListInit => Abstract!Init BY ListStart
<1> QED BY <1>1, <1>2, ListAlways, PTL DEF ListSpec, ListIsSequence

\* Whatever the calls, a TList points at each of its live copies once, and at nothing else.
THEOREM CopiesAreOwnedOnce == ListSpec => []CopiesOwnedOnce
<1>1. ListInv => CopiesOwnedOnce
  <2> SUFFICES ASSUME ListInv, kind = "TList"
               PROVE  /\ DOMAIN heap = {list.cells[i] : i \in 0..(list.count - 1)}
                      /\ Cardinality(DOMAIN heap) = list.count
    BY DEF CopiesOwnedOnce
  <2>1. Owned \in TLists /\ Owned.list = list /\ Owned.heap = heap BY TListState
  <2>2. PICK s, n : s = Contents(list) /\ n = list.count OBVIOUS
  <2>3. list \in Block /\ Owning(s, heap) /\ Len(s) = n /\ n \in Nat BY <2>1, <2>2, TListIs
  <2>4. Cardinality(DOMAIN heap) = n BY <2>3, OwnedCounted
  <2>5. \A i \in 1..n : s[i] = list.cells[i - 1] BY <2>2, <2>3, ContentsAre
  <2>6. PICK r : Dealt(s, n, heap, r) BY <2>3, OwningIs
  <2>7. ASSUME NEW a \in DOMAIN heap PROVE \E i \in 0..(n - 1) : a = list.cells[i]
    <3>1. PICK i \in 1..n : s[i] = a BY <2>6 DEF Dealt
    <3>2. i - 1 \in 0..(n - 1) BY <2>3
    <3> QED BY <2>5, <3>1, <3>2
  <2>8. ASSUME NEW i \in 0..(n - 1) PROVE list.cells[i] \in DOMAIN heap
    <3>1. i + 1 \in 1..n /\ (i + 1) - 1 = i BY <2>3
    <3>2. s[i + 1] \in DOMAIN heap BY <2>6, <3>1 DEF Dealt
    <3> QED BY <2>5, <3>1, <3>2
  <2>9. DOMAIN heap = {list.cells[i] : i \in 0..(n - 1)} BY <2>7, <2>8
  <2> QED BY <2>2, <2>4, <2>9
<1> QED BY <1>1, ListAlways, PTL

-----------------------------------------------------------------------------
\* Items and collections.
Cards == [group : Groups \cup {NoGroup}, id : Nat, key : Keys \cup {Nil}, work : Block]

LEMMA CardIs ==
  ASSUME NEW x
  PROVE  x \in Cards <=> /\ x = [group |-> x.group, id |-> x.id, key |-> x.key, work |-> x.work]
                         /\ x.group \in Groups \cup {NoGroup} /\ x.id \in Nat
                         /\ x.key \in Keys \cup {Nil} /\ x.work \in Block
BY DEF Cards

Worlds == [members : [Groups -> Block], nextId : [Groups -> Nat], items : UNION {[D -> Cards] : D \in SUBSET Handles}]

LEMMA WorldIs ==
  ASSUME NEW w, w \in Worlds
  PROVE  /\ w = [members |-> w.members, nextId |-> w.nextId, items |-> w.items]
         /\ w.members \in [Groups -> Block] /\ w.nextId \in [Groups -> Nat]
         /\ w.items \in [DOMAIN w.items -> Cards] /\ DOMAIN w.items \subseteq Handles
<1>1. w.items \in UNION {[D -> Cards] : D \in SUBSET Handles} BY DEF Worlds
<1>2. PICK D : D \in SUBSET Handles /\ w.items \in [D -> Cards] BY <1>1
<1> QED BY <1>2 DEF Worlds

LEMMA WorldMade ==
  ASSUME NEW m, m \in [Groups -> Block], NEW n, n \in [Groups -> Nat], NEW f, NEW D, f \in [D -> Cards], D \subseteq Handles,
         NEW w, w = [members |-> m, nextId |-> n, items |-> f]
  PROVE  w \in Worlds /\ w.members = m /\ w.nextId = n /\ w.items = f
<1>1. f \in UNION {[B -> Cards] : B \in SUBSET Handles} OBVIOUS
<1> QED BY <1>1 DEF Worlds

\* What a collection lists are the items that name it, each once, and no two of them have the same number.
Holds(w, g) ==
  /\ NoDuplicates(Contents(w.members[g]))
  /\ \A o : o \in Members(Contents(w.members[g])) <=> o \in DOMAIN w.items /\ w.items[o].group = g
Numbered(w) ==
  \A o, p \in DOMAIN w.items :
    w.items[o].group \in Groups =>
      /\ w.items[o].id < w.nextId[w.items[o].group]
      /\ w.items[p].group = w.items[o].group /\ w.items[p].id = w.items[o].id => p = o
Tidy(w) == w \in Worlds /\ Numbered(w) /\ \A g \in Groups : Holds(w, g)

\* h is f, but that o is in another collection.
Moved(f, h, o, g) ==
  /\ DOMAIN h = DOMAIN f /\ \A p \in DOMAIN f : p # o => h[p] = f[p]
  /\ h[o].group = g /\ h[o].key = f[o].key /\ h[o].work = f[o].work

LEMMA InsertMemberTidies ==
  ASSUME NEW w, Tidy(w), NEW g, g \in Groups, NEW o, o \in DOMAIN w.items, w.items[o].group = NoGroup,
         NEW v, v = InsertMember(w, g, o)
  PROVE  Tidy(v) /\ Moved(w.items, v.items, o, g)
<1>1. /\ w = [members |-> w.members, nextId |-> w.nextId, items |-> w.items]
      /\ w.members \in [Groups -> Block] /\ w.nextId \in [Groups -> Nat]
      /\ w.items \in [DOMAIN w.items -> Cards] /\ DOMAIN w.items \subseteq Handles
  BY WorldIs DEF Tidy
<1>2. PICK f, D : f = w.items /\ D = DOMAIN f OBVIOUS
<1>3. PICK m : m = [w.members EXCEPT ![g] = ListAdd(@, o)] OBVIOUS
<1>4. PICK n : n = [w.nextId EXCEPT ![g] = @ + 1] OBVIOUS
<1>5. PICK x : x = [f[o] EXCEPT !.group = g, !.id = w.nextId[g]] OBVIOUS
<1>6. PICK h : h = [f EXCEPT ![o] = x] OBVIOUS
<1>7. v = [members |-> m, nextId |-> n, items |-> h]
  <2>1. /\ v = [members |-> v.members, nextId |-> v.nextId, items |-> v.items]
        /\ v.members = m /\ v.nextId = n /\ v.items = h
    BY <1>1, <1>2, <1>3, <1>4, <1>5, <1>6 DEF InsertMember
  <2> QED BY <2>1
<1>8. f[o] \in Cards /\ f[o] = [group |-> f[o].group, id |-> f[o].id, key |-> f[o].key, work |-> f[o].work]
  BY <1>1, <1>2, CardIs
<1>9. /\ x = [group |-> x.group, id |-> x.id, key |-> x.key, work |-> x.work]
      /\ x.group = g /\ x.id = w.nextId[g] /\ x.key = f[o].key /\ x.work = f[o].work
  BY <1>5, <1>8
<1>10. x \in Cards
  <2>1. f[o].key \in Keys \cup {Nil} /\ f[o].work \in Block BY <1>8, CardIs
  <2>2. w.nextId[g] \in Nat BY <1>1
  <2> QED BY <1>9, <2>1, <2>2, CardIs
<1>11. /\ h \in [D -> Cards] /\ h[o] = x /\ \A p \in D : p # o => h[p] = f[p]
       /\ DOMAIN h = D /\ o \in D /\ D \subseteq Handles
  BY <1>1, <1>2, <1>6, <1>10
<1>12. w.members[g] \in Block /\ o \in Int
  <2>1. o \in Handles BY <1>1
  <2> QED BY <1>1, <2>1, CollAssumption
<1>13. PICK l : l = ListAdd(w.members[g], o) /\ l \in Block /\ Contents(l) = Append(Contents(w.members[g]), o)
  BY <1>12, AddAppends
<1>14. m \in [Groups -> Block] /\ m[g] = l /\ \A e \in Groups : e # g => m[e] = w.members[e] BY <1>1, <1>3, <1>13
<1>15. n \in [Groups -> Nat] /\ n[g] = w.nextId[g] + 1 /\ \A e \in Groups : e # g => n[e] = w.nextId[e] BY <1>1, <1>4
<1>16. v \in Worlds /\ v.members = m /\ v.nextId = n /\ v.items = h BY <1>7, <1>11, <1>14, <1>15, WorldMade
<1>17. ASSUME NEW e, e \in Groups PROVE Holds(v, e)
  <2>1. PICK s : s = Contents(w.members[e]) /\ s \in Seq(Int) BY <1>1, <1>17, ContentsAre
  <2>2. /\ NoDuplicates(s)
        /\ \A p : p \in Members(s) <=> p \in D /\ f[p].group = e
    BY <1>2, <1>17, <2>1 DEF Tidy, Holds
  <2>3. CASE e = g
    <3>1. o \notin Members(s) BY <1>2, <2>2, <2>3, CollAssumption
    <3>2. PICK t, S : t = Append(s, o) /\ S = Int OBVIOUS
    <3>3. Members(t) = Members(s) \cup {o} /\ NoDuplicates(t)
      <4>1. s \in Seq(S) /\ o \in S BY <1>12, <2>1, <3>2
      <4> QED BY <2>2, <3>1, <3>2, <4>1, Appended
    <3>4. \A p : p \in Members(t) <=> p \in D /\ h[p].group = e BY <1>9, <1>11, <2>2, <2>3, <3>3
    <3>5. Contents(v.members[e]) = t BY <1>13, <1>14, <1>16, <2>1, <2>3, <3>2
    <3> QED BY <1>11, <1>16, <3>3, <3>4, <3>5 DEF Holds
  <2>4. CASE e # g
    <3>1. \A p : p \in Members(s) <=> p \in D /\ h[p].group = e BY <1>2, <1>9, <1>11, <1>17, <2>2, <2>4, CollAssumption
    <3>2. Contents(v.members[e]) = s BY <1>14, <1>16, <1>17, <2>1, <2>4
    <3> QED BY <1>11, <1>16, <2>2, <3>1, <3>2 DEF Holds
  <2> QED BY <2>3, <2>4
<1>18. Numbered(v)
  <2>1. \A p, q \in D : f[p].group \in Groups => /\ f[p].id < w.nextId[f[p].group]
                                                 /\ f[q].group = f[p].group /\ f[q].id = f[p].id => q = p
    BY <1>2 DEF Tidy, Numbered
  <2>2. \A p \in D : f[p].id \in Nat BY <1>1, <1>2, CardIs
  <2>3. \A e \in Groups : w.nextId[e] \in Nat BY <1>1
  <2>4. ASSUME NEW p, p \in D, NEW q, q \in D, h[p].group \in Groups
        PROVE  /\ h[p].id < n[h[p].group]
               /\ h[q].group = h[p].group /\ h[q].id = h[p].id => q = p
    <3>1. CASE p = o /\ q = o BY <1>9, <1>11, <1>15, <2>3, <3>1
    <3>2. CASE p = o /\ q # o
      <4>1. h[p].group = g /\ h[p].id = w.nextId[g] /\ h[q] = f[q] BY <1>9, <1>11, <2>4, <3>2
      <4>2. f[q].group = g => f[q].id < w.nextId[g] BY <2>1, <2>4
      <4> QED BY <1>15, <2>2, <2>3, <2>4, <4>1, <4>2
    <3>3. CASE p # o /\ q = o
      <4>1. h[q].group = g /\ h[q].id = w.nextId[g] /\ h[p] = f[p] BY <1>9, <1>11, <2>4, <3>3
      <4>2. f[p].id < w.nextId[f[p].group] BY <2>1, <2>4, <4>1
      <4>3. f[p].id \in Nat /\ w.nextId[f[p].group] \in Nat BY <2>2, <2>3, <2>4, <4>1
      <4> QED BY <1>15, <2>4, <4>1, <4>2, <4>3
    <3>4. CASE p # o /\ q # o
      <4>1. h[p] = f[p] /\ h[q] = f[q] BY <1>11, <2>4, <3>4
      <4>2. /\ f[p].id < w.nextId[f[p].group]
            /\ f[q].group = f[p].group /\ f[q].id = f[p].id => q = p BY <2>1, <2>4, <4>1
      <4>3. f[p].id \in Nat /\ w.nextId[f[p].group] \in Nat BY <2>2, <2>3, <2>4, <4>1
      <4> QED BY <1>15, <2>4, <4>1, <4>2, <4>3
    <3> QED BY <3>1, <3>2, <3>3, <3>4
  <2> QED BY <1>11, <1>16, <2>4 DEF Numbered
<1> QED BY <1>2, <1>9, <1>11, <1>16, <1>17, <1>18 DEF Tidy, Moved

\* CCollection::RemoveItem, on the list
LEMMA TakenOut ==
  ASSUME NEW l, l \in Block, NEW s, s = Contents(l), NoDuplicates(s), NEW x, x \in Members(s),
         NEW r, r = IF l.cells[l.count - 1] = x THEN ListDelete(l, l.count - 1) ELSE ListRemove(l, x)
  PROVE  /\ r \in Block /\ r.count = l.count - 1
         /\ NoDuplicates(Contents(r)) /\ Members(Contents(r)) = Members(s) \ {x}
<1>1. s \in Seq(Int) /\ Len(s) = l.count /\ l.count \in Nat BY ContentsAre
<1>2. \A i \in 1..l.count : s[i] = l.cells[i - 1] BY ContentsAre
<1>3. l.count > 0 BY <1>1 DEF Members
<1>4. PICK k : k \in 1..Len(s) /\ s[k] = x /\ r = CloseCell(l, k - 1)
  <2>1. CASE l.cells[l.count - 1] = x
    <3>1. l.count \in 1..Len(s) /\ s[l.count] = x BY <1>1, <1>2, <1>3, <2>1
    <3> QED BY <2>1, <3>1 DEF ListDelete
  <2>2. CASE l.cells[l.count - 1] # x
    <3>1. PICK k : k = ListIndexOf(l, x) OBVIOUS
    <3>2. First(s, x, k) BY <3>1, IndexOfIsFirst
    <3>3. \E i \in 1..Len(s) : s[i] = x BY <1>1 DEF Members
    <3>4. k \in 0..(Len(s) - 1) /\ s[k + 1] = x BY <3>2, <3>3 DEF First
    <3>5. r = CloseCell(l, k) BY <1>1, <2>2, <3>1, <3>4 DEF ListRemove, ListDelete
    <3>6. PICK m : m = k + 1 OBVIOUS
    <3>7. m \in 1..Len(s) /\ s[m] = x /\ m - 1 = k BY <1>1, <3>4, <3>6
    <3> QED BY <3>5, <3>7
  <2> QED BY <2>1, <2>2
<1>5. k - 1 \in 0..(l.count - 1) /\ (k - 1) + 1 = k BY <1>1, <1>4
<1>6. r \in Block /\ r.count = l.count - 1 /\ Contents(r) = RemoveAt(s, k) BY <1>4, <1>5, DeleteRemoves
<1>7. NoDuplicates(RemoveAt(s, k)) /\ Members(RemoveAt(s, k)) = Members(s) \ {s[k]} BY <1>1, <1>4, RemovedMember
<1> QED BY <1>4, <1>6, <1>7

LEMMA RemoveMemberTidies ==
  ASSUME NEW w, Tidy(w), NEW g, g \in Groups, NEW o, o \in DOMAIN w.items, w.items[o].group = g,
         NEW v, v = RemoveMember(w, g, o)
  PROVE  Tidy(v) /\ Moved(w.items, v.items, o, NoGroup) /\ v.members[g].count = w.members[g].count - 1
<1>1. /\ w = [members |-> w.members, nextId |-> w.nextId, items |-> w.items]
      /\ w.members \in [Groups -> Block] /\ w.nextId \in [Groups -> Nat]
      /\ w.items \in [DOMAIN w.items -> Cards] /\ DOMAIN w.items \subseteq Handles
  BY WorldIs DEF Tidy
<1>2. PICK f, D : f = w.items /\ D = DOMAIN f OBVIOUS
<1>3. PICK k : k = w.members[g] OBVIOUS
<1>4. PICK l : l = IF k.cells[k.count - 1] = o THEN ListDelete(k, k.count - 1) ELSE ListRemove(k, o) OBVIOUS
<1>5. PICK m : m = [w.members EXCEPT ![g] = l] OBVIOUS
<1>6. PICK x : x = [f[o] EXCEPT !.group = NoGroup] OBVIOUS
<1>7. PICK h : h = [f EXCEPT ![o] = x] OBVIOUS
<1>8. v = [members |-> m, nextId |-> w.nextId, items |-> h]
  <2>1. /\ v = [members |-> v.members, nextId |-> v.nextId, items |-> v.items]
        /\ v.members = m /\ v.nextId = w.nextId /\ v.items = h
    BY <1>1, <1>2, <1>3, <1>4, <1>5, <1>6, <1>7 DEF RemoveMember
  <2> QED BY <2>1
<1>9. f[o] \in Cards /\ f[o] = [group |-> f[o].group, id |-> f[o].id, key |-> f[o].key, work |-> f[o].work]
  BY <1>1, <1>2, CardIs
<1>10. /\ x = [group |-> x.group, id |-> x.id, key |-> x.key, work |-> x.work]
       /\ x.group = NoGroup /\ x.id = f[o].id /\ x.key = f[o].key /\ x.work = f[o].work
  BY <1>6, <1>9
<1>11. x \in Cards
  <2>1. f[o].key \in Keys \cup {Nil} /\ f[o].work \in Block /\ f[o].id \in Nat BY <1>9, CardIs
  <2> QED BY <1>10, <2>1, CardIs
<1>12. /\ h \in [D -> Cards] /\ h[o] = x /\ \A p \in D : p # o => h[p] = f[p]
       /\ DOMAIN h = D /\ o \in D /\ D \subseteq Handles
  BY <1>1, <1>2, <1>7, <1>11
<1>13. PICK s : s = Contents(k) OBVIOUS
<1>14. k \in Block /\ NoDuplicates(s) /\ \A p : p \in Members(s) <=> p \in D /\ f[p].group = g
  BY <1>1, <1>2, <1>3, <1>13 DEF Tidy, Holds
<1>15. l \in Block /\ l.count = k.count - 1 /\ NoDuplicates(Contents(l)) /\ Members(Contents(l)) = Members(s) \ {o}
  <2>1. o \in Members(s) BY <1>2, <1>12, <1>14
  <2> QED BY <1>4, <1>13, <1>14, <2>1, TakenOut
<1>16. m \in [Groups -> Block] /\ m[g] = l /\ \A e \in Groups : e # g => m[e] = w.members[e] BY <1>1, <1>5, <1>15
<1>17. v \in Worlds /\ v.members = m /\ v.nextId = w.nextId /\ v.items = h BY <1>1, <1>8, <1>12, <1>16, WorldMade
<1>18. ASSUME NEW e, e \in Groups PROVE Holds(v, e)
  <2>1. CASE e = g
    <3>1. \A p : p \in Members(Contents(l)) <=> p \in D /\ h[p].group = e
      BY <1>10, <1>12, <1>14, <1>15, <2>1, CollAssumption
    <3> QED BY <1>12, <1>15, <1>16, <1>17, <2>1, <3>1 DEF Holds
  <2>2. CASE e # g
    <3>1. PICK t : t = Contents(w.members[e]) OBVIOUS
    <3>2. NoDuplicates(t) /\ \A p : p \in Members(t) <=> p \in D /\ f[p].group = e
      BY <1>2, <1>18, <3>1 DEF Tidy, Holds
    <3>3. \A p : p \in Members(t) <=> p \in D /\ h[p].group = e
      BY <1>2, <1>10, <1>12, <1>18, <2>2, <3>2, CollAssumption
    <3>4. Contents(v.members[e]) = t BY <1>16, <1>17, <1>18, <2>2, <3>1
    <3> QED BY <1>12, <1>17, <3>2, <3>3, <3>4 DEF Holds
  <2> QED BY <2>1, <2>2
<1>19. Numbered(v)
  <2>1. \A p, q \in D : f[p].group \in Groups => /\ f[p].id < w.nextId[f[p].group]
                                                 /\ f[q].group = f[p].group /\ f[q].id = f[p].id => q = p
    BY <1>2 DEF Tidy, Numbered
  <2>2. ASSUME NEW p, p \in D, NEW q, q \in D, h[p].group \in Groups
        PROVE  /\ h[p].id < w.nextId[h[p].group]
               /\ h[q].group = h[p].group /\ h[q].id = h[p].id => q = p
    <3>1. p # o /\ h[p] = f[p] BY <1>10, <1>12, <2>2, CollAssumption
    <3>2. h[q].group = h[p].group => h[q] = f[q] BY <1>10, <1>12, <2>2, CollAssumption
    <3> QED BY <2>1, <2>2, <3>1, <3>2
  <2> QED BY <1>12, <1>17, <2>2 DEF Numbered
<1> QED BY <1>2, <1>3, <1>10, <1>12, <1>15, <1>16, <1>17, <1>18, <1>19 DEF Tidy, Moved

\* CCollectionItem::SetCollection
LEMMA SetCollectionTidies ==
  ASSUME NEW w, Tidy(w), NEW g, g \in Groups \cup {NoGroup}, NEW o, o \in DOMAIN w.items,
         NEW v, v = SetCollection(w, o, g)
  PROVE  /\ Tidy(v) /\ Moved(w.items, v.items, o, g)
         /\ g = NoGroup /\ w.items[o].group \in Groups
              => v.members[w.items[o].group].count = w.members[w.items[o].group].count - 1
<1>1. PICK from : from = w.items[o].group OBVIOUS
<1>2. from \in Groups \cup {NoGroup}
  <2>1. w.items \in [DOMAIN w.items -> Cards] BY WorldIs DEF Tidy
  <2> QED BY <1>1, <2>1, CardIs
<1>3. PICK u : u = IF from # g /\ from # NoGroup THEN RemoveMember(w, from, o) ELSE w OBVIOUS
<1>4. v = IF from # g /\ g # NoGroup THEN InsertMember(u, g, o) ELSE u BY <1>1, <1>3 DEF SetCollection
<1>5. CASE from = g
  <2>1. v = w BY <1>3, <1>4, <1>5
  <2>2. Moved(w.items, w.items, o, g) BY <1>1, <1>5 DEF Moved
  <2> QED BY <1>1, <1>5, <2>1, <2>2, CollAssumption
<1>6. CASE from # g
  <2>1. /\ Tidy(u) /\ Moved(w.items, u.items, o, NoGroup)
        /\ from \in Groups => u.members[from].count = w.members[from].count - 1
    <3>1. CASE from = NoGroup
      <4>1. u = w BY <1>3, <3>1
      <4>2. Moved(w.items, w.items, o, NoGroup) BY <1>1, <3>1 DEF Moved
      <4> QED BY <3>1, <4>1, <4>2, CollAssumption
    <3>2. CASE from # NoGroup
      <4>1. u = RemoveMember(w, from, o) /\ from \in Groups BY <1>2, <1>3, <1>6, <3>2
      <4> QED BY <1>1, <4>1, RemoveMemberTidies
    <3> QED BY <3>1, <3>2
  <2>2. CASE g = NoGroup
    <3>1. v = u BY <1>4, <2>2
    <3> QED BY <1>1, <2>1, <2>2, <3>1
  <2>3. CASE g # NoGroup
    <3>1. v = InsertMember(u, g, o) /\ g \in Groups BY <1>4, <1>6, <2>3
    <3>2. o \in DOMAIN u.items /\ u.items[o].group = NoGroup BY <2>1 DEF Moved
    <3>3. Tidy(v) /\ Moved(u.items, v.items, o, g) BY <2>1, <3>1, <3>2, InsertMemberTidies
    <3>4. Moved(w.items, v.items, o, g) BY <2>1, <3>3 DEF Moved
    <3> QED BY <2>3, <3>3, <3>4
  <2> QED BY <2>2, <2>3
<1> QED BY <1>5, <1>6

\* h is f with one item more, or with one item less.
Born(f, h, o, g, key) ==
  /\ o \notin DOMAIN f /\ DOMAIN h = DOMAIN f \cup {o} /\ \A p \in DOMAIN f : h[p] = f[p]
  /\ h[o].group = g /\ h[o].key = key /\ h[o].work = NewList
Gone(f, h, o) == DOMAIN h = DOMAIN f \ {o} /\ \A p \in DOMAIN h : h[p] = f[p]

LEMMA CardMade ==
  ASSUME NEW g, g \in Groups \cup {NoGroup}, NEW n, n \in Nat, NEW k, k \in Keys \cup {Nil}, NEW b, b \in Block,
         NEW x, x = [group |-> g, id |-> n, key |-> k, work |-> b]
  PROVE  x \in Cards /\ x.group = g /\ x.id = n /\ x.key = k /\ x.work = b
<1>1. x.group = g /\ x.id = n /\ x.key = k /\ x.work = b OBVIOUS
<1>2. x = [group |-> x.group, id |-> x.id, key |-> x.key, work |-> x.work] OBVIOUS
<1> QED BY <1>1, <1>2, CardIs

\* CCollectionItem::CCollectionItem
LEMMA NewItemTidies ==
  ASSUME NEW w, Tidy(w), DOMAIN w.items # Handles, NEW g, g \in Groups, NEW key, key \in Keys \cup {Nil},
         NEW v, v = NewItem(w, g, key)
  PROVE  Tidy(v) /\ \E o : Born(w.items, v.items, o, g, key)
<1>1. /\ w = [members |-> w.members, nextId |-> w.nextId, items |-> w.items]
      /\ w.members \in [Groups -> Block] /\ w.nextId \in [Groups -> Nat]
      /\ w.items \in [DOMAIN w.items -> Cards] /\ DOMAIN w.items \subseteq Handles
  BY WorldIs DEF Tidy
<1>2. PICK f, D : f = w.items /\ D = DOMAIN f OBVIOUS
<1>3. PICK o : o = FreshItem(w) /\ o \in Handles \ D
  <2>1. PICK I : I = Handles \ D OBVIOUS
  <2>2. I \subseteq Nat /\ I # {} BY <1>1, <1>2, <2>1, CollAssumption
  <2>3. Min(I) \in I BY <2>2, LeastIndex
  <2> QED BY <1>2, <2>1, <2>3 DEF FreshItem
<1>4. PICK x : x = [group |-> NoGroup, id |-> 0, key |-> key, work |-> NewList] OBVIOUS
<1>5. x \in Cards /\ x.group = NoGroup /\ x.key = key /\ x.work = NewList
  <2>1. PICK b : b = NewList /\ b \in Block BY NewListIsBlock
  <2>2. PICK n : n = 0 /\ n \in Nat OBVIOUS
  <2>3. x = [group |-> NoGroup, id |-> n, key |-> key, work |-> b] BY <1>4, <2>1, <2>2
  <2>4. NoGroup \in Groups \cup {NoGroup} /\ key \in Keys \cup {Nil} OBVIOUS
  <2>5. x \in Cards /\ x.group = NoGroup /\ x.key = key /\ x.work = b BY ONLY <2>1, <2>2, <2>3, <2>4, CardMade
  <2> QED BY <2>1, <2>5
<1>6. PICK h : h = [p \in D \cup {o} |-> IF p # o THEN f[p] ELSE x] OBVIOUS
<1>7. PICK E : E = D \cup {o} OBVIOUS
<1>8. h \in [E -> Cards] /\ DOMAIN h = E /\ h[o] = x /\ E \subseteq Handles /\ \A p \in D : h[p] = f[p]
  BY <1>1, <1>2, <1>3, <1>5, <1>6, <1>7
<1>9. PICK u : u = [w EXCEPT !.items = [p \in DOMAIN @ \cup {o} |-> IF p # o THEN @[p] ELSE
                      [group |-> NoGroup, id |-> 0, key |-> key, work |-> NewList]]] OBVIOUS
<1>10. u = [members |-> w.members, nextId |-> w.nextId, items |-> h]
  <2>1. /\ u = [members |-> u.members, nextId |-> u.nextId, items |-> u.items]
        /\ u.members = w.members /\ u.nextId = w.nextId /\ u.items = h
    BY <1>1, <1>2, <1>4, <1>6, <1>9
  <2> QED BY <2>1
<1>11. u \in Worlds /\ u.members = w.members /\ u.nextId = w.nextId /\ u.items = h BY <1>1, <1>8, <1>10, WorldMade
<1>12. v = SetCollection(u, o, g) BY <1>3, <1>9 DEF NewItem
<1>13. ASSUME NEW e, e \in Groups PROVE Holds(u, e)
  <2>1. PICK s : s = Contents(w.members[e]) OBVIOUS
  <2>2. NoDuplicates(s) /\ \A p : p \in Members(s) <=> p \in D /\ f[p].group = e
    BY <1>2, <1>13, <2>1 DEF Tidy, Holds
  <2>3. \A p : p \in Members(s) <=> p \in E /\ h[p].group = e BY <1>3, <1>5, <1>7, <1>8, <1>13, <2>2, CollAssumption
  <2> QED BY <1>8, <1>11, <2>1, <2>2, <2>3 DEF Holds
<1>14. Numbered(u)
  <2>1. \A p, q \in D : f[p].group \in Groups => /\ f[p].id < w.nextId[f[p].group]
                                                 /\ f[q].group = f[p].group /\ f[q].id = f[p].id => q = p
    BY <1>2 DEF Tidy, Numbered
  <2>2. ASSUME NEW p, p \in E, NEW q, q \in E, h[p].group \in Groups
        PROVE  /\ h[p].id < w.nextId[h[p].group]
               /\ h[q].group = h[p].group /\ h[q].id = h[p].id => q = p
    <3>1. p \in D /\ h[p] = f[p] BY <1>5, <1>7, <1>8, <2>2, CollAssumption
    <3>2. h[q].group = h[p].group => q \in D /\ h[q] = f[q] BY <1>5, <1>7, <1>8, <2>2, CollAssumption
    <3> QED BY <2>1, <2>2, <3>1, <3>2
  <2> QED BY <1>8, <1>11, <2>2 DEF Numbered
<1>15. Tidy(u) BY <1>11, <1>13, <1>14 DEF Tidy
<1>16. Tidy(v) /\ Moved(u.items, v.items, o, g)
  <2>1. o \in DOMAIN u.items /\ g \in Groups \cup {NoGroup} BY <1>7, <1>8, <1>11
  <2> QED BY <1>12, <1>15, <2>1, SetCollectionTidies
<1>17. Born(f, v.items, o, g, key)
  <2>1. DOMAIN v.items = E /\ \A p \in E : p # o => v.items[p] = h[p] BY <1>8, <1>11, <1>16 DEF Moved
  <2>2. v.items[o].group = g /\ v.items[o].key = key /\ v.items[o].work = NewList BY <1>5, <1>8, <1>11, <1>16 DEF Moved
  <2>3. \A p \in D : v.items[p] = f[p] BY <1>3, <1>7, <1>8, <2>1
  <2> QED BY <1>2, <1>3, <1>7, <2>1, <2>2, <2>3 DEF Born
<1> QED BY <1>2, <1>16, <1>17

\* CCollectionItem::~CCollectionItem
LEMMA DeleteItemTidies ==
  ASSUME NEW w, Tidy(w), NEW o, o \in DOMAIN w.items, NEW v, v = DeleteItem(w, o)
  PROVE  /\ Tidy(v) /\ Gone(w.items, v.items, o)
         /\ w.items[o].group \in Groups => v.members[w.items[o].group].count = w.members[w.items[o].group].count - 1
<1>1. PICK u : u = SetCollection(w, o, NoGroup) OBVIOUS
<1>2. /\ Tidy(u) /\ Moved(w.items, u.items, o, NoGroup)
      /\ w.items[o].group \in Groups => u.members[w.items[o].group].count = w.members[w.items[o].group].count - 1
  <2>1. NoGroup \in Groups \cup {NoGroup} OBVIOUS
  <2> QED BY <1>1, <2>1, SetCollectionTidies
<1>3. /\ u = [members |-> u.members, nextId |-> u.nextId, items |-> u.items]
      /\ u.members \in [Groups -> Block] /\ u.nextId \in [Groups -> Nat]
      /\ u.items \in [DOMAIN u.items -> Cards] /\ DOMAIN u.items \subseteq Handles
  BY <1>2, WorldIs DEF Tidy
<1>4. PICK f, D : f = u.items /\ D = DOMAIN f OBVIOUS
<1>5. PICK h, E : E = D \ {o} /\ h = [p \in E |-> f[p]] OBVIOUS
<1>6. v = [u EXCEPT !.items = [p \in DOMAIN @ \ {o} |-> @[p]]] BY <1>1 DEF DeleteItem
<1>7. v = [members |-> u.members, nextId |-> u.nextId, items |-> h]
  <2>1. /\ v = [members |-> v.members, nextId |-> v.nextId, items |-> v.items]
        /\ v.members = u.members /\ v.nextId = u.nextId /\ v.items = h
    BY <1>3, <1>4, <1>5, <1>6
  <2> QED BY <2>1
<1>8. h \in [E -> Cards] /\ DOMAIN h = E /\ E \subseteq Handles /\ \A p \in E : h[p] = f[p] BY <1>3, <1>4, <1>5
<1>9. v \in Worlds /\ v.members = u.members /\ v.nextId = u.nextId /\ v.items = h BY <1>3, <1>7, <1>8, WorldMade
<1>10. f[o].group = NoGroup BY <1>2, <1>4 DEF Moved
<1>11. ASSUME NEW e, e \in Groups PROVE Holds(v, e)
  <2>1. PICK s : s = Contents(u.members[e]) OBVIOUS
  <2>2. NoDuplicates(s) /\ \A p : p \in Members(s) <=> p \in D /\ f[p].group = e
    BY <1>2, <1>4, <1>11, <2>1 DEF Tidy, Holds
  <2>3. \A p : p \in Members(s) <=> p \in E /\ h[p].group = e BY <1>5, <1>8, <1>10, <1>11, <2>2, CollAssumption
  <2> QED BY <1>8, <1>9, <2>1, <2>2, <2>3 DEF Holds
<1>12. Numbered(v)
  <2>1. \A p, q \in D : f[p].group \in Groups => /\ f[p].id < u.nextId[f[p].group]
                                                 /\ f[q].group = f[p].group /\ f[q].id = f[p].id => q = p
    BY <1>2, <1>4 DEF Tidy, Numbered
  <2>2. \A p \in E : p \in D BY <1>5
  <2> QED BY <1>8, <1>9, <2>1, <2>2 DEF Numbered
<1>13. Gone(w.items, h, o)
  <2>1. \A p \in E : f[p] = w.items[p] /\ p \in DOMAIN w.items BY <1>2, <1>4, <1>5 DEF Moved
  <2>2. E = DOMAIN w.items \ {o} BY <1>2, <1>4, <1>5 DEF Moved
  <2> QED BY <1>8, <2>1, <2>2 DEF Gone
<1> QED BY <1>2, <1>9, <1>11, <1>12, <1>13 DEF Tidy

\* r has one item more than s, which is new there.
PutIn(S, s, k, x, r) ==
  /\ s \in Seq(S) /\ k \in 1..(Len(s) + 1) /\ x \in S /\ r \in Seq(S) /\ Inserted(r, s, k, x)
  /\ NoDuplicates(s) /\ x \notin Members(s)

LEMMA InsertedMember ==
  ASSUME NEW S, NEW s, NEW k, NEW x, NEW r, PutIn(S, s, k, x, r)
  PROVE  NoDuplicates(r) /\ Members(r) = Members(s) \cup {x}
<1>0. /\ s \in Seq(S) /\ k \in 1..(Len(s) + 1) /\ x \in S /\ r \in Seq(S) /\ Inserted(r, s, k, x)
      /\ NoDuplicates(s) /\ x \notin Members(s)
  BY DEF PutIn
<1>1. PICK n \in Nat : n = Len(s) BY <1>0
<1>2. DOMAIN s = 1..n /\ DOMAIN r = 1..(n + 1) /\ \A i \in 1..(n + 1) : r[i] = IF i < k THEN s[i] ELSE IF i = k THEN x ELSE s[i - 1]
  BY <1>0, <1>1 DEF Inserted
<1>3. k \in Int BY <1>0, <1>1
<1>4. PICK back : back = [i \in 1..(n + 1) |-> IF i < k THEN i ELSE i - 1] OBVIOUS
<1>5. \A i \in 1..(n + 1) : i # k => back[i] \in 1..n /\ r[i] = s[back[i]]
  <2> TAKE i \in 1..(n + 1)
  <2>1. CASE i < k
    <3>1. back[i] = i /\ r[i] = s[i] BY <1>2, <1>4, <2>1
    <3>2. i \in 1..n BY <1>0, <1>1, <1>3, <2>1
    <3> QED BY <3>1, <3>2
  <2>2. CASE ~(i < k)
    <3>1. i # k => back[i] = i - 1 /\ r[i] = s[i - 1] BY <1>2, <1>4, <2>2
    <3>2. i # k => i - 1 \in 1..n BY <1>0, <1>1, <1>3, <2>2
    <3> QED BY <3>1, <3>2
  <2> QED BY <2>1, <2>2
<1>6. \A i, j \in 1..(n + 1) : i # k /\ j # k /\ back[i] = back[j] => i = j BY <1>1, <1>3, <1>4
<1>7. r[k] = x /\ k \in 1..(n + 1) BY <1>0, <1>1, <1>2, <1>3
<1>8. \A i \in 1..n : s[i] # x BY <1>0, <1>2 DEF Members
<1>9. \A j \in 1..n : \E i \in 1..(n + 1) : r[i] = s[j]
  <2> TAKE j \in 1..n
  <2>1. CASE j < k BY <1>1, <1>2, <1>3, <2>1
  <2>2. CASE ~(j < k)
    <3>1. PICK i : i = j + 1 OBVIOUS
    <3>2. i \in 1..(n + 1) /\ ~(i < k) /\ i # k /\ i - 1 = j BY <1>1, <1>3, <2>2, <3>1
    <3>3. r[i] = s[j] BY <1>2, <3>2
    <3> QED BY <3>2, <3>3
  <2> QED BY <2>1, <2>2
<1>10. NoDuplicates(r)
  <2>1. \A i, j \in 1..n : s[i] = s[j] => i = j BY <1>0, <1>2 DEF NoDuplicates
  <2>2. ASSUME NEW i, i \in 1..(n + 1), NEW j, j \in 1..(n + 1), r[i] = r[j] PROVE i = j
    <3>1. CASE i = k BY <1>5, <1>7, <1>8, <2>2, <3>1
    <3>2. CASE j = k BY <1>5, <1>7, <1>8, <2>2, <3>2
    <3>3. CASE i # k /\ j # k
      <4>1. back[i] = back[j] BY <1>5, <2>1, <2>2, <3>3
      <4> QED BY <1>6, <2>2, <3>3, <4>1
    <3> QED BY <3>1, <3>2, <3>3
  <2> QED BY <1>2, <2>2 DEF NoDuplicates
<1>11. \A y : y \in Members(r) <=> y \in Members(s) \/ y = x
  <2>1. ASSUME NEW i, i \in 1..(n + 1) PROVE r[i] = x \/ \E j \in 1..n : s[j] = r[i] BY <1>5, <1>7, <2>1
  <2>2. \A y : y \in Members(r) => y \in Members(s) \/ y = x BY <1>2, <2>1 DEF Members
  <2>3. x \in Members(r) BY <1>2, <1>7 DEF Members
  <2>4. ASSUME NEW y, y \in Members(s) PROVE y \in Members(r)
    <3>1. PICK j : j \in 1..n /\ y = s[j] BY <1>2, <2>4 DEF Members
    <3>2. PICK i : i \in 1..(n + 1) /\ r[i] = y BY <1>9, <3>1
    <3> QED BY <1>2, <3>2 DEF Members
  <2> QED BY <2>2, <2>3, <2>4
<1> QED BY <1>10, <1>11

\* CCollectionItem::SetIndex
LEMMA SetIndexTidies ==
  ASSUME NEW w, Tidy(w), NEW o, o \in DOMAIN w.items, w.items[o].group \in Groups,
         NEW i, i \in 0..(w.members[w.items[o].group].count - 1), NEW v, v = SetIndex(w, o, i)
  PROVE  Tidy(v) /\ v.items = w.items
<1>1. /\ w = [members |-> w.members, nextId |-> w.nextId, items |-> w.items]
      /\ w.members \in [Groups -> Block] /\ w.nextId \in [Groups -> Nat]
      /\ w.items \in [DOMAIN w.items -> Cards] /\ DOMAIN w.items \subseteq Handles
  BY WorldIs DEF Tidy
<1>2. PICK g : g = w.items[o].group /\ g \in Groups OBVIOUS
<1>3. PICK l, s : l = w.members[g] /\ s = Contents(l) OBVIOUS
<1>4. l \in Block /\ NoDuplicates(s) /\ s \in Seq(Int) /\ Len(s) = l.count /\ l.count \in Nat
  <2>1. l \in Block BY <1>1, <1>2, <1>3
  <2> QED BY <1>2, <1>3, <2>1, ContentsAre DEF Tidy, Holds
<1>5. PICK k : k = IndexOfItem(w, o) OBVIOUS
<1>6. k = ListIndexOf(l, o) /\ o \in Members(s)
  <2>1. g # NoGroup BY <1>2, CollAssumption
  <2> QED BY <1>2, <1>3, <1>5, <2>1 DEF IndexOfItem, Tidy, Holds
<1>7. k \in 0..(l.count - 1) /\ s[k + 1] = o
  <2>1. First(s, o, k) BY <1>3, <1>4, <1>6, IndexOfIsFirst
  <2>2. \E j \in 1..Len(s) : s[j] = o BY <1>4, <1>6 DEF Members
  <2> QED BY <1>4, <2>1, <2>2 DEF First
<1>8. CASE k = i
  <2>1. v = w BY <1>5, <1>8 DEF SetIndex
  <2> QED BY <2>1
<1>9. CASE k # i
  <2>0. k \notin {-1, i} BY <1>4, <1>7, <1>9
  <2>1. PICK x : x = ListMove(l, k, i) OBVIOUS
  <2>2. PICK m : m = [w.members EXCEPT ![g] = x] OBVIOUS
  <2>3. v = [members |-> m, nextId |-> w.nextId, items |-> w.items]
    <3>1. v = [w EXCEPT !.members[g] = ListMove(@, k, i)] BY <1>2, <1>5, <2>0 DEF SetIndex
    <3>2. /\ v = [members |-> v.members, nextId |-> v.nextId, items |-> v.items]
          /\ v.members = m /\ v.nextId = w.nextId /\ v.items = w.items
      BY <1>1, <1>3, <2>1, <2>2, <3>1
    <3> QED BY <3>2
  <2>4. x \in Block /\ Contents(x) = InsertAt(RemoveAt(s, k + 1), i + 1, o)
    <3>1. i \in 0..(l.count - 1) BY <1>2, <1>3
    <3> QED BY <1>3, <1>4, <1>7, <2>1, <3>1, MoveMoves
  <2>5. NoDuplicates(Contents(x)) /\ Members(Contents(x)) = Members(s)
    <3>1. PICK r, n : r = RemoveAt(s, k + 1) /\ n = k + 1 OBVIOUS
    <3>2. PICK t, j : t = InsertAt(r, j, o) /\ j = i + 1 OBVIOUS
    <3>3. n \in 1..Len(s) /\ s[n] = o /\ r = RemoveAt(s, n) BY <1>4, <1>7, <3>1
    <3>4. r \in Seq(Int) /\ Len(r) = Len(s) - 1 BY <1>4, <3>3, RemoveAtIndex
    <3>5. NoDuplicates(r) /\ Members(r) = Members(s) \ {o} BY <1>4, <3>3, RemovedMember
    <3>6. j \in 1..(Len(r) + 1) BY <1>2, <1>3, <1>4, <3>2, <3>4
    <3>7. o \in Int
      <4>1. s[n] \in Int BY <1>4, <3>3
      <4> QED BY <3>3, <4>1
    <3>8. t \in Seq(Int) /\ Inserted(t, r, j, o) BY <3>2, <3>4, <3>6, <3>7, InsertIs
    <3>9. o \notin Members(r) BY <3>5
    <3>10. PICK S : S = Int OBVIOUS
    <3>11. r \in Seq(S) /\ t \in Seq(S) /\ o \in S BY <3>4, <3>7, <3>8, <3>10
    <3>12. PutIn(S, r, j, o, t) BY <3>5, <3>6, <3>8, <3>9, <3>11 DEF PutIn
    <3>13. NoDuplicates(t) /\ Members(t) = Members(r) \cup {o} BY ONLY <3>12, InsertedMember
    <3> QED BY <1>6, <2>4, <3>1, <3>2, <3>5, <3>13
  <2>6. m \in [Groups -> Block] /\ m[g] = x /\ \A e \in Groups : e # g => m[e] = w.members[e] BY <1>1, <1>2, <2>2, <2>4
  <2>7. v \in Worlds /\ v.members = m /\ v.nextId = w.nextId /\ v.items = w.items BY <1>1, <2>3, <2>6, WorldMade
  <2>8. ASSUME NEW e, e \in Groups PROVE Holds(v, e)
    <3>1. Holds(w, e) BY <2>8 DEF Tidy
    <3>2. NoDuplicates(Contents(m[e])) /\ Members(Contents(m[e])) = Members(Contents(w.members[e]))
      <4>1. CASE e = g BY <1>3, <1>4, <2>5, <2>6, <4>1
      <4>2. CASE e # g BY <2>6, <2>8, <3>1, <4>2 DEF Holds
      <4> QED BY <4>1, <4>2
    <3> QED BY <2>7, <3>1, <3>2 DEF Holds
  <2>9. Numbered(v)
    <3>1. Numbered(w) BY DEF Tidy
    <3> QED BY <2>7, <3>1 DEF Numbered
  <2> QED BY <2>7, <2>8, <2>9 DEF Tidy
<1> QED BY <1>8, <1>9

\* The cells of a collection are its items.
LEMMA CellsAre ==
  ASSUME NEW w, Tidy(w), NEW g, g \in Groups, NEW l, l = w.members[g]
  PROVE  /\ l \in Block /\ l.count \in Nat
         /\ \A i \in 0..(l.count - 1) : l.cells[i] \in DOMAIN w.items /\ w.items[l.cells[i]].group = g
         /\ \A o \in DOMAIN w.items : w.items[o].group = g => \E i \in 0..(l.count - 1) : l.cells[i] = o
<1>1. l \in Block
  <2>1. w.members \in [Groups -> Block] BY WorldIs DEF Tidy
  <2> QED BY <2>1
<1>2. PICK s : s = Contents(l) OBVIOUS
<1>3. \A o : o \in Members(s) <=> o \in DOMAIN w.items /\ w.items[o].group = g BY <1>2 DEF Tidy, Holds
<1>4. s \in Seq(Int) /\ Len(s) = l.count /\ l.count \in Nat /\ \A i \in 1..l.count : s[i] = l.cells[i - 1]
  BY <1>1, <1>2, ContentsAre
<1>5. ASSUME NEW i, i \in 0..(l.count - 1) PROVE l.cells[i] \in Members(s)
  <2>1. PICK j : j = i + 1 OBVIOUS
  <2>2. j \in 1..l.count /\ j - 1 = i BY <1>4, <1>5, <2>1
  <2>3. s[j] = l.cells[i] BY <1>4, <2>2
  <2> QED BY <1>4, <2>2, <2>3 DEF Members
<1>6. ASSUME NEW o, o \in Members(s) PROVE \E i \in 0..(l.count - 1) : l.cells[i] = o
  <2>1. PICK j : j \in 1..l.count /\ s[j] = o BY <1>4, <1>6 DEF Members
  <2>2. j - 1 \in 0..(l.count - 1) /\ l.cells[j - 1] = o BY <1>4, <2>1
  <2> QED BY <2>2
<1> QED BY <1>1, <1>3, <1>4, <1>5, <1>6

-----------------------------------------------------------------------------
\* CCollection::Clear, after n of its turns
Emptied(w, g, u, n) ==
  /\ Tidy(u) /\ u.members[g].count = w.members[g].count - n
  /\ DOMAIN u.items \subseteq DOMAIN w.items /\ \A p \in DOMAIN u.items : u.items[p] = w.items[p]
  /\ \A p \in DOMAIN w.items : w.items[p].group # g => p \in DOMAIN u.items
Cleared(f, h, g) == DOMAIN h = {o \in DOMAIN f : f[o].group # g} /\ \A p \in DOMAIN h : h[p] = f[p]
LastCell(u, g) == u.members[g].cells[u.members[g].count - 1]

LEMMA ClearTurn ==
  ASSUME NEW w, Tidy(w), NEW g, g \in Groups, NEW N, N = w.members[g].count, NEW n, n \in 1..N, NEW u, Emptied(w, g, u, n - 1)
  PROVE  Emptied(w, g, DeleteItem(u, LastCell(u, g)), n)
<1>1. N \in Nat BY CellsAre
<1>2. /\ Tidy(u) /\ u.members[g].count = N - (n - 1)
      /\ DOMAIN u.items \subseteq DOMAIN w.items /\ \A p \in DOMAIN u.items : u.items[p] = w.items[p]
      /\ \A p \in DOMAIN w.items : w.items[p].group # g => p \in DOMAIN u.items
  BY DEF Emptied
<1>3. PICK o : o = LastCell(u, g) OBVIOUS
<1>4. o \in DOMAIN u.items /\ u.items[o].group = g
  <2>1. PICK l : l = u.members[g] OBVIOUS
  <2>2. l.count - 1 \in 0..(l.count - 1) BY <1>1, <1>2, <2>1
  <2>3. \A i \in 0..(l.count - 1) : l.cells[i] \in DOMAIN u.items /\ u.items[l.cells[i]].group = g BY <1>2, <2>1, CellsAre
  <2> QED BY <1>3, <2>1, <2>2, <2>3 DEF LastCell
<1>5. PICK v : v = DeleteItem(u, o) OBVIOUS
<1>6. Tidy(v) /\ Gone(u.items, v.items, o) /\ v.members[g].count = u.members[g].count - 1
  BY <1>2, <1>4, <1>5, DeleteItemTidies
<1>7. v.members[g].count = N - n BY <1>1, <1>2, <1>6
<1>8. /\ DOMAIN v.items \subseteq DOMAIN w.items /\ \A p \in DOMAIN v.items : v.items[p] = w.items[p]
      /\ \A p \in DOMAIN w.items : w.items[p].group # g => p \in DOMAIN v.items
  BY <1>2, <1>4, <1>6 DEF Gone
<1> QED BY <1>3, <1>5, <1>6, <1>7, <1>8 DEF Emptied

LEMMA ClearGroupClears ==
  ASSUME NEW w, Tidy(w), NEW g, g \in Groups, NEW v, v = ClearGroup(w, g)
  PROVE  Tidy(v) /\ Cleared(w.items, v.items, g)
<1>1. PICK N \in Nat : N = w.members[g].count BY CellsAre
<1>2. PICK T : T = [n \in 0..N |-> {u \in Worlds : Emptied(w, g, u, n)}] OBVIOUS
<1>3. w \in T[0]
  <2>1. w \in Worlds /\ Emptied(w, g, w, 0) BY <1>1 DEF Emptied, Tidy
  <2> QED BY <1>2, <2>1
<1>4. ASSUME NEW n \in 1..N, NEW u \in T[n - 1] PROVE DeleteItem(u, LastCell(u, g)) \in T[n]
  <2>1. n - 1 \in 0..N /\ n \in 0..N OBVIOUS
  <2>2. Emptied(w, g, u, n - 1) BY <1>2, <2>1
  <2>3. PICK d : d = DeleteItem(u, LastCell(u, g)) OBVIOUS
  <2>4. Emptied(w, g, d, n)
    <3>1. n \in 1..N OBVIOUS
    <3> QED BY <1>1, <2>2, <2>3, <3>1, ClearTurn
  <2>5. d \in Worlds BY <2>4 DEF Emptied, Tidy
  <2> QED BY <1>2, <2>1, <2>3, <2>4, <2>5
<1>5. PICK step : step = [n \in 1..N |-> [u \in T[n - 1] |-> DeleteItem(u, LastCell(u, g))]] OBVIOUS
<1>6. \A n \in 1..N : \A u \in T[n - 1] : step[n][u] = DeleteItem(u, LastCell(u, g)) BY <1>5
<1>7. Typed(N, T, w, step) BY <1>3, <1>4, <1>6 DEF Typed
<1>8. PICK f : Loop(f, N, T, w, step) BY <1>7, LoopIs
<1>9. f = [n \in 0..N |-> IF n = 0 THEN w ELSE DeleteItem(f[n - 1], LastCell(f[n - 1], g))]
  <2>1. \A n \in 0..N : f[n] = IF n = 0 THEN w ELSE DeleteItem(f[n - 1], LastCell(f[n - 1], g))
    <3> TAKE n \in 0..N
    <3>2. n # 0 => n \in 1..N /\ n - 1 \in 0..N OBVIOUS
    <3>1. f[n] = IF n = 0 THEN w ELSE step[n][f[n - 1]] BY <1>8, <3>2 DEF Loop
    <3>3. n # 0 => f[n - 1] \in T[n - 1] BY <1>8, <3>2 DEF Loop
    <3> QED BY <1>6, <3>1, <3>2, <3>3
  <2>2. f = [n \in 0..N |-> f[n]] BY <1>8 DEF Loop
  <2> QED BY <2>1, <2>2
<1>10. PICK left : /\ left = [n \in 0..N |-> IF n = 0 THEN w ELSE DeleteItem(left[n - 1], LastCell(left[n - 1], g))]
                   /\ ClearGroup(w, g) = left[N]
  BY <1>1, <1>9, ZenonT(40) DEF ClearGroup, LastCell
<1>11. left[0] = w /\ \A n \in 1..N : left[n] = DeleteItem(left[n - 1], LastCell(left[n - 1], g)) BY <1>10
<1>12. \A n \in 0..N : left[n] \in T[n]
  <2>1. Keeps(left, N, T) BY <1>3, <1>4, <1>11 DEF Keeps
  <2> QED BY <2>1, KeepsAll
<1>13. Emptied(w, g, v, N)
  <2>1. v \in T[N] BY <1>10, <1>12
  <2> QED BY <1>2, <2>1
<1>14. Tidy(v) /\ v.members[g].count = 0 BY <1>1, <1>13 DEF Emptied
<1>15. \A o \in DOMAIN v.items : v.items[o].group # g
  <2>1. \A o \in DOMAIN v.items : v.items[o].group = g => \E i \in 0..(0 - 1) : v.members[g].cells[i] = o BY <1>14, CellsAre
  <2>2. 0..(0 - 1) = {} OBVIOUS
  <2> QED BY <2>1, <2>2
<1>16. Cleared(w.items, v.items, g) BY <1>13, <1>15 DEF Emptied, Cleared
<1> QED BY <1>14, <1>16

-----------------------------------------------------------------------------
\* CCollection::FindItemId
LEMMA FindItemIdFinds ==
  ASSUME NEW w, Tidy(w), NEW g, g \in Groups, NEW o, o \in DOMAIN w.items, w.items[o].group = g
  PROVE  FindItemId(w, g, w.items[o].id) = o
<1>1. PICK l, n : l = w.members[g] /\ n = l.count OBVIOUS
<1>2. /\ n \in Nat
      /\ \A i \in 0..(n - 1) : l.cells[i] \in DOMAIN w.items /\ w.items[l.cells[i]].group = g
      /\ \E i \in 0..(n - 1) : l.cells[i] = o
  BY <1>1, CellsAre
<1>3. PICK id : id = w.items[o].id OBVIOUS
<1>4. PICK P : P = [i \in 0..(n - 1) |-> w.items[l.cells[i]].id = id] OBVIOUS
<1>5. \A i \in 0..(n - 1) : P[i] = TRUE <=> w.items[l.cells[i]].id = id BY <1>4
<1>6. \E i \in 0..(n - 1) : P[i] = TRUE BY <1>2, <1>3, <1>5
<1>7. \E i \in 0..(n - 1) : P[i] = TRUE /\ \A j \in 0..(i - 1) : P[j] # TRUE BY <1>2, <1>6, LeastPlace
<1>8. \E i \in 0..(n - 1) : w.items[l.cells[i]].id = id /\ \A j \in 0..(i - 1) : w.items[l.cells[j]].id # id
  <2>1. \A i \in 0..(n - 1) : \A j \in 0..(i - 1) : j \in 0..(n - 1) BY <1>2
  <2> QED BY <1>5, <1>7, <2>1
<1>9. PICK k : k = CHOOSE i \in 0..(n - 1) : w.items[l.cells[i]].id = id /\ \A j \in 0..(i - 1) : w.items[l.cells[j]].id # id
  OBVIOUS
<1>10. k \in 0..(n - 1) /\ w.items[l.cells[k]].id = id BY <1>8, <1>9
<1>11. l.cells[k] = o
  <2>1. l.cells[k] \in DOMAIN w.items /\ w.items[l.cells[k]].group = g BY <1>2, <1>10
  <2> QED BY <1>3, <1>10, <2>1 DEF Tidy, Numbered
<1>12. \E i \in 0..(n - 1) : w.items[l.cells[i]].id = id BY <1>10
<1>13. FindItemId(w, g, id) = l.cells[k] BY <1>1, <1>9, <1>12 DEF FindItemId
<1> QED BY <1>3, <1>11, <1>13

-----------------------------------------------------------------------------
\* o is the item of queue k; the queue of each key holds s, and there is none when s is empty.
QueueHas(f, g, k, o) == o \in DOMAIN f /\ f[o].group = g /\ f[o].key = k
Queued(f, g, k, s) ==
  IF s = << >> THEN \A o : ~QueueHas(f, g, k, o)
  ELSE \E o : QueueHas(f, g, k, o) /\ Contents(f[o].work) = s /\ \A p : QueueHas(f, g, k, p) => p = o

\* CQueue::IndexOf
LEMMA QueueFound ==
  ASSUME NEW w, Tidy(w), NEW g, g \in Groups, NEW k, NEW o, QueueHas(w.items, g, k, o), \A p : QueueHas(w.items, g, k, p) => p = o
  PROVE  QueueIndexOf(w, g, k) # -1 /\ QueueItem(w, g, k) = o
<1>1. PICK l, n : l = w.members[g] /\ n = l.count OBVIOUS
<1>2. /\ n \in Nat
      /\ \A i \in 0..(n - 1) : l.cells[i] \in DOMAIN w.items /\ w.items[l.cells[i]].group = g
      /\ \E i \in 0..(n - 1) : l.cells[i] = o
  BY <1>1, CellsAre DEF QueueHas
<1>3. w.items[o].key = k BY DEF QueueHas
<1>4. PICK P : P = [i \in 0..(n - 1) |-> w.items[l.cells[i]].key = k] OBVIOUS
<1>5. \A i \in 0..(n - 1) : P[i] = TRUE <=> w.items[l.cells[i]].key = k BY <1>4
<1>6. \E i \in 0..(n - 1) : P[i] = TRUE BY <1>2, <1>3, <1>5
<1>7. \E i \in 0..(n - 1) : P[i] = TRUE /\ \A j \in 0..(i - 1) : P[j] # TRUE BY <1>2, <1>6, LeastPlace
<1>8. \E i \in 0..(n - 1) : w.items[l.cells[i]].key = k /\ \A j \in 0..(i - 1) : w.items[l.cells[j]].key # k
  <2>1. \A i \in 0..(n - 1) : \A j \in 0..(i - 1) : j \in 0..(n - 1) BY <1>2
  <2> QED BY <1>5, <1>7, <2>1
<1>9. PICK m : m = CHOOSE i \in 0..(n - 1) : w.items[l.cells[i]].key = k /\ \A j \in 0..(i - 1) : w.items[l.cells[j]].key # k
  OBVIOUS
<1>10. m \in 0..(n - 1) /\ w.items[l.cells[m]].key = k BY <1>8, <1>9
<1>11. l.cells[m] = o
  <2>1. QueueHas(w.items, g, k, l.cells[m]) BY <1>2, <1>10 DEF QueueHas
  <2> QED BY <2>1
<1>12. \E i \in 0..(n - 1) : w.items[l.cells[i]].key = k BY <1>10
<1>13. QueueIndexOf(w, g, k) = m BY <1>1, <1>9, <1>12 DEF QueueIndexOf
<1> QED BY <1>1, <1>2, <1>10, <1>11, <1>13 DEF QueueItem

LEMMA QueueMissing ==
  ASSUME NEW w, Tidy(w), NEW g, g \in Groups, NEW k, \A o : ~QueueHas(w.items, g, k, o)
  PROVE  QueueIndexOf(w, g, k) = -1
<1>1. PICK l : l = w.members[g] OBVIOUS
<1>2. \A i \in 0..(l.count - 1) : l.cells[i] \in DOMAIN w.items /\ w.items[l.cells[i]].group = g BY <1>1, CellsAre
<1>3. ~\E i \in 0..(l.count - 1) : w.items[l.cells[i]].key = k BY <1>2 DEF QueueHas
<1> QED BY <1>1, <1>3 DEF QueueIndexOf

\* The work that was asked for is what the queues hold.
Wanted == [Groups -> [Keys -> Seq(Int)]]
Queues(f, a) == \A g \in Groups, k \in Keys : Queued(f, g, k, a[g][k])

\* h has the queues f has, but for the queue of k in g.
Aside(f, h, g, k) ==
  \A e \in Groups, j \in Keys : e # g \/ j # k =>
    \A p : (QueueHas(f, e, j, p) <=> QueueHas(h, e, j, p)) /\ (QueueHas(f, e, j, p) => h[p].work = f[p].work)
Asking(a, g, k, s) == [a EXCEPT ![g][k] = s]

LEMMA QueuedSame ==
  ASSUME NEW f, NEW h, NEW g, NEW k, NEW s, Queued(f, g, k, s),
         \A p : (QueueHas(f, g, k, p) <=> QueueHas(h, g, k, p)) /\ (QueueHas(f, g, k, p) => h[p].work = f[p].work)
  PROVE  Queued(h, g, k, s)
<1>1. CASE s = << >> BY <1>1 DEF Queued
<1>2. CASE s # << >>
  <2>1. PICK o : QueueHas(f, g, k, o) /\ Contents(f[o].work) = s /\ \A p : QueueHas(f, g, k, p) => p = o
    BY <1>2 DEF Queued
  <2>2. QueueHas(h, g, k, o) /\ Contents(h[o].work) = s /\ \A p : QueueHas(h, g, k, p) => p = o BY <2>1
  <2> QED BY <1>2, <2>2 DEF Queued
<1> QED BY <1>1, <1>2

LEMMA AskingIs ==
  ASSUME NEW a, a \in Wanted, NEW g, g \in Groups, NEW k, k \in Keys, NEW s, s \in Seq(Int), NEW b, b = Asking(a, g, k, s)
  PROVE  b \in Wanted /\ b[g][k] = s /\ \A e \in Groups, j \in Keys : e # g \/ j # k => b[e][j] = a[e][j]
<1>1. PICK c : c = [a[g] EXCEPT ![k] = s] OBVIOUS
<1>2. b = [a EXCEPT ![g] = c] BY <1>1 DEF Asking
<1>3. a \in [Groups -> [Keys -> Seq(Int)]] BY DEF Wanted
<1>4. c \in [Keys -> Seq(Int)] /\ c[k] = s /\ \A j \in Keys : j # k => c[j] = a[g][j] BY <1>1, <1>3
<1>5. b \in [Groups -> [Keys -> Seq(Int)]] /\ b[g] = c /\ \A e \in Groups : e # g => b[e] = a[e] BY <1>2, <1>3, <1>4
<1> QED BY <1>4, <1>5 DEF Wanted

LEMMA AsideKeeps ==
  ASSUME NEW f, NEW h, NEW a, a \in Wanted, Queues(f, a), NEW g, g \in Groups, NEW k, k \in Keys, Aside(f, h, g, k),
         NEW s, s \in Seq(Int), Queued(h, g, k, s), NEW b, b = Asking(a, g, k, s)
  PROVE  b \in Wanted /\ Queues(h, b)
<1>1. b \in Wanted /\ b[g][k] = s /\ \A e \in Groups, j \in Keys : e # g \/ j # k => b[e][j] = a[e][j] BY AskingIs
<1>2. ASSUME NEW e, e \in Groups, NEW j, j \in Keys PROVE Queued(h, e, j, b[e][j])
  <2>1. CASE e = g /\ j = k BY <1>1, <2>1
  <2>2. CASE e # g \/ j # k
    <3>1. Queued(f, e, j, b[e][j]) BY <1>1, <1>2, <2>2 DEF Queues
    <3>2. \A p : (QueueHas(f, e, j, p) <=> QueueHas(h, e, j, p)) /\ (QueueHas(f, e, j, p) => h[p].work = f[p].work)
      BY <1>2, <2>2 DEF Aside
    <3> QED BY <3>1, <3>2, QueuedSame
  <2> QED BY <2>1, <2>2
<1> QED BY <1>1, <1>2 DEF Queues

\* Items that are not in the queues come, go and move as they will.
LEMMA PlainKeeps ==
  ASSUME NEW f, NEW h, NEW a, Queues(f, a), NEW o,
         \A e \in Groups, j \in Keys : ~QueueHas(f, e, j, o) /\ ~QueueHas(h, e, j, o),
         \A p : p # o => (p \in DOMAIN f <=> p \in DOMAIN h),
         \A p \in DOMAIN f : p # o => h[p] = f[p]
  PROVE  Queues(h, a)
<1>1. ASSUME NEW e, e \in Groups, NEW j, j \in Keys PROVE Queued(h, e, j, a[e][j])
  <2>1. Queued(f, e, j, a[e][j]) BY <1>1 DEF Queues
  <2>2. ASSUME NEW p PROVE (QueueHas(f, e, j, p) <=> QueueHas(h, e, j, p)) /\ (QueueHas(f, e, j, p) => h[p].work = f[p].work)
    <3>1. CASE p = o BY <1>1, <3>1
    <3>2. CASE p # o BY <3>2 DEF QueueHas
    <3> QED BY <3>1, <3>2
  <2> QED BY <2>1, <2>2, QueuedSame
<1> QED BY <1>1 DEF Queues

-----------------------------------------------------------------------------
\* The work of one item is another.
Reworked(f, h, o, b) ==
  /\ DOMAIN h = DOMAIN f /\ \A p \in DOMAIN f : p # o => h[p] = f[p]
  /\ h[o].group = f[o].group /\ h[o].key = f[o].key /\ h[o].work = b

LEMMA WorkChanges ==
  ASSUME NEW w, Tidy(w), NEW o, o \in DOMAIN w.items, NEW b, b \in Block, NEW v, v = [w EXCEPT !.items[o].work = b]
  PROVE  Tidy(v) /\ Reworked(w.items, v.items, o, b)
<1>1. /\ w = [members |-> w.members, nextId |-> w.nextId, items |-> w.items]
      /\ w.members \in [Groups -> Block] /\ w.nextId \in [Groups -> Nat]
      /\ w.items \in [DOMAIN w.items -> Cards] /\ DOMAIN w.items \subseteq Handles
  BY WorldIs DEF Tidy
<1>2. PICK f, D : f = w.items /\ D = DOMAIN f OBVIOUS
<1>3. PICK x : x = [f[o] EXCEPT !.work = b] OBVIOUS
<1>4. PICK h : h = [f EXCEPT ![o] = x] OBVIOUS
<1>5. v = [members |-> w.members, nextId |-> w.nextId, items |-> h]
  <2>1. /\ v = [members |-> v.members, nextId |-> v.nextId, items |-> v.items]
        /\ v.members = w.members /\ v.nextId = w.nextId /\ v.items = h
    BY <1>1, <1>2, <1>3, <1>4
  <2> QED BY <2>1
<1>6. f[o] \in Cards /\ f[o] = [group |-> f[o].group, id |-> f[o].id, key |-> f[o].key, work |-> f[o].work]
  BY <1>1, <1>2, CardIs
<1>7. /\ x = [group |-> x.group, id |-> x.id, key |-> x.key, work |-> x.work]
      /\ x.group = f[o].group /\ x.id = f[o].id /\ x.key = f[o].key /\ x.work = b
  BY <1>3, <1>6
<1>8. x \in Cards
  <2>1. f[o].group \in Groups \cup {NoGroup} /\ f[o].key \in Keys \cup {Nil} /\ f[o].id \in Nat BY <1>6, CardIs
  <2> QED BY <1>7, <2>1, CardIs
<1>9. /\ h \in [D -> Cards] /\ h[o] = x /\ \A p \in D : p # o => h[p] = f[p]
      /\ DOMAIN h = D /\ o \in D /\ D \subseteq Handles
  BY <1>1, <1>2, <1>4, <1>8
<1>10. v \in Worlds /\ v.members = w.members /\ v.nextId = w.nextId /\ v.items = h BY <1>1, <1>5, <1>9, WorldMade
<1>11. \A p \in D : h[p].group = f[p].group /\ h[p].id = f[p].id BY <1>7, <1>9
<1>12. ASSUME NEW e, e \in Groups PROVE Holds(v, e)
  <2>1. PICK s : s = Contents(w.members[e]) OBVIOUS
  <2>2. NoDuplicates(s) /\ \A p : p \in Members(s) <=> p \in D /\ f[p].group = e
    BY <1>2, <1>12, <2>1 DEF Tidy, Holds
  <2> QED BY <1>9, <1>10, <1>11, <2>1, <2>2 DEF Holds
<1>13. Numbered(v)
  <2>1. \A p, q \in D : f[p].group \in Groups => /\ f[p].id < w.nextId[f[p].group]
                                                 /\ f[q].group = f[p].group /\ f[q].id = f[p].id => q = p
    BY <1>2 DEF Tidy, Numbered
  <2>2. ASSUME NEW p, p \in D, NEW q, q \in D, h[p].group \in Groups
        PROVE  /\ h[p].id < w.nextId[h[p].group]
               /\ h[q].group = h[p].group /\ h[q].id = h[p].id => q = p
    <3>1. h[p].group = f[p].group /\ h[p].id = f[p].id /\ h[q].group = f[q].group /\ h[q].id = f[q].id BY <1>11, <2>2
    <3> QED BY <2>1, <2>2, <3>1
  <2>3. v.items = h /\ v.nextId = w.nextId /\ DOMAIN h = D BY <1>9, <1>10
  <2> QED BY ONLY <2>2, <2>3 DEF Numbered
<1> QED BY <1>2, <1>7, <1>9, <1>10, <1>12, <1>13 DEF Tidy, Reworked

-----------------------------------------------------------------------------
\* o is the only item of its queue.
Sole(f, g, k, o) == QueueHas(f, g, k, o) /\ \A p : QueueHas(f, g, k, p) => p = o

LEMMA ReworkedQueue ==
  ASSUME NEW f, NEW h, NEW g, g \in Groups, NEW k, k \in Keys, NEW o, Sole(f, g, k, o), NEW b, Reworked(f, h, o, b)
  PROVE  Sole(h, g, k, o) /\ Aside(f, h, g, k)
<1>1. \A e, j, p : QueueHas(f, e, j, p) <=> QueueHas(h, e, j, p) BY DEF Reworked, QueueHas
<1>2. \A e \in Groups, j \in Keys : e # g \/ j # k => \A p : QueueHas(f, e, j, p) => p # o BY DEF Sole, QueueHas
<1>3. \A e, j, p : QueueHas(f, e, j, p) /\ p # o => h[p] = f[p] BY DEF Reworked, QueueHas
<1>4. Sole(h, g, k, o) BY <1>1 DEF Sole
<1> QED BY <1>1, <1>2, <1>3, <1>4 DEF Aside

\* The queue of k in g holds s, and there is an item to be had if that is none.
Ready(w, g, k, s) ==
  Tidy(w) /\ g \in Groups /\ k \in Keys /\ Queued(w.items, g, k, s) /\ (s = << >> => DOMAIN w.items # Handles)

\* CQueue::Add and Insert, up to the item: the queue is there, or is made.
LEMMA QueueReady ==
  ASSUME NEW w, NEW g, NEW k, NEW s, Ready(w, g, k, s), NEW q, q = WithQueue(w, g, k)
  PROVE  /\ Tidy(q) /\ Aside(w.items, q.items, g, k)
         /\ Sole(q.items, g, k, QueueItem(q, g, k)) /\ Contents(q.items[QueueItem(q, g, k)].work) = s
<1>0. Tidy(w) /\ g \in Groups /\ k \in Keys /\ Queued(w.items, g, k, s) /\ (s = << >> => DOMAIN w.items # Handles)
  BY DEF Ready
<1>1. CASE s = << >>
  <2>1. \A o : ~QueueHas(w.items, g, k, o) BY <1>0, <1>1 DEF Queued
  <2>2. q = NewItem(w, g, k) BY <1>0, <2>1, QueueMissing DEF WithQueue
  <2>3. PICK o : Tidy(q) /\ Born(w.items, q.items, o, g, k)
    <3>1. DOMAIN w.items # Handles /\ k \in Keys \cup {Nil} BY <1>0, <1>1
    <3> QED BY <1>0, <2>2, <3>1, NewItemTidies
  <2>4. QueueHas(q.items, g, k, o) BY <2>3 DEF Born, QueueHas
  <2>5. \A e, j, p : p # o => (QueueHas(w.items, e, j, p) <=> QueueHas(q.items, e, j, p)) BY <2>3 DEF Born, QueueHas
  <2>6. \A p : QueueHas(q.items, g, k, p) => p = o BY <2>1, <2>5
  <2>7. \A e, j : e # g \/ j # k => ~QueueHas(q.items, e, j, o) BY <2>4 DEF QueueHas
  <2>8. \A e, j : ~QueueHas(w.items, e, j, o) BY <2>3 DEF Born, QueueHas
  <2>9. \A e, j, p : QueueHas(w.items, e, j, p) => q.items[p] = w.items[p] BY <2>3 DEF Born, QueueHas
  <2>10. Aside(w.items, q.items, g, k) BY <2>5, <2>7, <2>8, <2>9 DEF Aside
  <2>11. QueueItem(q, g, k) = o BY <1>0, <2>3, <2>4, <2>6, QueueFound
  <2>12. Contents(q.items[o].work) = << >> BY <2>3, NewListIsBlock DEF Born
  <2> QED BY <1>1, <2>3, <2>4, <2>6, <2>10, <2>11, <2>12 DEF Sole
<1>2. CASE s # << >>
  <2>1. PICK o : Sole(w.items, g, k, o) /\ Contents(w.items[o].work) = s BY <1>0, <1>2 DEF Queued, Sole
  <2>2. QueueIndexOf(w, g, k) # -1 /\ QueueItem(w, g, k) = o BY <1>0, <2>1, QueueFound DEF Sole
  <2>3. q = w BY <2>2 DEF WithQueue
  <2>4. Aside(w.items, w.items, g, k) BY DEF Aside
  <2> QED BY <1>0, <2>1, <2>2, <2>3, <2>4
<1> QED BY <1>1, <1>2

LEMMA WorkIsBlock ==
  ASSUME NEW w, Tidy(w), NEW o, o \in DOMAIN w.items
  PROVE  w.items[o].work \in Block
<1>1. w.items \in [DOMAIN w.items -> Cards] BY WorldIs DEF Tidy
<1> QED BY <1>1, CardIs

LEMMA AddToQueueAdds ==
  ASSUME NEW w, NEW g, NEW k, NEW s, Ready(w, g, k, s), s \in Seq(Int), NEW x, x \in Int, NEW v, v = AddToQueue(w, g, k, x)
  PROVE  Tidy(v) /\ Aside(w.items, v.items, g, k) /\ Queued(v.items, g, k, Append(s, x)) /\ Append(s, x) \in Seq(Int)
<1>1. PICK q : q = WithQueue(w, g, k) OBVIOUS
<1>2. PICK o : o = QueueItem(q, g, k) OBVIOUS
<1>0. g \in Groups /\ k \in Keys BY DEF Ready
<1>3. Tidy(q) /\ Aside(w.items, q.items, g, k) /\ Sole(q.items, g, k, o) /\ Contents(q.items[o].work) = s
  BY <1>1, <1>2, QueueReady
<1>4. o \in DOMAIN q.items BY <1>3 DEF Sole, QueueHas
<1>5. PICK l, b : l = q.items[o].work /\ b = ListAdd(l, x) OBVIOUS
<1>6. b \in Block /\ Contents(b) = Append(s, x)
  <2>1. l \in Block BY <1>3, <1>4, <1>5, WorkIsBlock
  <2> QED BY <1>3, <1>5, <2>1, AddAppends
<1>7. v = [q EXCEPT !.items[o].work = b] BY <1>1, <1>2, <1>5 DEF AddToQueue
<1>8. Tidy(v) /\ Reworked(q.items, v.items, o, b) BY <1>3, <1>4, <1>6, <1>7, WorkChanges
<1>9. Sole(v.items, g, k, o) /\ Aside(q.items, v.items, g, k) BY <1>0, <1>3, <1>8, ReworkedQueue
<1>10. Aside(w.items, v.items, g, k) BY <1>0, <1>3, <1>9 DEF Aside
<1>11. Append(s, x) \in Seq(Int) /\ Append(s, x) # << >> BY AppendProperties
<1>12. Contents(v.items[o].work) = Append(s, x) BY <1>6, <1>8 DEF Reworked
<1>13. Queued(v.items, g, k, Append(s, x)) BY <1>9, <1>11, <1>12 DEF Queued, Sole
<1> QED BY <1>8, <1>10, <1>11, <1>13

LEMMA InsertToQueueInserts ==
  ASSUME NEW w, NEW g, NEW k, NEW s, Ready(w, g, k, s), s \in Seq(Int), NEW x, x \in Int, NEW i, i \in 0..Len(s),
         NEW v, v = InsertToQueue(w, g, k, i, x), NEW t, t = InsertAt(s, i + 1, x)
  PROVE  Tidy(v) /\ Aside(w.items, v.items, g, k) /\ Queued(v.items, g, k, t) /\ t \in Seq(Int)
<1>1. PICK q : q = WithQueue(w, g, k) OBVIOUS
<1>2. PICK o : o = QueueItem(q, g, k) OBVIOUS
<1>0. g \in Groups /\ k \in Keys BY DEF Ready
<1>3. Tidy(q) /\ Aside(w.items, q.items, g, k) /\ Sole(q.items, g, k, o) /\ Contents(q.items[o].work) = s
  BY <1>1, <1>2, QueueReady
<1>4. o \in DOMAIN q.items BY <1>3 DEF Sole, QueueHas
<1>5. PICK l, b : l = q.items[o].work /\ b = ListInsert(l, i, x) OBVIOUS
<1>6. b \in Block /\ Contents(b) = t
  <2>1. l \in Block /\ Contents(l) = s BY <1>3, <1>4, <1>5, WorkIsBlock
  <2>2. l.count = Len(s) BY <2>1, ContentsAre
  <2>3. i \in 0..l.count BY <2>2
  <2> QED BY <1>5, <2>1, <2>3, InsertInserts
<1>7. v = [q EXCEPT !.items[o].work = b] BY <1>1, <1>2, <1>5 DEF InsertToQueue
<1>8. Tidy(v) /\ Reworked(q.items, v.items, o, b) BY <1>3, <1>4, <1>6, <1>7, WorkChanges
<1>9. Sole(v.items, g, k, o) /\ Aside(q.items, v.items, g, k) BY <1>0, <1>3, <1>8, ReworkedQueue
<1>10. Aside(w.items, v.items, g, k) BY <1>0, <1>3, <1>9 DEF Aside
<1>11. t \in Seq(Int) /\ t # << >>
  <2>1. PICK m : m = i + 1 /\ m \in 1..(Len(s) + 1) OBVIOUS
  <2>2. t \in Seq(Int) /\ Inserted(t, s, m, x) BY <2>1, InsertIs
  <2>3. Len(t) = Len(s) + 1 /\ Len(s) \in Nat BY <2>2 DEF Inserted
  <2>4. Len(<< >>) = 0 OBVIOUS
  <2> QED BY <2>2, <2>3, <2>4
<1>12. Contents(v.items[o].work) = t BY <1>6, <1>8 DEF Reworked
<1>13. Queued(v.items, g, k, t) BY <1>9, <1>11, <1>12 DEF Queued, Sole
<1> QED BY <1>8, <1>10, <1>11, <1>13

\* CQueue::Remove
LEMMA RemoveFromQueueRemoves ==
  ASSUME NEW w, Tidy(w), NEW g, g \in Groups, NEW k, k \in Keys, NEW s, s \in Seq(Int), Queued(w.items, g, k, s), NEW x,
         NEW v, v = RemoveFromQueue(w, g, k, x), NEW t, t = Less(s, x)
  PROVE  Tidy(v) /\ Aside(w.items, v.items, g, k) /\ Queued(v.items, g, k, t) /\ t \in Seq(Int)
<1>1. t \in Seq(Int) BY LessType
<1>2. CASE s = << >>
  <2>1. \A o : ~QueueHas(w.items, g, k, o) BY <1>2 DEF Queued
  <2>2. v = w BY <2>1, QueueMissing DEF RemoveFromQueue
  <2>3. t = s
    <3>1. PICK m : m = -1 OBVIOUS
    <3>2. First(s, x, m)
      <4>1. Len(s) = 0 BY <1>2
      <4> QED BY <3>1, <4>1 DEF First
    <3>3. ~Abstract!Has(s, x) BY <3>1, <3>2, FirstIsHas
    <3> QED BY <3>3 DEF Less
  <2>4. Aside(w.items, w.items, g, k) BY DEF Aside
  <2> QED BY <1>1, <2>2, <2>3, <2>4
<1>3. CASE s # << >>
  <2>1. PICK o : Sole(w.items, g, k, o) /\ Contents(w.items[o].work) = s BY <1>3 DEF Queued, Sole
  <2>2. QueueIndexOf(w, g, k) # -1 /\ QueueItem(w, g, k) = o BY <2>1, QueueFound DEF Sole
  <2>3. o \in DOMAIN w.items /\ w.items[o].group = g /\ w.items[o].key = k BY <2>1 DEF Sole, QueueHas
  <2>4. PICK l, b : l = w.items[o].work /\ b = ListRemove(l, x) OBVIOUS
  <2>5. b \in Block /\ Contents(b) = t
    <3>1. l \in Block /\ s = Contents(l) BY <2>1, <2>3, <2>4, WorkIsBlock
    <3> QED BY <2>4, <3>1, RemoveRemoves
  <2>6. PICK u : u = [w EXCEPT !.items[o].work = b] OBVIOUS
  <2>7. Tidy(u) /\ Reworked(w.items, u.items, o, b) BY <2>3, <2>5, <2>6, WorkChanges
  <2>8. Sole(u.items, g, k, o) /\ Aside(w.items, u.items, g, k) BY <2>1, <2>7, ReworkedQueue
  <2>9. u.items[o].work = b /\ o \in DOMAIN u.items BY <2>7, <2>8 DEF Reworked, Sole, QueueHas
  <2>10. v = IF b.count = 0 THEN DeleteItem(u, o) ELSE u
    <3>1. v = IF u.items[o].work.count = 0 THEN DeleteItem(u, o) ELSE u BY <2>2, <2>4, <2>6 DEF RemoveFromQueue
    <3> QED BY <2>9, <3>1
  <2>11. CASE b.count = 0
    <3>1. v = DeleteItem(u, o) BY <2>10, <2>11
    <3>2. Tidy(v) /\ Gone(u.items, v.items, o) BY <2>7, <2>9, <3>1, DeleteItemTidies
    <3>3. t = << >> BY <2>5, <2>11, EmptyContents
    <3>4. \A e, j, p : QueueHas(v.items, e, j, p) <=> QueueHas(u.items, e, j, p) /\ p # o BY <3>2 DEF Gone, QueueHas
    <3>5. Queued(v.items, g, k, t) BY <2>8, <3>3, <3>4 DEF Queued, Sole
    <3>6. \A e, j : e # g \/ j # k => ~QueueHas(u.items, e, j, o) BY <2>8 DEF Sole, QueueHas
    <3>7. \A e, j, p : QueueHas(v.items, e, j, p) => v.items[p] = u.items[p] BY <3>2 DEF Gone, QueueHas
    <3>8. Aside(u.items, v.items, g, k) BY <3>4, <3>6, <3>7 DEF Aside
    <3>9. Aside(w.items, v.items, g, k) BY <2>8, <3>8 DEF Aside
    <3> QED BY <1>1, <3>2, <3>5, <3>9
  <2>12. CASE b.count # 0
    <3>1. v = u BY <2>10, <2>12
    <3>2. t # << >>
      <4>1. Len(t) = b.count BY <2>5, ContentsAre
      <4>2. Len(<< >>) = 0 OBVIOUS
      <4> QED BY <2>12, <4>1, <4>2
    <3>3. Queued(u.items, g, k, t) BY <2>5, <2>8, <2>9, <3>2 DEF Queued, Sole
    <3> QED BY <1>1, <2>7, <2>8, <3>1, <3>3
  <2> QED BY <2>11, <2>12
<1> QED BY <1>2, <1>3

\* The first of the entries that are x is the one to go.
Dropped(s, x) ==
  IF \E i \in 1..Len(s) : s[i] = x
  THEN RemoveAt(s, CHOOSE i \in 1..Len(s) : s[i] = x /\ \A j \in 1..(i - 1) : s[j] # x) ELSE s

LEMMA DroppedIs ==
  ASSUME NEW S, NEW s, s \in Seq(S), NEW x, NEW t, t = Dropped(s, x)
  PROVE  t = Less(s, x)
<1>1. PICK m : m = Abstract!IndexIn(s, x) OBVIOUS
<1>2. First(s, x, m) /\ (Abstract!Has(s, x) <=> m >= 0) BY <1>1, IndexInIsFirst
<1>3. PICK N \in Nat : N = Len(s) OBVIOUS
<1>4. CASE m >= 0
  <2>1. m \in 0..(N - 1) /\ s[m + 1] = x /\ \A i \in 1..m : s[i] # x BY <1>2, <1>3, <1>4 DEF First
  <2>2. PICK n : n = m + 1 OBVIOUS
  <2>3. n \in 1..N /\ s[n] = x /\ \A j \in 1..(n - 1) : s[j] # x BY <2>1, <2>2
  <2>4. PICK c : c = CHOOSE i \in 1..N : s[i] = x /\ \A j \in 1..(i - 1) : s[j] # x OBVIOUS
  <2>5. c \in 1..N /\ s[c] = x /\ \A j \in 1..(c - 1) : s[j] # x BY <2>3, <2>4
  <2>6. c = n BY <1>3, <2>3, <2>5
  <2>7. t = RemoveAt(s, c) BY <1>3, <2>3, <2>4 DEF Dropped
  <2>8. Abstract!Has(s, x) BY <1>2, <1>4
  <2> QED BY <1>1, <2>2, <2>6, <2>7, <2>8 DEF Less
<1>5. CASE ~(m >= 0)
  <2>1. \A i \in 1..N : s[i] # x BY <1>2, <1>3, <1>5 DEF First
  <2>2. t = s BY <1>3, <2>1 DEF Dropped
  <2>3. ~Abstract!Has(s, x) BY <1>2, <1>5
  <2> QED BY <2>2, <2>3 DEF Less
<1> QED BY <1>4, <1>5

CollInv == Tidy(World) /\ asked \in Wanted /\ Queues(items, asked)

LEMMA WorldFields == World.members = members /\ World.nextId = nextId /\ World.items = items
BY DEF World

LEMMA TypesAre ==
  ASSUME CollInv
  PROVE  /\ Tidy(World) /\ World.items = items /\ World.members = members
         /\ asked \in Wanted /\ Queues(items, asked) /\ DOMAIN items \subseteq Handles /\ items \in [DOMAIN items -> Cards]
         /\ \A g \in Groups, k \in Keys : asked[g][k] \in Seq(Int) /\ Queued(items, g, k, asked[g][k])
<1>1. Tidy(World) /\ asked \in Wanted /\ Queues(items, asked) BY DEF CollInv
<1>2. World.items = items /\ World.members = members BY WorldFields
<1>3. World.items \in [DOMAIN World.items -> Cards] /\ DOMAIN World.items \subseteq Handles BY <1>1, WorldIs DEF Tidy
<1>4. \A g \in Groups, k \in Keys : asked[g][k] \in Seq(Int) BY <1>1 DEF Wanted
<1> QED BY <1>1, <1>2, <1>3, <1>4 DEF Queues

LEMMA WorldBecomes ==
  ASSUME NEW v, Tidy(v), Set(v), asked' \in Wanted, Queues(v.items, asked')
  PROVE  CollInv'
<1>1. members' = v.members /\ nextId' = v.nextId /\ items' = v.items BY DEF Set
<1>2. v = [members |-> v.members, nextId |-> v.nextId, items |-> v.items] BY WorldIs DEF Tidy
<1>3. World' = v BY <1>1, <1>2 DEF World
<1> QED BY <1>1, <1>3 DEF CollInv

LEMMA CollStart == CollInit => CollInv
<1> SUFFICES ASSUME CollInit PROVE CollInv OBVIOUS
<1>1. /\ members = [g \in Groups |-> NewList] /\ nextId = [g \in Groups |-> 0]
      /\ items = [it \in {} |-> Nil] /\ asked = [g \in Groups |-> [k \in Keys |-> << >>]]
  BY DEF CollInit
<1>2. NewList \in Block /\ Contents(NewList) = << >> BY NewListIsBlock
<1>3. World \in Worlds
  <2>1. PICK f, D : f = items /\ D = {} OBVIOUS
  <2>2. f \in [D -> Cards] /\ D \subseteq Handles BY <1>1, <2>1
  <2>3. members \in [Groups -> Block] /\ nextId \in [Groups -> Nat] BY <1>1, <1>2
  <2>4. World = [members |-> members, nextId |-> nextId, items |-> f] BY <2>1 DEF World
  <2> QED BY <2>2, <2>3, <2>4, WorldMade
<1>4. DOMAIN World.items = {} BY <1>1, WorldFields
<1>5. Numbered(World) BY <1>4 DEF Numbered
<1>6. ASSUME NEW g, g \in Groups PROVE Holds(World, g)
  <2>1. PICK s : s = << >> /\ DOMAIN s = {} OBVIOUS
  <2>2. Contents(World.members[g]) = s BY <1>1, <1>2, <1>6, <2>1, WorldFields
  <2>3. NoDuplicates(s) /\ Members(s) = {} BY <2>1 DEF NoDuplicates, Members
  <2> QED BY <1>4, <2>2, <2>3 DEF Holds
<1>7. asked \in Wanted
  <2>1. << >> \in Seq(Int) OBVIOUS
  <2> QED BY <1>1, <2>1 DEF Wanted
<1>8. Queues(items, asked)
  <2>1. \A g \in Groups, k \in Keys : asked[g][k] = << >> BY <1>1
  <2>2. DOMAIN items = {} BY <1>1
  <2> QED BY <2>1, <2>2 DEF Queues, Queued, QueueHas
<1> QED BY <1>3, <1>5, <1>6, <1>7, <1>8 DEF CollInv, Tidy

LEMMA CreateItemStep ==
  ASSUME CollInv, CreateItem
  PROVE  CollInv'
<1>1. PICK g : g \in Groups /\ Spare(g) /\ Set(NewItem(World, g, Plain)) /\ asked' = asked BY DEF CreateItem
<1>2. Tidy(World) /\ World.items = items /\ asked \in Wanted /\ Queues(items, asked) BY TypesAre
<1>3. PICK v : v = NewItem(World, g, Plain) OBVIOUS
<1>4. PICK o : Tidy(v) /\ Born(items, v.items, o, g, Nil)
  <2>1. DOMAIN World.items # Handles /\ Nil \in Keys \cup {Nil} BY <1>1, <1>2 DEF Spare
  <2> QED BY <1>1, <1>2, <1>3, <2>1, NewItemTidies DEF Plain
<1>5. Queues(v.items, asked)
  <2>1. \A e \in Groups, j \in Keys : ~QueueHas(items, e, j, o) /\ ~QueueHas(v.items, e, j, o)
    BY <1>4, CollAssumption DEF Born, QueueHas
  <2>2. \A p : p # o => (p \in DOMAIN items <=> p \in DOMAIN v.items) BY <1>4 DEF Born
  <2>3. \A p \in DOMAIN items : p # o => v.items[p] = items[p] BY <1>4 DEF Born
  <2> QED BY <1>2, <2>1, <2>2, <2>3, PlainKeeps
<1> QED BY <1>1, <1>2, <1>3, <1>4, <1>5, WorldBecomes

LEMMA DestroyItemStep ==
  ASSUME CollInv, DestroyItem
  PROVE  CollInv'
<1>1. PICK o : o \in DOMAIN items /\ items[o].key = Nil /\ Set(DeleteItem(World, o)) /\ asked' = asked
  BY DEF DestroyItem, Plainly, Plain
<1>2. Tidy(World) /\ World.items = items /\ asked \in Wanted /\ Queues(items, asked) BY TypesAre
<1>3. PICK v : v = DeleteItem(World, o) OBVIOUS
<1>4. Tidy(v) /\ Gone(items, v.items, o) BY <1>1, <1>2, <1>3, DeleteItemTidies
<1>5. Queues(v.items, asked)
  <2>1. \A e \in Groups, j \in Keys : ~QueueHas(items, e, j, o) /\ ~QueueHas(v.items, e, j, o)
    BY <1>1, <1>4, CollAssumption DEF Gone, QueueHas
  <2>2. \A p : p # o => (p \in DOMAIN items <=> p \in DOMAIN v.items) BY <1>4 DEF Gone
  <2>3. \A p \in DOMAIN items : p # o => v.items[p] = items[p] BY <1>4 DEF Gone
  <2> QED BY <1>2, <2>1, <2>2, <2>3, PlainKeeps
<1> QED BY <1>1, <1>2, <1>3, <1>4, <1>5, WorldBecomes

LEMMA SwitchItemStep ==
  ASSUME CollInv, SwitchItem
  PROVE  CollInv'
<1>1. PICK o, g : /\ o \in DOMAIN items /\ g \in Groups \cup {NoGroup} /\ items[o].key = Nil
                  /\ Set(SetCollection(World, o, g)) /\ asked' = asked
  BY DEF SwitchItem, Plainly, Plain
<1>2. Tidy(World) /\ World.items = items /\ asked \in Wanted /\ Queues(items, asked) BY TypesAre
<1>3. PICK v : v = SetCollection(World, o, g) OBVIOUS
<1>4. Tidy(v) /\ Moved(items, v.items, o, g) BY <1>1, <1>2, <1>3, SetCollectionTidies
<1>5. Queues(v.items, asked)
  <2>1. \A e \in Groups, j \in Keys : ~QueueHas(items, e, j, o) /\ ~QueueHas(v.items, e, j, o)
    BY <1>1, <1>4, CollAssumption DEF Moved, QueueHas
  <2>2. \A p : p # o => (p \in DOMAIN items <=> p \in DOMAIN v.items) BY <1>4 DEF Moved
  <2>3. \A p \in DOMAIN items : p # o => v.items[p] = items[p] BY <1>4 DEF Moved
  <2> QED BY <1>2, <2>1, <2>2, <2>3, PlainKeeps
<1> QED BY <1>1, <1>2, <1>3, <1>4, <1>5, WorldBecomes

LEMMA MoveMemberStep ==
  ASSUME CollInv, MoveMember
  PROVE  CollInv'
<1>1. PICK o : /\ o \in DOMAIN items /\ items[o].group # NoGroup /\ asked' = asked
               /\ \E i \in 0..(members[items[o].group].count - 1) : Set(SetIndex(World, o, i))
  BY DEF MoveMember
<1>2. PICK i : i \in 0..(members[items[o].group].count - 1) /\ Set(SetIndex(World, o, i)) BY <1>1
<1>3. Tidy(World) /\ World.items = items /\ World.members = members /\ asked \in Wanted /\ Queues(items, asked) BY TypesAre
<1>4. items[o].group \in Groups
  <2>1. items[o] \in Cards BY <1>1, TypesAre
  <2> QED BY <1>1, <2>1, CardIs
<1>5. PICK v : v = SetIndex(World, o, i) OBVIOUS
<1>6. Tidy(v) /\ v.items = items BY <1>1, <1>2, <1>3, <1>4, <1>5, SetIndexTidies
<1> QED BY <1>1, <1>2, <1>3, <1>5, <1>6, WorldBecomes

LEMMA ClearMembersStep ==
  ASSUME CollInv, ClearMembers
  PROVE  CollInv'
<1>1. PICK g : g \in Groups /\ Set(ClearGroup(World, g)) /\ asked' = [asked EXCEPT ![g] = [k \in Keys |-> << >>]]
  BY DEF ClearMembers
<1>2. Tidy(World) /\ World.items = items /\ asked \in Wanted /\ Queues(items, asked) BY TypesAre
<1>3. PICK v : v = ClearGroup(World, g) OBVIOUS
<1>4. Tidy(v) /\ Cleared(items, v.items, g) BY <1>1, <1>2, <1>3, ClearGroupClears
<1>5. PICK n : n = [k \in Keys |-> << >>] OBVIOUS
<1>6. PICK b : b = asked' OBVIOUS
<1>7. b = [asked EXCEPT ![g] = n] BY <1>1, <1>5, <1>6
<1>8. n \in [Keys -> Seq(Int)] /\ \A k \in Keys : n[k] = << >>
  <2>1. << >> \in Seq(Int) OBVIOUS
  <2> QED BY <1>5, <2>1
<1>9. asked \in [Groups -> [Keys -> Seq(Int)]] BY <1>2 DEF Wanted
<1>10. b \in Wanted /\ b[g] = n /\ \A e \in Groups : e # g => b[e] = asked[e] BY <1>1, <1>7, <1>8, <1>9 DEF Wanted
<1>11. \A e, j, p : QueueHas(v.items, e, j, p) <=> QueueHas(items, e, j, p) /\ e # g BY <1>4 DEF Cleared, QueueHas
<1>12. \A e, j, p : QueueHas(v.items, e, j, p) => v.items[p] = items[p] BY <1>4 DEF Cleared, QueueHas
<1>13. ASSUME NEW e, e \in Groups, NEW j, j \in Keys PROVE Queued(v.items, e, j, b[e][j])
  <2>1. CASE e = g
    <3>1. b[e][j] = << >> BY <1>8, <1>10, <1>13, <2>1
    <3> QED BY <1>11, <2>1, <3>1 DEF Queued
  <2>2. CASE e # g
    <3>1. Queued(items, e, j, b[e][j]) BY <1>2, <1>10, <1>13, <2>2 DEF Queues
    <3>2. \A p : (QueueHas(items, e, j, p) <=> QueueHas(v.items, e, j, p)) /\ (QueueHas(items, e, j, p) => v.items[p].work = items[p].work)
      BY <1>11, <1>12, <2>2
    <3> QED BY <3>1, <3>2, QueuedSame
  <2> QED BY <2>1, <2>2
<1>14. Queues(v.items, b) BY <1>13 DEF Queues
<1> QED BY <1>1, <1>3, <1>4, <1>6, <1>10, <1>14, WorldBecomes

LEMMA QueueWorkStep ==
  ASSUME CollInv, QueueWork
  PROVE  CollInv'
<1>1. PICK g, k, p : /\ g \in Groups /\ k \in Keys /\ p \in Work /\ (asked[g][k] = << >> => Spare(g))
                     /\ Set(AddToQueue(World, g, k, p)) /\ asked' = [asked EXCEPT ![g][k] = Append(@, p)]
  BY DEF QueueWork
<1>2. Tidy(World) /\ World.items = items /\ asked \in Wanted /\ Queues(items, asked) BY TypesAre
<1>3. PICK s : s = asked[g][k] /\ s \in Seq(Int) /\ Queued(items, g, k, s) BY <1>1, TypesAre
<1>4. Ready(World, g, k, s) BY <1>1, <1>2, <1>3 DEF Ready, Spare
<1>5. p \in Int BY <1>1, CollAssumption
<1>6. PICK v, t : v = AddToQueue(World, g, k, p) /\ t = Append(s, p) OBVIOUS
<1>7. Tidy(v) /\ Aside(items, v.items, g, k) /\ Queued(v.items, g, k, t) /\ t \in Seq(Int)
  BY <1>2, <1>3, <1>4, <1>5, <1>6, AddToQueueAdds
<1>8. PICK b : b = asked' /\ b = Asking(asked, g, k, t) BY <1>1, <1>3, <1>6 DEF Asking
<1>9. b \in Wanted /\ Queues(v.items, b) BY <1>1, <1>2, <1>7, <1>8, AsideKeeps
<1> QED BY <1>1, <1>6, <1>7, <1>8, <1>9, WorldBecomes

LEMMA QueueWorkAtStep ==
  ASSUME CollInv, QueueWorkAt
  PROVE  CollInv'
<1>1. PICK g, k, p, i : /\ g \in Groups /\ k \in Keys /\ p \in Work /\ i \in 0..Len(asked[g][k]) /\ (asked[g][k] = << >> => Spare(g))
                        /\ Set(InsertToQueue(World, g, k, i, p)) /\ asked' = [asked EXCEPT ![g][k] = InsertAt(@, i + 1, p)]
  BY DEF QueueWorkAt
<1>2. Tidy(World) /\ World.items = items /\ asked \in Wanted /\ Queues(items, asked) BY TypesAre
<1>3. PICK s : s = asked[g][k] /\ s \in Seq(Int) /\ Queued(items, g, k, s) BY <1>1, TypesAre
<1>4. Ready(World, g, k, s) BY <1>1, <1>2, <1>3 DEF Ready, Spare
<1>5. p \in Int /\ i \in 0..Len(s) BY <1>1, <1>3, CollAssumption
<1>6. PICK v, t : v = InsertToQueue(World, g, k, i, p) /\ t = InsertAt(s, i + 1, p) OBVIOUS
<1>7. Tidy(v) /\ Aside(items, v.items, g, k) /\ Queued(v.items, g, k, t) /\ t \in Seq(Int)
  BY <1>2, <1>3, <1>4, <1>5, <1>6, InsertToQueueInserts
<1>8. PICK b : b = asked' /\ b = Asking(asked, g, k, t) BY <1>1, <1>3, <1>6 DEF Asking
<1>9. b \in Wanted /\ Queues(v.items, b) BY <1>1, <1>2, <1>7, <1>8, AsideKeeps
<1> QED BY <1>1, <1>6, <1>7, <1>8, <1>9, WorldBecomes

LEMMA DropWorkStep ==
  ASSUME CollInv, DropWork
  PROVE  CollInv'
<1>1. PICK g, k, p : /\ g \in Groups /\ k \in Keys /\ Set(RemoveFromQueue(World, g, k, p))
                     /\ asked' = [asked EXCEPT ![g][k] = Dropped(@, p)]
  BY DEF DropWork, Dropped
<1>2. Tidy(World) /\ World.items = items /\ asked \in Wanted /\ Queues(items, asked) BY TypesAre
<1>3. PICK s : s = asked[g][k] /\ s \in Seq(Int) /\ Queued(items, g, k, s) BY <1>1, TypesAre
<1>4. PICK t : t = Dropped(s, p) OBVIOUS
<1>5. t = Less(s, p) BY <1>3, <1>4, DroppedIs
<1>6. PICK v : v = RemoveFromQueue(World, g, k, p) OBVIOUS
<1>7. Tidy(v) /\ Aside(items, v.items, g, k) /\ Queued(v.items, g, k, t) /\ t \in Seq(Int)
  BY <1>1, <1>2, <1>3, <1>5, <1>6, RemoveFromQueueRemoves
<1>8. PICK b : b = asked' /\ b = Asking(asked, g, k, t) BY <1>1, <1>3, <1>4 DEF Asking
<1>9. b \in Wanted /\ Queues(v.items, b) BY <1>1, <1>2, <1>7, <1>8, AsideKeeps
<1> QED BY <1>1, <1>6, <1>7, <1>8, <1>9, WorldBecomes

LEMMA CollStep == CollInv /\ [CollNext]_collVars => CollInv'
<1> SUFFICES ASSUME CollInv, [CollNext]_collVars PROVE CollInv' OBVIOUS
<1>1. CASE CreateItem BY <1>1, CreateItemStep
<1>2. CASE DestroyItem BY <1>2, DestroyItemStep
<1>3. CASE SwitchItem BY <1>3, SwitchItemStep
<1>4. CASE MoveMember BY <1>4, MoveMemberStep
<1>5. CASE ClearMembers BY <1>5, ClearMembersStep
<1>6. CASE QueueWork BY <1>6, QueueWorkStep
<1>7. CASE QueueWorkAt BY <1>7, QueueWorkAtStep
<1>8. CASE DropWork BY <1>8, DropWorkStep
<1>9. CASE UNCHANGED collVars
  <2>1. members' = members /\ nextId' = nextId /\ items' = items /\ asked' = asked BY <1>9 DEF collVars
  <2>2. World' = World BY <2>1 DEF World
  <2> QED BY <2>1, <2>2 DEF CollInv
<1> QED BY <1>1, <1>2, <1>3, <1>4, <1>5, <1>6, <1>7, <1>8, <1>9 DEF CollNext

LEMMA MembersDo == CollInv => MembersAgree
<1> SUFFICES ASSUME CollInv, NEW g, g \in Groups
             PROVE  /\ ToSet(Contents(members[g])) = {it \in DOMAIN items : items[it].group = g}
                    /\ IsInjective(Contents(members[g]))
                    /\ \A it \in ToSet(Contents(members[g])) : FindItemId(World, g, items[it].id) = it
  BY DEF MembersAgree
<1>1. Tidy(World) /\ World.items = items /\ World.members = members BY TypesAre
<1>2. PICK s : s = Contents(members[g]) OBVIOUS
<1>3. NoDuplicates(s) /\ \A o : o \in Members(s) <=> o \in DOMAIN items /\ items[o].group = g
  BY <1>1, <1>2 DEF Tidy, Holds
<1>4. ToSet(s) = Members(s) BY DEF ToSet, Members
<1>5. ToSet(s) = {it \in DOMAIN items : items[it].group = g} BY <1>3, <1>4
<1>6. IsInjective(s) BY <1>3 DEF IsInjective, NoDuplicates
<1>7. ASSUME NEW it, it \in ToSet(s) PROVE FindItemId(World, g, items[it].id) = it
  <2>1. it \in DOMAIN World.items /\ World.items[it].group = g BY <1>1, <1>3, <1>4, <1>7
  <2>2. FindItemId(World, g, World.items[it].id) = it BY <1>1, <2>1, FindItemIdFinds
  <2> QED BY <1>1, <2>2
<1> QED BY <1>2, <1>5, <1>6, <1>7

\* What the queue of one key answers.
LEMMA QueueAnswers ==
  ASSUME CollInv, NEW g, g \in Groups, NEW k, k \in Keys, NEW s, s = asked[g][k]
  PROVE  /\ CountItems(World, g, k) = Len(s)
         /\ FirstItem(World, g, k) = IF s = << >> THEN Nil ELSE Head(s)
         /\ s # << >> => Contents(items[QueueItem(World, g, k)].work) = s
<1>1. Tidy(World) /\ World.items = items BY TypesAre
<1>2. Queued(items, g, k, s) /\ s \in Seq(Int) BY TypesAre
<1>3. CASE s = << >>
  <2>1. QueueIndexOf(World, g, k) = -1 BY <1>1, <1>2, <1>3, QueueMissing DEF Queued
  <2>2. Len(s) = 0 BY <1>3
  <2> QED BY <1>3, <2>1, <2>2 DEF CountItems, FirstItem
<1>4. CASE s # << >>
  <2>1. PICK o : Sole(items, g, k, o) /\ Contents(items[o].work) = s BY <1>2, <1>4 DEF Queued, Sole
  <2>2. QueueIndexOf(World, g, k) # -1 /\ QueueItem(World, g, k) = o BY <1>1, <2>1, QueueFound DEF Sole
  <2>3. PICK l : l = items[o].work OBVIOUS
  <2>4. l \in Block
    <3>1. o \in DOMAIN World.items BY <1>1, <2>1 DEF Sole, QueueHas
    <3> QED BY <1>1, <2>3, <3>1, WorkIsBlock
  <2>5. Len(s) = l.count /\ l.count \in Nat /\ \A i \in 1..l.count : s[i] = l.cells[i - 1]
    BY <2>1, <2>3, <2>4, ContentsAre
  <2>6. l.count > 0
    <3>1. l.count # 0 BY <1>4, <2>1, <2>3, <2>4, EmptyContents
    <3> QED BY <2>5, <3>1
  <2>7. l.cells[0] = Head(s)
    <3>1. 1 \in 1..l.count /\ 1 - 1 = 0 BY <2>5, <2>6
    <3>2. s[1] = l.cells[0] BY <2>5, <3>1
    <3>3. Head(s) = s[1] BY <1>2, <1>4
    <3> QED BY <3>2, <3>3
  <2>8. CountItems(World, g, k) = Len(s) BY <1>1, <2>2, <2>3, <2>5 DEF CountItems
  <2>9. FirstItem(World, g, k) = Head(s) BY <1>1, <2>2, <2>3, <2>6, <2>7 DEF FirstItem
  <2> QED BY <1>4, <2>1, <2>2, <2>8, <2>9
<1> QED BY <1>3, <1>4

\* One item for each key with work
LEMMA QueuesCounted ==
  ASSUME CollInv, NEW g, g \in Groups
  PROVE  Cardinality({it \in ToSet(Contents(members[g])) : ~Plainly(it)}) = Cardinality({k \in Keys : asked[g][k] # << >>})
<1>1. Tidy(World) /\ World.items = items /\ World.members = members BY TypesAre
<1>2. PICK s : s = Contents(members[g]) OBVIOUS
<1>3. \A o : o \in Members(s) <=> o \in DOMAIN items /\ items[o].group = g BY <1>1, <1>2 DEF Tidy, Holds
<1>4. ToSet(s) = Members(s) BY DEF ToSet, Members
<1>5. PICK A : A = {it \in ToSet(s) : ~Plainly(it)} OBVIOUS
<1>6. PICK B : B = {k \in Keys : asked[g][k] # << >>} OBVIOUS
<1>7. \A o : o \in A <=> o \in DOMAIN items /\ items[o].group = g /\ items[o].key # Nil
  BY <1>3, <1>4, <1>5 DEF Plainly, Plain
<1>8. \A o \in DOMAIN items : items[o].key \in Keys \cup {Nil} BY TypesAre, CardIs
<1>9. \A k \in Keys : k # Nil BY CollAssumption
<1>10. \A k \in Keys : Queued(items, g, k, asked[g][k]) BY TypesAre
<1>11. \A o \in A : items[o].key \in Keys /\ QueueHas(items, g, items[o].key, o) BY <1>7, <1>8 DEF QueueHas
<1>12. PICK f : f = [o \in A |-> items[o].key] OBVIOUS
<1>13. f \in [A -> B]
  <2>1. \A o \in A : items[o].key \in B BY <1>6, <1>10, <1>11 DEF Queued
  <2> QED BY <1>12, <2>1
<1>14. \A o, p \in A : f[o] = f[p] => o = p
  <2> TAKE o, p \in A
  <2> HAVE f[o] = f[p]
  <2>1. PICK k : k = items[o].key /\ k = items[p].key BY <1>12
  <2>2. k \in Keys /\ QueueHas(items, g, k, o) /\ QueueHas(items, g, k, p) BY <1>11, <2>1
  <2>3. Queued(items, g, k, asked[g][k]) BY <1>10, <2>2
  <2> QED BY <2>2, <2>3 DEF Queued
<1>15. \A k \in B : \E o \in A : f[o] = k
  <2> TAKE k \in B
  <2>1. k \in Keys /\ asked[g][k] # << >> /\ Queued(items, g, k, asked[g][k]) BY <1>6, <1>10
  <2>2. PICK o : QueueHas(items, g, k, o) BY <2>1 DEF Queued
  <2>3. o \in A /\ items[o].key = k BY <1>7, <1>9, <2>1, <2>2 DEF QueueHas
  <2> QED BY <1>12, <2>3
<1>16. ExistsBijection(A, B)
  <2>1. f \in Bijection(A, B) BY <1>13, <1>14, <1>15, Fun_IsBij
  <2> QED BY <2>1 DEF ExistsBijection
<1>17. IsFiniteSet(A)
  <2>1. members[g] \in Block
    <3>1. World.members \in [Groups -> Block] BY <1>1, WorldIs DEF Tidy
    <3> QED BY <1>1, <3>1
  <2>2. s \in Seq(Int) BY <1>2, <2>1, ContentsAre
  <2>3. IsFiniteSet(Members(s)) BY <2>2, MembersCounted
  <2>4. A \subseteq Members(s) BY <1>4, <1>5
  <2> QED BY <2>3, <2>4, FS_Subset
<1>18. Cardinality(B) = Cardinality(A) BY <1>16, <1>17, FS_Bijection
<1> QED BY <1>2, <1>5, <1>6, <1>18

LEMMA QueuesDo == CollInv => QueuesKeepOrder
<1> SUFFICES ASSUME CollInv, NEW g, g \in Groups
             PROVE  /\ \A k \in Keys :
                         /\ CountItems(World, g, k) = Len(asked[g][k])
                         /\ FirstItem(World, g, k) = IF asked[g][k] = << >> THEN Nil ELSE Head(asked[g][k])
                         /\ asked[g][k] # << >> => Contents(items[QueueItem(World, g, k)].work) = asked[g][k]
                    /\ Cardinality({it \in ToSet(Contents(members[g])) : ~Plainly(it)}) =
                         Cardinality({k \in Keys : asked[g][k] # << >>})
  BY DEF QueuesKeepOrder
<1> QED BY QueueAnswers, QueuesCounted

LEMMA CollAlways == CollSpec => []CollInv
<1> QED BY CollStart, CollStep, PTL DEF CollSpec

\* Whatever the collections, the items, the keys and the work, and however long
\* the calls go on: an item is once in the list of the collection it names and
\* its number finds it there, and a CQueue hands out the work of each key in the
\* order it was queued, with one item for each key that has any.
THEOREM CollectionsAlwaysAgree == CollSpec => []CollectionsAgree
<1>1. CollInv => CollectionsAgree BY MembersDo, QueuesDo DEF CollectionsAgree
<1> QED BY <1>1, CollAlways, PTL
=============================================================================
