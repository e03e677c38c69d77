----------------------------- MODULE ListLemmas -----------------------------
(***************************************************************************)
(* What CList::IndexOf, Remove, Delete and Add do to a list, for the proofs *)
(* of the modules that keep one: facts about Min, SelectInSeq, RemoveAt,    *)
(* RemoveFirst and Append, at every length; and induction and recursion on  *)
(* the numbers up to a bound, for the loops over a list.                    *)
(***************************************************************************)
EXTENDS Integers, SequencesExt, SequenceTheorems, FunctionTheorems, FiniteSetTheorems,
        WellFoundedInduction, TLAPS

NoDuplicates(s) == \A i, j \in DOMAIN s : s[i] = s[j] => i = j
Members(s) == {s[i] : i \in DOMAIN s}

LEMMA LeastIndex ==
  ASSUME NEW I, I \subseteq Nat, I # {}
  PROVE  Min(I) \in I /\ \A j \in I : Min(I) <= j
<1>1. PICK m \in I : \A j \in I : <<j, m>> \notin OpToRel(<, Nat)
  BY NatLessThanWellFounded, WFMin
<1>2. \A j \in I : m <= j
  <2> TAKE j \in I
  <2>1. <<j, m>> \notin {ss \in Nat \X Nat : ss[1] < ss[2]}
    BY <1>1 DEF OpToRel
  <2> QED BY <2>1
<1> QED BY <1>2 DEF Min

LEMMA RemoveAtIndex ==
  ASSUME NEW S, NEW s \in Seq(S), NEW k \in 1 .. Len(s)
  PROVE  /\ RemoveAt(s, k) \in Seq(S)
         /\ Len(RemoveAt(s, k)) = Len(s) - 1
         /\ \A j \in 1 .. Len(s) - 1 : RemoveAt(s, k)[j] = IF j < k THEN s[j] ELSE s[j + 1]
<1> DEFINE a == SubSeq(s, 1, k - 1)
           b == SubSeq(s, k + 1, Len(s))
<1>0. Len(s) \in Nat /\ k \in Nat /\ \A i \in 1 .. Len(s) : s[i] \in S OBVIOUS
<1>1. /\ a \in Seq(S) /\ Len(a) = k - 1
      /\ \A i \in 1 .. k - 1 : a[i] = s[i]
  <2>1. \A i \in 1 .. k - 1 : s[i] \in S BY <1>0
  <2> QED BY <1>0, <2>1, SubSeqProperties
<1>2. /\ b \in Seq(S) /\ Len(b) = Len(s) - k
      /\ \A i \in 1 .. Len(s) - k : b[i] = s[k + i]
  <2>1. \A i \in k + 1 .. Len(s) : s[i] \in S BY <1>0
  <2> QED BY <1>0, <2>1, SubSeqProperties
<1> HIDE DEF a, b
<1>3. /\ a \o b \in Seq(S)
      /\ Len(a \o b) = Len(s) - 1
      /\ \A i \in 1 .. Len(s) - 1 : (a \o b)[i] = IF i <= Len(a) THEN a[i] ELSE b[i - Len(a)]
  BY <1>0, <1>1, <1>2, ConcatProperties
<1>4. ASSUME NEW j \in 1 .. Len(s) - 1
      PROVE  (a \o b)[j] = IF j < k THEN s[j] ELSE s[j + 1]
  <2>1. CASE j < k BY <1>0, <1>1, <1>3, <2>1
  <2>2. CASE ~(j < k)
    <3>1. j - (k - 1) \in 1 .. Len(s) - k /\ k + (j - (k - 1)) = j + 1 BY <1>0, <2>2
    <3>2. (a \o b)[j] = b[j - (k - 1)] BY <1>0, <1>1, <1>3, <2>2
    <3>3. b[j - (k - 1)] = s[j + 1] BY <1>2, <3>1
    <3> QED BY <2>2, <3>2, <3>3
  <2> QED BY <2>1, <2>2
<1>5. RemoveAt(s, k) = a \o b BY DEF RemoveAt, a, b
<1> QED BY <1>3, <1>4, <1>5

LEMMA RemovedMember ==
  ASSUME NEW S, NEW s \in Seq(S), NEW k \in 1 .. Len(s), NoDuplicates(s)
  PROVE  /\ NoDuplicates(RemoveAt(s, k))
         /\ Members(RemoveAt(s, k)) = Members(s) \ {s[k]}
<1> DEFINE r == RemoveAt(s, k)
<1>1. /\ Len(r) = Len(s) - 1
      /\ \A j \in 1 .. Len(s) - 1 : r[j] = IF j < k THEN s[j] ELSE s[j + 1]
      /\ r \in Seq(S) /\ Len(s) \in Nat
  BY RemoveAtIndex
<1> HIDE DEF r
<1>2. DOMAIN r = 1 .. Len(s) - 1 /\ DOMAIN s = 1 .. Len(s) BY <1>1
<1> DEFINE o(j) == IF j < k THEN j ELSE j + 1
<1>3. \A j \in DOMAIN r : o(j) \in DOMAIN s /\ o(j) # k /\ r[j] = s[o(j)]
  BY <1>1, <1>2
<1>4. \A i, j \in DOMAIN r : o(i) = o(j) => i = j
  BY <1>1, <1>2
<1>5. \A i \in DOMAIN s : i # k => \E j \in DOMAIN r : o(j) = i
  <2> SUFFICES ASSUME NEW i \in DOMAIN s, i # k PROVE \E j \in DOMAIN r : o(j) = i OBVIOUS
  <2>1. CASE i < k BY <1>1, <1>2, <2>1
  <2>2. CASE i > k
    <3>1. i - 1 \in DOMAIN r /\ o(i - 1) = i BY <1>1, <1>2, <2>2
    <3> QED BY <3>1
  <2> QED BY <1>2, <2>1, <2>2
<1> HIDE DEF o
<1>6. NoDuplicates(r)
  BY <1>3, <1>4 DEF NoDuplicates
<1>7. Members(r) = Members(s) \ {s[k]}
  BY <1>2, <1>3, <1>5 DEF NoDuplicates, Members
<1> QED BY <1>6, <1>7 DEF r

LEMMA RemovedFirst ==
  ASSUME NEW S, NEW s \in Seq(S), NEW e
  PROVE  /\ RemoveFirst(s, e) \in Seq(S)
         /\ NoDuplicates(s) => /\ NoDuplicates(RemoveFirst(s, e))
                               /\ Members(RemoveFirst(s, e)) = Members(s) \ {e}
<1> DEFINE I == {i \in 1 .. Len(s) : s[i] = e}
<1>1. CASE I = {}
  <2>1. RemoveFirst(s, e) = s BY <1>1 DEF RemoveFirst
  <2> QED BY <1>1, <2>1 DEF Members
<1>2. CASE I # {}
  <2> DEFINE k == SelectInSeq(s, LAMBDA v : v = e)
  <2>1. k = Min(I) BY <1>2 DEF SelectInSeq
  <2>2. k \in I
    <3>1. I \subseteq Nat OBVIOUS
    <3> QED BY <1>2, <2>1, <3>1, LeastIndex
  <2>3. RemoveFirst(s, e) = RemoveAt(s, k)
    BY <1>2 DEF RemoveFirst
  <2> HIDE DEF k
  <2> QED BY <2>2, <2>3, RemoveAtIndex, RemovedMember
<1> QED BY <1>1, <1>2

\* The element at a known place is removed there.
LEMMA RemovedAtPlace ==
  ASSUME NEW S, NEW s \in Seq(S), NoDuplicates(s), NEW k \in 1 .. Len(s)
  PROVE  /\ Len(RemoveFirst(s, s[k])) = Len(s) - 1
         /\ \A j \in 1 .. Len(s) - 1 :
              RemoveFirst(s, s[k])[j] = IF j < k THEN s[j] ELSE s[j + 1]
<1> DEFINE I == {i \in 1 .. Len(s) : s[i] = s[k]}
           m == SelectInSeq(s, LAMBDA v : v = s[k])
<1>1. I # {} /\ I \subseteq Nat /\ \A i \in I : i = k BY DEF NoDuplicates
<1>2. m = Min(I) BY <1>1 DEF SelectInSeq
<1>3. Min(I) \in I BY <1>1, LeastIndex
<1>4. RemoveFirst(s, s[k]) = RemoveAt(s, m) BY DEF RemoveFirst
<1>5. RemoveFirst(s, s[k]) = RemoveAt(s, k) BY <1>1, <1>2, <1>3, <1>4
<1> QED BY <1>5, RemoveAtIndex

LEMMA Appended ==
  ASSUME NEW S, NEW s \in Seq(S), NEW e \in S
  PROVE  /\ Append(s, e) \in Seq(S)
         /\ Members(Append(s, e)) = Members(s) \cup {e}
         /\ NoDuplicates(s) /\ e \notin Members(s) => NoDuplicates(Append(s, e))
<1>1. /\ Append(s, e) \in Seq(S) /\ Len(s) \in Nat
      /\ DOMAIN s = 1 .. Len(s) /\ DOMAIN Append(s, e) = 1 .. Len(s) + 1
      /\ \A i \in 1 .. Len(s) : Append(s, e)[i] = s[i]
      /\ Append(s, e)[Len(s) + 1] = e
  BY AppendProperties
<1>2. DOMAIN Append(s, e) = DOMAIN s \cup {Len(s) + 1} /\ Len(s) + 1 \notin DOMAIN s
  BY <1>1
<1> QED BY <1>1, <1>2 DEF Members, NoDuplicates

\* A list is as long as its set of elements is large, when it has no duplicates.
LEMMA MembersCounted ==
  ASSUME NEW S, NEW s \in Seq(S)
  PROVE  /\ IsFiniteSet(Members(s)) /\ Cardinality(Members(s)) <= Len(s)
         /\ NoDuplicates(s) => Cardinality(Members(s)) = Len(s)
<1> DEFINE f == [i \in 1 .. Len(s) |-> s[i]]
<1>1. Len(s) \in Nat /\ DOMAIN s = 1 .. Len(s) OBVIOUS
<1>2. IsFiniteSet(1 .. Len(s)) /\ Cardinality(1 .. Len(s)) = Len(s)
  BY <1>1, FS_Interval
<1>3. f \in [1 .. Len(s) -> Members(s)] BY <1>1 DEF Members
<1>4. \A e \in Members(s) : \E i \in 1 .. Len(s) : f[i] = e BY <1>1 DEF Members
<1>5. f \in Surjection(1 .. Len(s), Members(s)) BY <1>3, <1>4, Fun_IsSurj
<1>6. NoDuplicates(s) => f \in Injection(1 .. Len(s), Members(s))
  <2> HAVE NoDuplicates(s)
  <2>1. \A i, j \in 1 .. Len(s) : f[i] = f[j] => i = j BY <1>1 DEF NoDuplicates
  <2> QED BY <1>3, <2>1, Fun_IsInj
<1> QED BY <1>2, <1>5, <1>6, FS_Surjection

-----------------------------------------------------------------------------
\* Induction, with a set in the place of a predicate
LEMMA Inductive ==
  ASSUME NEW S, 0 \in S, \A n \in Nat : n \in S => n + 1 \in S
  PROVE  Nat \subseteq S
<1> SUFFICES ASSUME Nat \ S # {} PROVE FALSE OBVIOUS
<1>1. PICK x : x \in Nat \ S /\ \A y \in Nat \ S : x <= y
  <2>1. Min(Nat \ S) \in Nat \ S /\ \A y \in Nat \ S : Min(Nat \ S) <= y BY LeastIndex
  <2> QED BY <2>1
<1>2. x - 1 \in Nat BY <1>1
<1>3. x - 1 \in S BY <1>1, <1>2
<1> QED BY <1>1, <1>2, <1>3

\* Below(n, T): a value of T[m] for each number m below n; Upto(f, n): the values f has there.
Below(n, T) == {g \in [0..(n - 1) -> UNION {T[m] : m \in 0..(n - 1)}] : \A m \in 0..(n - 1) : g[m] \in T[m]}
Upto(f, n) == [k \in 0..(n - 1) |-> f[k]]

\* step[n] makes a value of T[n] from those below n, and f is what step defines from 0 to N.
Descends(N, T, step) == \A n \in 0..N : \A g \in Below(n, T) : step[n][g] \in T[n]
Recursive(f, N, T, step) == f \in Below(N + 1, T) /\ \A n \in 0..N : f[n] = step[n][Upto(f, n)]

\* A recursive function over 0..N is one: there is an f that is what step makes of its values below.
LEMMA Recursion ==
  ASSUME NEW N \in Nat, NEW T, NEW step, Descends(N, T, step)
  PROVE  \E f : Recursive(f, N, T, step)
<1>0. \A n \in 0..N : \A g \in Below(n, T) : step[n][g] \in T[n] BY DEF Descends
<1> DEFINE Good(f, n) == f \in Below(n, T) /\ \A m \in 0..(n - 1) : f[m] = step[m][[k \in 0..(m - 1) |-> f[k]]]
           S == {n \in Nat : n <= N + 1 => \E f : Good(f, n)}
<1>1. 0 \in S
  <2> DEFINE f == [k \in 0..(0 - 1) |-> 0]
  <2>1. f \in Below(0, T) BY DEF Below
  <2>2. Good(f, 0) BY <2>1
  <2> QED BY <2>2
<1>2. ASSUME NEW n \in Nat, n \in S PROVE n + 1 \in S
  <2> SUFFICES ASSUME n + 1 <= N + 1 PROVE \E f : Good(f, n + 1) OBVIOUS
  <2>1. PICK g : Good(g, n) BY <1>2
  <2> DEFINE f == [k \in 0..n |-> IF k = n THEN step[n][g] ELSE g[k]]
  <2>2. /\ g \in [0..(n - 1) -> UNION {T[m] : m \in 0..(n - 1)}]
        /\ \A m \in 0..(n - 1) : g[m] \in T[m]
    BY <2>1 DEF Below
  <2>3. step[n][g] \in T[n] BY <1>0, <2>1
  <2>4. \A m \in 0..n : f[m] \in T[m] BY <2>2, <2>3
  <2>5. f \in Below(n + 1, T)
    <3>1. n + 1 - 1 = n OBVIOUS
    <3>2. \A m \in 0..n : f[m] \in UNION {T[k] : k \in 0..n} BY <2>4
    <3>3. f \in [0..n -> UNION {T[k] : k \in 0..n}] BY <3>2
    <3>4. Below(n + 1, T) = {h \in [0..n -> UNION {T[m] : m \in 0..n}] : \A m \in 0..n : h[m] \in T[m]}
      BY <3>1 DEF Below
    <3> HIDE DEF f
    <3> QED BY <2>4, <3>3, <3>4
  <2>6. ASSUME NEW m \in 0..n PROVE f[m] = step[m][[k \in 0..(m - 1) |-> f[k]]]
    <3>1. [k \in 0..(m - 1) |-> f[k]] = [k \in 0..(m - 1) |-> g[k]] OBVIOUS
    <3>2. CASE m = n
      <4>1. [k \in 0..(m - 1) |-> g[k]] = g BY <2>2, <3>2
      <4> QED BY <3>1, <3>2, <4>1
    <3>3. CASE m # n
      <4>1. f[m] = g[m] /\ m \in 0..(n - 1) BY <3>3
      <4>2. g[m] = step[m][[k \in 0..(m - 1) |-> g[k]]] BY <2>1, <4>1
      <4> QED BY <3>1, <4>1, <4>2
    <3> QED BY <3>2, <3>3
  <2> HIDE DEF f
  <2> QED BY <2>5, <2>6
<1> HIDE DEF S
<1>3. Nat \subseteq S BY <1>1, <1>2, Inductive
<1>4. N + 1 \in S BY <1>3
<1>5. PICK f : Good(f, N + 1) BY <1>4 DEF S
<1>6. N + 1 - 1 = N OBVIOUS
<1> QED BY <1>5, <1>6 DEF Upto, Recursive

\* What Below says of the values.
LEMMA BelowIs ==
  ASSUME NEW N \in Nat, NEW T, NEW f \in Below(N + 1, T)
  PROVE  DOMAIN f = 0..N /\ f = [n \in 0..N |-> f[n]] /\ \A n \in 0..N : f[n] \in T[n]
<1>1. N + 1 - 1 = N OBVIOUS
<1> QED BY <1>1 DEF Below

=============================================================================
