---------------------------- MODULE ListSequence ----------------------------
(***************************************************************************)
(* What CList and TList promise: a finite sequence, numbered from 0.       *)
(* result is what the last call returned; Throws when it raised            *)
(* ExceptionFrm(SListIndexError), which leaves the list as it was.         *)
(***************************************************************************)
EXTENDS ListOps, SequencesExt

CONSTANTS Items,      \* what a list may hold, Nil included
          MaxCount    \* bound of the instance: the longest list

VARIABLES seq, result

Has(s, x) == \E i \in 1..Len(s) : s[i] = x
IndexIn(s, x) ==
  IF Has(s, x) THEN (CHOOSE i \in 1..Len(s) : s[i] = x /\ \A j \in 1..(i - 1) : s[j] # x) - 1 ELSE -1
\* The items of s at the indices of a set, in their order; this is one sequence.
Rising(I)     == {f \in [1..Cardinality(I) -> I] : \A j, k \in 1..Cardinality(I) : j < k => f[j] < f[k]}
Choice(s, I)  == {[k \in 1..Cardinality(I) |-> s[f[k]]] : f \in Rising(I)}
Only(s, t)    == Choice(s, {i \in 1..Len(s) : Has(t, s[i])})
Without(s, t) == Choice(s, {i \in 1..Len(s) : ~Has(t, s[i])})
\* Each item of s that is not in t, where it comes first.
Added(s, t)   == Choice(s, {i \in 1..Len(s) : ~Has(t, s[i]) /\ \A j \in 1..(i - 1) : s[j] # s[i]})

AddItem      == \E x \in Items : seq' = Append(seq, x) /\ result' = Len(seq)
InsertItem   == \E i \in 0..Len(seq), x \in Items : seq' = InsertAt(seq, i + 1, x) /\ result' = i
DeleteItem   == \E i \in 0..(Len(seq) - 1) : seq' = RemoveAt(seq, i + 1) /\ result' = i
PutItem      == \E i \in 0..(Len(seq) - 1), x \in Items : seq' = [seq EXCEPT ![i + 1] = x] /\ result' = i
ExchangeItem == \E i, j \in 1..Len(seq) :
                  seq' = [seq EXCEPT ![i] = seq[j], ![j] = seq[i]] /\ result' = i - 1
MoveItem     == \E i, j \in 1..Len(seq) :
                  seq' = InsertAt(RemoveAt(seq, i), j, seq[i]) /\ result' = j - 1
RemoveItem   == \E x \in Items :
                  /\ result' = IndexIn(seq, x)
                  /\ seq' = IF Has(seq, x) THEN RemoveAt(seq, IndexIn(seq, x) + 1) ELSE seq
ResizeTo     == \E n \in 0..MaxCount :
                  /\ seq' = [i \in 1..n |-> IF i <= Len(seq) THEN seq[i] ELSE Nil]
                  /\ result' = n
PackItems    == seq' \in Without(seq, <<Nil>>) /\ result' = Len(seq')
Orders(n)    == {p \in [1..n -> 1..n] : \A i, j \in 1..n : p[i] = p[j] => i = j}
SortItems    == \E p \in Orders(Len(seq)) :
                  /\ seq' = [i \in 1..Len(seq) |-> seq[p[i]]]
                  /\ \A i, j \in 1..Len(seq) : i < j => seq[p[i]] <= seq[p[j]]
                  /\ result' = Len(seq)

\* The operators of Assign, as the comments of its cases state them: laCopy,
\* laAnd, laOr, laXor, laSrcUnique and laDestUnique (in the order of the code).
Assigned(op, s, t) ==
  CASE op = "laCopy"       -> {t}
    [] op = "laAnd"        -> Only(s, t)
    [] op = "laOr"         -> {s \o u : u \in Added(t, s)}
    [] op = "laXor"        -> {u \o v : u \in Without(s, t), v \in Without(t, s)}
    [] op = "laSrcUnique"  -> Without(s, t)
    [] op = "laDestUnique" -> Without(Reverse(t), s)
AssignOps == {"laCopy", "laAnd", "laOr", "laXor", "laSrcUnique", "laDestUnique"}

AssignList(src) == \E op \in AssignOps : seq' \in Assigned(op, seq, src) /\ result' = Len(seq')
Refuse          == result' = Throws /\ UNCHANGED seq

Init == seq = << >> /\ result = 0
Next(src) ==
  \/ AddItem \/ InsertItem \/ DeleteItem \/ PutItem \/ ExchangeItem \/ MoveItem \/ RemoveItem
  \/ ResizeTo \/ PackItems \/ SortItems \/ AssignList(src) \/ Refuse
=============================================================================
