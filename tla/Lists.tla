-------------------------------- MODULE Lists --------------------------------
(***************************************************************************)
(* CList (src/src/Classes.cpp), a list of pointers somebody else owns, and *)
(* TList (src/include/delphi/Templates.hpp), a list that owns a copy of    *)
(* each of its items.  The operations work on cells (ListOps); every one   *)
(* is shown to be an operation on a sequence (ListSequence).               *)
(* Left out: Notify, which no list overrides, and TList::Move, which       *)
(* nothing calls (it closes the old place and opens no new one, so it      *)
(* loses an item).                                                         *)
(***************************************************************************)
EXTENDS ListOps, SequencesExt, FiniteSets

CONSTANTS Values,     \* the items; for a CList, Nil as well
          MaxCount,   \* bound: the longest list
          SourceCount \* items of the other list of Assign

ASSUME ListAssumption == Values \subseteq Nat \ {Nil} /\ MaxCount \in Nat /\ SourceCount \in Nat

VARIABLES kind,       \* "CList" or "TList"
          list,       \* m_pList, m_nCapacity, m_nCount
          heap,       \* TList: the live copies, by address
          source,     \* the other list of Assign
          listResult  \* what the last call returned

listVars == <<kind, list, heap, source, listResult>>

Item(l, h, i) ==
  IF kind = "CList" THEN l.cells[i]
  ELSE IF l.cells[i] \in DOMAIN h THEN h[l.cells[i]]
  ELSE IF l.cells[i] = Nil THEN Nil ELSE Junk
Sequence == [i \in 1..list.count |-> Item(list, heap, i - 1)]

-----------------------------------------------------------------------------
(* CList.                                                                  *)

ListAdd(l, x) == LET e == Expand(l) IN [e EXCEPT !.cells[e.count] = x, !.count = @ + 1]
ListInsert(l, i, x) == [OpenCell(l, i) EXCEPT !.cells[i] = x]
ListDelete(l, i) == CloseCell(l, i)
ListPut(l, i, x) == [l EXCEPT !.cells[i] = x]
ListIndexOf(l, x) ==
  IF \E i \in 0..(l.count - 1) : l.cells[i] = x
  THEN CHOOSE i \in 0..(l.count - 1) : l.cells[i] = x /\ \A j \in 0..(i - 1) : l.cells[j] # x
  ELSE -1
ListMove(l, i, j) ==
  IF i = j THEN l ELSE ListPut(ListInsert(ListDelete(ListPut(l, i, Nil), i), j, Nil), j, l.cells[i])
ListRemove(l, x) == IF ListIndexOf(l, x) >= 0 THEN ListDelete(l, ListIndexOf(l, x)) ELSE l
\* Remove, or Extract of an item that is there.
ListExtract(l, x) ==
  IF ListIndexOf(l, x) >= 0 THEN ListDelete(ListPut(l, ListIndexOf(l, x), Nil), ListIndexOf(l, x)) ELSE l

\* Delete, from the last index down, of the items of a set.
DeleteItems(l, drop) ==
  LET left[n \in 0..l.count] ==
        IF n = 0 THEN l
        ELSE LET w == left[n - 1]
             IN  IF w.cells[l.count - n] \in drop THEN ListDelete(w, l.count - n) ELSE w
  IN  left[l.count]
ListPack(l) == DeleteItems(l, {Nil})

ListSetCount(l, n) ==
  LET e == IF n > l.capacity THEN SetCapacity(l, n) ELSE l
  IN  [e EXCEPT !.count = n,
                !.cells = [i \in DOMAIN @ |-> IF i >= n THEN Junk ELSE IF i >= l.count THEN Nil ELSE @[i]]]
ListClear(l) == SetCapacity(ListSetCount(l, 0), 0)
ListSort(l) == IF l.count > 0 THEN QuickSort(l, [v \in Values \cup {Nil} |-> v]) ELSE l

AddAll(l, s) ==
  LET more[n \in 0..Len(s)] == IF n = 0 THEN l ELSE ListAdd(more[n - 1], s[n])
  IN  more[Len(s)]
AddMissing(l, s) ==
  LET more[n \in 0..Len(s)] ==
        IF n = 0 THEN l
        ELSE LET w == more[n - 1] IN IF ListIndexOf(w, s[n]) = -1 THEN ListAdd(w, s[n]) ELSE w
  IN  more[Len(s)]
\* LTemp: the source's items that this list has not, in an order of the source.
Missing(l, s) ==
  LET temp[n \in 0..Len(s)] ==
        IF n = 0 THEN << >>
        ELSE IF ListIndexOf(l, s[n]) = -1 THEN Append(temp[n - 1], s[n])
        ELSE temp[n - 1]
  IN  temp[Len(s)]

ListCopy(s, capacity) == AddAll(SetCapacity(NewList, capacity), s)
AtLeast(l, n) == IF l.capacity < n THEN SetCapacity(l, n) ELSE l
ListXor(l, s) ==
  LET kept == DeleteItems(l, ToSet(s))
      temp == Missing(l, s)
  IN  AddAll(AtLeast(kept, kept.count + Len(temp)), temp)

ListAssign(op, l, s) ==
  CASE op = "laCopy"       -> ListCopy(s, Len(s))
    [] op = "laAnd"        -> DeleteItems(l, (Values \cup {Nil}) \ ToSet(s))
    [] op = "laOr"         -> AddMissing(l, s)
    [] op = "laXor"        -> ListXor(l, s)
    [] op = "laSrcUnique"  -> DeleteItems(l, ToSet(s))
    [] op = "laDestUnique" -> ListCopy(Missing(l, Reverse(s)), Len(s))

-----------------------------------------------------------------------------
(* TList: st is the list with the heap its copies are in.                  *)

FreeAddress(h) == Min((1..(Cardinality(DOMAIN h) + 1)) \ DOMAIN h)
Allocate(h, v) == [a \in DOMAIN h \cup {FreeAddress(h)} |-> IF a \in DOMAIN h THEN h[a] ELSE v]
\* delete of a null pointer does nothing
Release(h, a) == [b \in DOMAIN h \ {a} |-> h[b]]

TInsert(st, i, v) ==
  [list |-> [OpenCell(st.list, i) EXCEPT !.cells[i] = FreeAddress(st.heap)], heap |-> Allocate(st.heap, v)]
TAdd(st, v) == TInsert([st EXCEPT !.list = Expand(@)], st.list.count, v)
TDelete(st, i) == [list |-> CloseCell(st.list, i), heap |-> Release(st.heap, st.list.cells[i])]
\* Items(Index, Value) assigns to the copy that is there.
TPutItem(st, i, v) == [st EXCEPT !.heap[st.list.cells[i]] = v]
TIndexOf(st, v) ==
  IF \E i \in 0..(st.list.count - 1) : st.heap[st.list.cells[i]] = v
  THEN CHOOSE i \in 0..(st.list.count - 1) :
         st.heap[st.list.cells[i]] = v /\ \A j \in 0..(i - 1) : st.heap[st.list.cells[j]] # v
  ELSE -1
TRemove(st, v) == IF TIndexOf(st, v) >= 0 THEN TDelete(st, TIndexOf(st, v)) ELSE st
\* Extract hands the copy over; the caller of this model releases it.
TExtract(st, a) ==
  LET i == ListIndexOf(st.list, a)
  IN  [list |-> CloseCell([st.list EXCEPT !.cells[i] = Nil], i), heap |-> Release(st.heap, a)]

TDeleteItems(st, drop) ==
  LET left[n \in 0..st.list.count] ==
        IF n = 0 THEN st
        ELSE LET w == left[n - 1]
             IN  IF w.heap[w.list.cells[st.list.count - n]] \in drop THEN TDelete(w, st.list.count - n) ELSE w
  IN  left[st.list.count]
\* Mutant of TShrink: the copies past the new count are forgotten, not deleted.
TShrinkForgets(st, n) == [st EXCEPT !.list = ListSetCount(@, n)]
\* SetCount to fewer items (with more the new cells would be null and Items would follow them).
TShrink(st, n) ==
  IF n < st.list.count
  THEN [list |-> ListSetCount(st.list, n),
        heap |-> [a \in DOMAIN st.heap \ {st.list.cells[i] : i \in n..(st.list.count - 1)} |-> st.heap[a]]]
  ELSE st
TClear(st) == [TShrink(st, 0) EXCEPT !.list = SetCapacity(@, 0)]
TSort(st) == [st EXCEPT !.list = IF @.count > 0 THEN QuickSort(@, st.heap) ELSE @]

TAddAll(st, s) ==
  LET more[n \in 0..Len(s)] == IF n = 0 THEN st ELSE TAdd(more[n - 1], s[n])
  IN  more[Len(s)]
TAddMissing(st, s) ==
  LET more[n \in 0..Len(s)] ==
        IF n = 0 THEN st
        ELSE LET w == more[n - 1] IN IF TIndexOf(w, s[n]) = -1 THEN TAdd(w, s[n]) ELSE w
  IN  more[Len(s)]
TCopy(st, s, capacity) == TAddAll([TClear(st) EXCEPT !.list = SetCapacity(@, capacity)], s)
TMissing(st, s) ==
  LET temp[n \in 0..Len(s)] ==
        IF n = 0 THEN << >>
        ELSE IF TIndexOf(st, s[n]) = -1 THEN Append(temp[n - 1], s[n])
        ELSE temp[n - 1]
  IN  temp[Len(s)]
TXor(st, s) ==
  LET kept == TDeleteItems(st, ToSet(s))
      temp == TMissing(st, s)
  IN  TAddAll([kept EXCEPT !.list = AtLeast(@, @.count + Len(temp))], temp)

TAssign(op, st, s) ==
  CASE op = "laCopy"       -> TCopy(st, s, Len(s))
    [] op = "laAnd"        -> TDeleteItems(st, Values \ ToSet(s))
    [] op = "laOr"         -> TAddMissing(st, s)
    [] op = "laXor"        -> TXor(st, s)
    [] op = "laSrcUnique"  -> TDeleteItems(st, ToSet(s))
    [] op = "laDestUnique" -> TCopy(st, TMissing(st, Reverse(s)), Len(s))

-----------------------------------------------------------------------------
(* The calls.                                                              *)

Owned == [list |-> list, heap |-> heap]
Becomes(c, t, r) ==
  /\ list' = IF kind = "CList" THEN c ELSE t.list
  /\ heap' = IF kind = "CList" THEN heap ELSE t.heap
  /\ list'.count <= MaxCount
  /\ listResult' = r
  /\ UNCHANGED <<kind, source>>
\* a TList holds no null pointers
Storable == IF kind = "CList" THEN Values \cup {Nil} ELSE Values
Room     == list.count < MaxCount

CallAdd    == Room /\ \E x \in Storable : Becomes(ListAdd(list, x), TAdd(Owned, x), list.count)
CallInsert == Room /\ \E i \in 0..list.count, x \in Storable :
            Becomes(ListInsert(list, i, x), TInsert(Owned, i, x), i)
CallDelete == \E i \in 0..(list.count - 1) : Becomes(ListDelete(list, i), TDelete(Owned, i), i)
CallPut    == \E i \in 0..(list.count - 1), x \in Storable :
            Becomes(ListPut(list, i, x), TPutItem(Owned, i, x), i)
CallSwap   == \E i, j \in 0..(list.count - 1) :
            Becomes(Exchange(list, i, j), [Owned EXCEPT !.list = Exchange(list, i, j)], i)
CallMove   == kind = "CList" /\ \E i, j \in 0..(list.count - 1) : Becomes(ListMove(list, i, j), Owned, j)
CallRemove == \E x \in Storable :
            Becomes(ListRemove(list, x), TRemove(Owned, x),
                    IF kind = "CList" THEN ListIndexOf(list, x) ELSE TIndexOf(Owned, x))
CallExtract == \E i \in 0..(list.count - 1) :
             LET x == list.cells[i] IN
             Becomes(ListExtract(list, x), TExtract(Owned, x), ListIndexOf(list, x))
CallSetCount == \E n \in 0..(IF kind = "CList" THEN MaxCount ELSE list.count) :
              Becomes(ListSetCount(list, n), TShrink(Owned, n), n)
CallClear  == Becomes(ListClear(list), TClear(Owned), 0)
CallPack   == Becomes(ListPack(list), Owned, ListPack(list).count)
CallSort   == Becomes(ListSort(list), TSort(Owned), list.count)
CallReserve == \E n \in list.count..MaxCount :
             Becomes(SetCapacity(list, n), [Owned EXCEPT !.list = SetCapacity(@, n)], list.count)
CallAssign == \E op \in {"laCopy", "laAnd", "laOr", "laXor", "laSrcUnique", "laDestUnique"} :
            LET c == IF kind = "CList" THEN ListAssign(op, list, source) ELSE list
                t == IF kind = "TList" THEN TAssign(op, Owned, source) ELSE Owned
            IN  Becomes(c, t, IF kind = "CList" THEN c.count ELSE t.list.count)
\* Any call with an index outside the list.
IndexError == listResult' = Throws /\ UNCHANGED <<kind, list, heap, source>>

ListInit ==
  /\ kind \in {"CList", "TList"}
  /\ list = NewList
  /\ heap = [a \in {} |-> Junk]
  /\ source \in [1..SourceCount -> Values]
  /\ listResult = 0

ListNext ==
  \/ CallAdd \/ CallInsert \/ CallDelete \/ CallPut \/ CallSwap \/ CallMove \/ CallRemove \/ CallExtract \/ CallSetCount
  \/ CallClear \/ CallPack \/ CallSort \/ CallReserve \/ CallAssign \/ IndexError

ListSpec == ListInit /\ [][ListNext]_listVars

-----------------------------------------------------------------------------
Abstract == INSTANCE ListSequence
  WITH seq <- Sequence, result <- listResult, Items <- Values \cup {Nil}

\* Every call of a CList or a TList changes the sequence of its items, and
\* returns, what the same operation on a sequence would: no item is lost,
\* repeated or replaced by unwritten memory when a list grows, shrinks, is
\* sorted or is merged with another.
ListIsSequence == [][Abstract!Next(source)]_<<Sequence, listResult>>

\* A TList owns its copies: each live copy is in the list exactly once, and
\* the list points at nothing that was deleted.
CopiesOwnedOnce ==
  kind = "TList" =>
    /\ DOMAIN heap = {list.cells[i] : i \in 0..(list.count - 1)}
    /\ Cardinality(DOMAIN heap) = list.count
=============================================================================
