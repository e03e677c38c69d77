------------------------------- MODULE ListOps -------------------------------
(***************************************************************************)
(* The array of pointers under CList (src/src/Classes.cpp) and TList       *)
(* (src/include/delphi/Templates.hpp), and the operations both make on it. *)
(* A list is its block of cells, the capacity it was allocated with and    *)
(* the number of cells in use.  Indices start at 0.  The cells past the    *)
(* count hold Junk, whatever was left there: an operation that reads one   *)
(* puts Junk among the items, where the properties see it.                 *)
(***************************************************************************)
EXTENDS Integers, Sequences

Nil    == 0     \* nullptr
Junk   == -1    \* memory nobody has written
Throws == -2    \* the operation threw and returned nothing

NewList == [cells |-> [i \in {} |-> Junk], capacity |-> 0, count |-> 0]

InRange(l, i) == i >= 0 /\ i < l.count

Contents(l) == [i \in 1..l.count |-> l.cells[i - 1]]

MoveMemory(l, to, from, n) ==
  [l EXCEPT !.cells = [i \in DOMAIN @ |-> IF i \in to..(to + n - 1) THEN @[from + i - to] ELSE @[i]]]

\* A reallocation keeps the cells that fit.
SetCapacity(l, n) ==
  [l EXCEPT !.capacity = n,
            !.cells = [i \in 0..(n - 1) |-> IF i < l.capacity THEN @[i] ELSE Junk]]

GrowDelta(capacity) ==
  IF capacity > 64 THEN capacity \div 4 ELSE IF capacity > 8 THEN 16 ELSE 4

Expand(l) ==
  IF l.count = l.capacity THEN SetCapacity(l, l.capacity + GrowDelta(l.capacity)) ELSE l

\* The cell at Index is opened (by moving the rest up) or closed (by moving it down).
OpenCell(l, i) ==
  LET e == Expand(l) IN [MoveMemory(e, i + 1, i, e.count - i) EXCEPT !.count = @ + 1]

\* Mutant of CloseCell: the move forgets the last item.
CloseCellShort(l, i) ==
  LET n == l.count - 1
  IN  [MoveMemory(l, i, i + 1, n - i - 1) EXCEPT !.count = n, !.cells[n] = Junk]
CloseCell(l, i) ==
  LET n == l.count - 1
  IN  [MoveMemory(l, i, i + 1, n - i) EXCEPT !.count = n, !.cells[n] = Junk]

Swapped(cells, i, j) == [cells EXCEPT ![i] = cells[j], ![j] = cells[i]]
Exchange(l, i, j) == [l EXCEPT !.cells = Swapped(@, i, j)]

-----------------------------------------------------------------------------
(* QuickSort, over the items' keys.                                        *)

\* One turn of the inner do-while on w = [cells, i, j]: the two scans and the swap.
Turn(w, key, pivot) ==
  LET Key(k) == key[w.cells[k]]
      up   == CHOOSE k \in DOMAIN w.cells : k >= w.i /\ Key(k) >= pivot /\ \A n \in w.i..(k - 1) : Key(n) < pivot
      down == CHOOSE k \in DOMAIN w.cells : k <= w.j /\ Key(k) <= pivot /\ \A n \in (k + 1)..w.j : Key(n) > pivot
  IN  IF up <= down THEN [cells |-> Swapped(w.cells, up, down), i |-> up + 1, j |-> down - 1]
                    ELSE [cells |-> w.cells, i |-> up, j |-> down]
\* Each turn brings the two ends nearer to each other, so that there is one for each cell at most.
Partition(cells, key, L, R) ==
  LET turns[n \in 0..(R - L + 1)] ==
        IF n = 0 THEN [cells |-> cells, i |-> L, j |-> R]
        ELSE LET w == turns[n - 1]
             IN  IF w.i > w.j THEN w ELSE Turn(w, key, key[cells[(L + R) \div 2]])
  IN  turns[R - L + 1]

\* sort[n][L][c] sorts the n cells of c from L on; c is what the used cells hold.
QuickSort(l, key) ==
  LET used  == 0..(l.count - 1)
      Cells == [used -> {l.cells[i] : i \in used}]
      sort[n \in 0..l.count] ==
        [L \in 0..(l.count - n) |-> [c \in Cells |->
           LET R    == L + n - 1
               part == Partition(c, key, L, R)
               left == IF L < part.j THEN sort[part.j - L + 1][L][part.cells] ELSE part.cells
           IN  IF part.i < R THEN sort[R - part.i + 1][part.i][left] ELSE left]]
      sorted == sort[l.count][0][[i \in used |-> l.cells[i]]]
  IN  [l EXCEPT !.cells = [i \in DOMAIN @ |-> IF i \in used THEN sorted[i] ELSE @[i]]]
=============================================================================
