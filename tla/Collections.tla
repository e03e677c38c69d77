---------------------------- MODULE Collections ----------------------------
(***************************************************************************)
(* CCollection and CCollectionItem (src/src/Classes.cpp): a collection     *)
(* lists the items that name it as their collection, and an item finds its *)
(* way in and out by itself, in its constructor, its destructor and        *)
(* Collection(...).  CQueue (src/src/Queue.cpp) is a collection of items   *)
(* that each hold the work of one key.  Left out: Items(Index, Value),     *)
(* which replaces a pointer behind the item's back and which nothing       *)
(* calls, and the update counter, which only delays a notification.        *)
(***************************************************************************)
EXTENDS Lists

CONSTANTS Groups,       \* the collections
          NoGroup,      \* m_Collection == nullptr
          Handles,      \* item addresses, numbered from 1
          Keys,         \* the queues of a CQueue, by the pointer that names them
          Work,         \* what is queued
          MaxId,        \* bound: identifiers a collection hands out
          MaxWork       \* bound: entries of a queue

\* Pointers are numbers: nullptr is no item and names no queue.
ASSUME CollAssumption ==
  /\ Handles \subseteq Nat \ {Nil} /\ NoGroup \notin Groups
  /\ Nil \notin Keys /\ Work \subseteq Int

VARIABLES members,      \* m_Items of each collection
          nextId,       \* m_NextId
          items,        \* the live items: m_Collection, m_Id, m_pQueue, m_pItems
          asked         \* what FirstItem of each key must answer: the work in order

collVars == <<members, nextId, items, asked>>

Live(it) == it \in DOMAIN items

-----------------------------------------------------------------------------
(* One state of all the collections is [members, nextId, items]; the       *)
(* operations map one to the next.                                         *)

World == [members |-> members, nextId |-> nextId, items |-> items]
Set(w) == members' = w.members /\ nextId' = w.nextId /\ items' = w.items

\* CCollection::InsertItem
InsertMember(w, g, it) ==
  [w EXCEPT !.members[g] = ListAdd(@, it), !.nextId[g] = @ + 1,
            !.items[it] = [@ EXCEPT !.group = g, !.id = w.nextId[g]]]

\* CCollection::RemoveItem: the last place is tried first.
RemoveMember(w, g, it) ==
  LET l == w.members[g]
  IN  [w EXCEPT !.members[g] = IF l.cells[l.count - 1] = it THEN ListDelete(l, l.count - 1)
                                                            ELSE ListRemove(l, it),
                !.items[it].group = NoGroup]

SetCollection(w, it, g) ==
  LET from == w.items[it].group
      out  == IF from # g /\ from # NoGroup THEN RemoveMember(w, from, it) ELSE w
  IN  IF from # g /\ g # NoGroup THEN InsertMember(out, g, it) ELSE out

FreshItem(w) == Min(Handles \ DOMAIN w.items)
\* The constructor of an item, with a CQueueItem's key and list.
NewItem(w, g, key) ==
  LET it == FreshItem(w)
      born == [w EXCEPT !.items = [o \in DOMAIN @ \cup {it} |-> IF o # it THEN @[o] ELSE
                 [group |-> NoGroup, id |-> 0, key |-> key, work |-> NewList]]]
  IN  SetCollection(born, it, g)
\* The destructor.
DeleteItem(w, it) ==
  LET left == SetCollection(w, it, NoGroup)
  IN  [left EXCEPT !.items = [o \in DOMAIN @ \ {it} |-> @[o]]]

ClearGroup(w, g) ==
  LET left[n \in 0..w.members[g].count] ==
        IF n = 0 THEN w
        ELSE LET v == left[n - 1] IN DeleteItem(v, v.members[g].cells[v.members[g].count - 1])
  IN  left[w.members[g].count]

IndexOfItem(w, it) == IF w.items[it].group = NoGroup THEN -1 ELSE ListIndexOf(w.members[w.items[it].group], it)
SetIndex(w, it, i) ==
  IF IndexOfItem(w, it) \in {-1, i} THEN w
  ELSE [w EXCEPT !.members[w.items[it].group] = ListMove(@, IndexOfItem(w, it), i)]
FindItemId(w, g, id) ==
  LET l == w.members[g] IN
  IF \E i \in 0..(l.count - 1) : w.items[l.cells[i]].id = id
  THEN l.cells[CHOOSE i \in 0..(l.count - 1) :
                 w.items[l.cells[i]].id = id /\ \A j \in 0..(i - 1) : w.items[l.cells[j]].id # id]
  ELSE Nil

-----------------------------------------------------------------------------
(* CQueue.                                                                 *)

QueueIndexOf(w, g, key) ==
  LET l == w.members[g] IN
  IF \E i \in 0..(l.count - 1) : w.items[l.cells[i]].key = key
  THEN CHOOSE i \in 0..(l.count - 1) :
         w.items[l.cells[i]].key = key /\ \A j \in 0..(i - 1) : w.items[l.cells[j]].key # key
  ELSE -1
QueueItem(w, g, key) == w.members[g].cells[QueueIndexOf(w, g, key)]
WithQueue(w, g, key) == IF QueueIndexOf(w, g, key) = -1 THEN NewItem(w, g, key) ELSE w

AddToQueue(w, g, key, p) ==
  LET q == WithQueue(w, g, key) IN [q EXCEPT !.items[QueueItem(q, g, key)].work = ListAdd(@, p)]
InsertToQueue(w, g, key, i, p) ==
  LET q == WithQueue(w, g, key) IN [q EXCEPT !.items[QueueItem(q, g, key)].work = ListInsert(@, i, p)]
\* Mutant of RemoveFromQueue: an emptied queue is kept.
RemoveFromQueueKeeps(w, g, key, p) ==
  IF QueueIndexOf(w, g, key) = -1 THEN w
  ELSE [w EXCEPT !.items[QueueItem(w, g, key)].work = ListRemove(@, p)]
RemoveFromQueue(w, g, key, p) ==
  IF QueueIndexOf(w, g, key) = -1 THEN w
  ELSE LET it   == QueueItem(w, g, key)
           left == [w EXCEPT !.items[it].work = ListRemove(@, p)]
       IN  IF left.items[it].work.count = 0 THEN DeleteItem(left, it) ELSE left
FirstItem(w, g, key) ==
  IF QueueIndexOf(w, g, key) = -1 THEN Nil
  ELSE LET l == w.items[QueueItem(w, g, key)].work IN IF l.count > 0 THEN l.cells[0] ELSE Nil
CountItems(w, g, key) ==
  IF QueueIndexOf(w, g, key) = -1 THEN 0 ELSE w.items[QueueItem(w, g, key)].work.count

-----------------------------------------------------------------------------
(* The calls: plain items carry no key, and only queue items are emptied   *)
(* through the queue.                                                      *)

Plain == Nil
Spare(g) == DOMAIN items # Handles /\ nextId[g] < MaxId
Plainly(it) == items[it].key = Plain

CreateItem == \E g \in Groups : Spare(g) /\ Set(NewItem(World, g, Plain)) /\ UNCHANGED asked
DestroyItem == \E it \in DOMAIN items : Plainly(it) /\ Set(DeleteItem(World, it)) /\ UNCHANGED asked
SwitchItem == \E it \in DOMAIN items, g \in Groups \cup {NoGroup} :
  /\ Plainly(it) /\ (g # NoGroup => nextId[g] < MaxId)
  /\ Set(SetCollection(World, it, g))
  /\ UNCHANGED asked
MoveMember == \E it \in DOMAIN items :
  /\ items[it].group # NoGroup
  /\ \E i \in 0..(members[items[it].group].count - 1) : Set(SetIndex(World, it, i))
  /\ UNCHANGED asked
ClearMembers == \E g \in Groups :
  Set(ClearGroup(World, g)) /\ asked' = [asked EXCEPT ![g] = [k \in Keys |-> << >>]]

QueueWork == \E g \in Groups, k \in Keys, p \in Work :
  /\ Len(asked[g][k]) < MaxWork
  /\ asked[g][k] = << >> => Spare(g)
  /\ Set(AddToQueue(World, g, k, p))
  /\ asked' = [asked EXCEPT ![g][k] = Append(@, p)]
QueueWorkAt == \E g \in Groups, k \in Keys, p \in Work : \E i \in 0..Len(asked[g][k]) :
  /\ Len(asked[g][k]) < MaxWork
  /\ asked[g][k] = << >> => Spare(g)
  /\ Set(InsertToQueue(World, g, k, i, p))
  /\ asked' = [asked EXCEPT ![g][k] = InsertAt(@, i + 1, p)]
DropWork == \E g \in Groups, k \in Keys, p \in Work :
  /\ Set(RemoveFromQueue(World, g, k, p))
  /\ asked' = [asked EXCEPT ![g][k] =
       IF \E i \in 1..Len(@) : @[i] = p
       THEN RemoveAt(@, CHOOSE i \in 1..Len(@) : @[i] = p /\ \A j \in 1..(i - 1) : @[j] # p) ELSE @]

CollInit ==
  /\ members = [g \in Groups |-> NewList]
  /\ nextId = [g \in Groups |-> 0]
  /\ items = [it \in {} |-> Nil]
  /\ asked = [g \in Groups |-> [k \in Keys |-> << >>]]
CollNext ==
  \/ CreateItem \/ DestroyItem \/ SwitchItem \/ MoveMember \/ ClearMembers
  \/ QueueWork \/ QueueWorkAt \/ DropWork

CollSpec == CollInit /\ [][CollNext]_collVars

-----------------------------------------------------------------------------
\* An item is in the list of the collection it names, once, and in no other;
\* nothing in a list was destroyed, and the identifier of an item in its
\* collection finds that item.
MembersAgree ==
  \A g \in Groups :
    LET l == members[g] IN
    /\ ToSet(Contents(l)) = {it \in DOMAIN items : items[it].group = g}
    /\ IsInjective(Contents(l))
    /\ \A it \in ToSet(Contents(l)) : FindItemId(World, g, items[it].id) = it

\* A CQueue keeps the work of each key in the order it was put there,
\* whatever is queued, moved or removed under the other keys; a key with no
\* work has no item, so the count of the queue is that of the keys with work.
QueuesKeepOrder ==
  \A g \in Groups :
    /\ \A k \in Keys :
         /\ CountItems(World, g, k) = Len(asked[g][k])
         /\ FirstItem(World, g, k) = IF asked[g][k] = << >> THEN Nil ELSE Head(asked[g][k])
         /\ asked[g][k] # << >> => Contents(items[QueueItem(World, g, k)].work) = asked[g][k]
    /\ Cardinality({it \in ToSet(Contents(members[g])) : ~Plainly(it)}) =
         Cardinality({k \in Keys : asked[g][k] # << >>})

\* Collections and the queues made of them hold what they were given, in order.
CollectionsAgree == MembersAgree /\ QueuesKeepOrder
=============================================================================
