--------------------------- MODULE ChannelProofs ---------------------------
(***************************************************************************)
(* Proofs about the parts that carry a protocol on top of a connection:      *)
(* Sessions, for every set of connections and of identities and any number   *)
(* of sessions and of calls; SMTPClient, for every number of messages and of *)
(* recipients, whether or not a read may end inside of a reply, and whatever *)
(* the server says and the parser makes of it; CURLClient, for every finite  *)
(* set of sockets and any number of fetches.                                 *)
(***************************************************************************)
EXTENDS Sessions, SMTPClient, CURLClient, ListLemmas

\* Sessions

Link == [state : {"none", "open", "closed", "freed"}, object : Nat, identity : Identities \cup {NoLink}]
Session == [id : Nat, conn : Links, updates : Nat, identity : Identities, handlers : Seq(Nat)]

TypeOK ==
  /\ links \in [Links -> Link]
  /\ sessions \in Seq(Session)
  /\ born \in Nat
  /\ calls \in Seq([session : Nat, answered : BOOLEAN])
  /\ wired \in [Links -> SUBSET Nat]
  /\ misled \in BOOLEAN /\ wild \in BOOLEAN

\* No two sessions are the same object.
Apart(list) == \A i, j \in DOMAIN list : list[i].id = list[j].id => i = j
Numbered == Apart(sessions) /\ \A i \in DOMAIN sessions : sessions[i].id \in 1 .. born

\* A session and its connection have each other, and what a connection has is a session that has it.
Paired ==
  /\ \A i \in DOMAIN sessions : /\ links[sessions[i].conn].state = "open"
                                /\ links[sessions[i].conn].object = sessions[i].id
                                /\ sessions[i].updates = 0
  /\ \A l \in Links : links[l].object # NoSession =>
       \E i \in DOMAIN sessions : sessions[i].id = links[l].object /\ sessions[i].conn = l

\* The handlers of a session are of calls that were made for it and have not been answered, each once.
Pending(handlers, id) ==
  /\ NoDuplicates(handlers)
  /\ \A k \in DOMAIN handlers : /\ handlers[k] \in DOMAIN calls
                                /\ calls[handlers[k]].session = id
                                /\ ~calls[handlers[k]].answered
Awaited == \A i \in DOMAIN sessions : Pending(sessions[i].handlers, sessions[i].id)

SessionsInv == TypeOK /\ Numbered /\ Paired /\ Awaited /\ ~wild /\ ~misled

-----------------------------------------------------------------------------
(* Where a session is in the list *)

LEMMA PositionIs ==
  ASSUME NEW list \in Seq(Session), NEW id
  PROVE  /\ Position(list, id) = 0 \/ Position(list, id) \in DOMAIN list
         /\ Position(list, id) \in DOMAIN list => list[Position(list, id)].id = id
         /\ Position(list, id) = 0 => \A i \in DOMAIN list : list[i].id # id
<1> DEFINE I == {i \in 1 .. Len(list) : list[i].id = id}
<1>1. Position(list, id) = IF I # {} THEN Min(I) ELSE 0 BY DEF Position, SelectInSeq
<1>2. DOMAIN list = 1 .. Len(list) /\ Len(list) \in Nat OBVIOUS
<1>3. CASE I = {} BY <1>1, <1>2, <1>3
<1>4. CASE I # {}
  <2>1. I \subseteq Nat OBVIOUS
  <2>2. Min(I) \in I BY <1>4, <2>1, LeastIndex
  <2> QED BY <1>1, <1>2, <1>4, <2>2
<1> QED BY <1>3, <1>4

LEMMA PositionOf ==
  ASSUME NEW list \in Seq(Session), Apart(list), NEW i \in DOMAIN list, NEW id, id = list[i].id
  PROVE  Position(list, id) = i
BY PositionIs DEF Apart

LEMMA IdentityIs ==
  ASSUME NEW list \in Seq(Session), NEW who
  PROVE  FindByIdentity(list, who) = 0 \/ FindByIdentity(list, who) \in DOMAIN list
<1> DEFINE I == {i \in 1 .. Len(list) : list[i].identity = who}
<1>1. FindByIdentity(list, who) = IF I # {} THEN Min(I) ELSE 0 BY DEF FindByIdentity, SelectInSeq
<1>2. DOMAIN list = 1 .. Len(list) OBVIOUS
<1>3. I \subseteq Nat OBVIOUS
<1>4. I # {} => Min(I) \in I BY <1>3, LeastIndex
<1> QED BY <1>1, <1>2, <1>4

LEMMA ConnectionIs ==
  ASSUME NEW list \in Seq(Session), NEW l
  PROVE  FindByConnection(list, l) = 0 \/ FindByConnection(list, l) \in DOMAIN list
<1> DEFINE I == {i \in 1 .. Len(list) : list[i].conn = l}
<1>1. FindByConnection(list, l) = IF I # {} THEN Min(I) ELSE 0 BY DEF FindByConnection, SelectInSeq
<1>2. DOMAIN list = 1 .. Len(list) OBVIOUS
<1>3. I \subseteq Nat OBVIOUS
<1>4. I # {} => Min(I) \in I BY <1>3, LeastIndex
<1> QED BY <1>1, <1>2, <1>4

LEMMA MessageIs ==
  ASSUME NEW handlers \in Seq(Nat), NEW u, FindMessageById(handlers, u) # 0
  PROVE  /\ FindMessageById(handlers, u) \in DOMAIN handlers
         /\ handlers[FindMessageById(handlers, u)] = u
<1> DEFINE I == {i \in 1 .. Len(handlers) : handlers[i] = u}
<1>1. FindMessageById(handlers, u) = IF I # {} THEN Min(I) ELSE 0 BY DEF FindMessageById, SelectInSeq
<1>2. DOMAIN handlers = 1 .. Len(handlers) OBVIOUS
<1>3. I \subseteq Nat OBVIOUS
<1>4. I # {} => Min(I) \in I BY <1>3, LeastIndex
<1> QED BY <1>1, <1>2, <1>4

-----------------------------------------------------------------------------
(* What the operations do to w *)

Holding == [links : [Links -> Link], sessions : Seq(Session), wild : BOOLEAN]

\* The lists hold the same sessions at the same places.
Same(new, old) == Len(new) = Len(old) /\ \A k \in DOMAIN old : new[k] = old[k]
Others(new, old, l) == \A m \in Links \ {l} : new[m] = old[m]

LEMMA Attached ==
  ASSUME NEW w \in Holding, NEW l \in Links, NEW id \in Nat, NEW r, r = AddToConnection(w, l, id)
  PROVE  /\ r \in Holding /\ r.sessions = w.sessions /\ r.wild = w.wild
         /\ r.links[l].state = w.links[l].state /\ r.links[l].object = id
         /\ Others(r.links, w.links, l)
<1>1. l # NoLink BY NoLinkAssumption
<1>2. PICK f : f = [w.links EXCEPT ![l].object = id] OBVIOUS
<1>3. r = [w EXCEPT !.links = f] BY <1>1, <1>2 DEF AddToConnection
<1>4. w.links \in [Links -> Link] BY DEF Holding
<1>5. f \in [Links -> Link] /\ f[l].state = w.links[l].state /\ f[l].object = id /\ Others(f, w.links, l)
  BY <1>2, <1>4 DEF Link, Others
<1> QED BY <1>3, <1>5 DEF Holding

LEMMA Detached ==
  ASSUME NEW w \in Holding, NEW l \in Links, w.links[l].state # "freed", NEW r, r = DeleteFromConnection(w, l)
  PROVE  /\ r \in Holding /\ r.sessions = w.sessions /\ r.wild = w.wild
         /\ r.links[l].state = w.links[l].state /\ r.links[l].object = NoSession
         /\ Others(r.links, w.links, l)
<1>1. l # NoLink BY NoLinkAssumption
<1>2. PICK f : f = [w.links EXCEPT ![l].object = NoSession] OBVIOUS
<1>3. r = [w EXCEPT !.links = f, !.wild = w.wild \/ w.links[l].state = "freed"]
  BY <1>1, <1>2 DEF DeleteFromConnection, Holding
<1>4. w.links \in [Links -> Link] /\ w.wild \in BOOLEAN BY DEF Holding
<1>5. f \in [Links -> Link] /\ f[l].state = w.links[l].state /\ f[l].object = NoSession /\ Others(f, w.links, l)
  BY <1>2, <1>4 DEF Link, Others, NoSession
<1>6. (w.wild \/ w.links[l].state = "freed") = w.wild BY <1>4
<1>7. r.wild = (w.wild \/ w.links[l].state = "freed") BY <1>3 DEF Holding
<1>8. r.links = f /\ r.sessions = w.sessions /\ r \in Holding BY <1>3, <1>4, <1>5, <1>6 DEF Holding
<1> QED BY <1>5, <1>6, <1>7, <1>8

\* Disconnected, but for what the application does
ClosesLink(w, l) == [w EXCEPT !.links[l].state = "closed"]

LEMMA Closed ==
  ASSUME NEW w \in Holding, NEW l \in Links, NEW r, r = ClosesLink(w, l)
  PROVE  /\ r \in Holding /\ r.sessions = w.sessions /\ r.wild = w.wild
         /\ r.links[l].state = "closed" /\ r.links[l].object = w.links[l].object
         /\ Others(r.links, w.links, l)
<1>2. PICK f : f = [w.links EXCEPT ![l].state = "closed"] OBVIOUS
<1>3. r = [w EXCEPT !.links = f] BY <1>2 DEF ClosesLink
<1>4. w.links \in [Links -> Link] BY DEF Holding
<1>5. f \in [Links -> Link] /\ f[l].state = "closed" /\ f[l].object = w.links[l].object /\ Others(f, w.links, l)
  BY <1>2, <1>4 DEF Link, Others
<1> QED BY <1>3, <1>5 DEF Holding

\* What stays of a session that is held, or has another connection
Like(new, old) == new.id = old.id /\ new.identity = old.identity /\ new.handlers = old.handlers
Elsewhere(new, old, i) == Len(new) = Len(old) /\ \A k \in DOMAIN old \ {i} : new[k] = old[k]

LEMMA Updated ==
  ASSUME NEW w \in Holding, NEW id, NEW n \in Nat, NEW i \in DOMAIN w.sessions, i = Position(w.sessions, id),
         NEW r, r = Update(w, id, n)
  PROVE  /\ r \in Holding /\ r.links = w.links /\ r.wild = w.wild
         /\ Elsewhere(r.sessions, w.sessions, i)
         /\ Like(r.sessions[i], w.sessions[i])
         /\ r.sessions[i].conn = w.sessions[i].conn /\ r.sessions[i].updates = n
<1>1. w.sessions \in Seq(Session) BY DEF Holding
<1>2. i # 0 BY <1>1
<1>3. PICK f : f = [w.sessions EXCEPT ![i].updates = n] OBVIOUS
<1>4. r = [w EXCEPT !.sessions = f] BY <1>2, <1>3 DEF Update
<1>5. w.sessions[i] \in Session BY <1>1
<1>6. PICK v : v = [w.sessions[i] EXCEPT !.updates = n] OBVIOUS
<1>7. v \in Session /\ Like(v, w.sessions[i]) /\ v.conn = w.sessions[i].conn /\ v.updates = n
  BY <1>5, <1>6 DEF Session, Like
<1>8. f = [w.sessions EXCEPT ![i] = v] BY <1>3, <1>6
<1>9. f \in Seq(Session) /\ Elsewhere(f, w.sessions, i) /\ f[i] = v
  BY <1>1, <1>7, <1>8, ExceptSeq DEF Elsewhere
<1> QED BY <1>4, <1>7, <1>9 DEF Holding

LEMMA LinkMoved ==
  ASSUME NEW w \in Holding, NEW id, NEW l \in Links, NEW i \in DOMAIN w.sessions, i = Position(w.sessions, id),
         NEW r, r = SetConnection(w, id, l)
  PROVE  /\ r \in Holding /\ r.links = w.links /\ r.wild = w.wild
         /\ Elsewhere(r.sessions, w.sessions, i)
         /\ Like(r.sessions[i], w.sessions[i])
         /\ r.sessions[i].conn = l /\ r.sessions[i].updates = w.sessions[i].updates
<1>1. w.sessions \in Seq(Session) BY DEF Holding
<1>2. i # 0 BY <1>1
<1>3. PICK f : f = [w.sessions EXCEPT ![i].conn = l] OBVIOUS
<1>4. r = [w EXCEPT !.sessions = f] BY <1>2, <1>3 DEF SetConnection
<1>5. w.sessions[i] \in Session BY <1>1
<1>6. PICK v : v = [w.sessions[i] EXCEPT !.conn = l] OBVIOUS
<1>7. v \in Session /\ Like(v, w.sessions[i]) /\ v.conn = l /\ v.updates = w.sessions[i].updates
  BY <1>5, <1>6 DEF Session, Like
<1>8. f = [w.sessions EXCEPT ![i] = v] BY <1>3, <1>6
<1>9. f \in Seq(Session) /\ Elsewhere(f, w.sessions, i) /\ f[i] = v
  BY <1>1, <1>7, <1>8, ExceptSeq DEF Elsewhere
<1> QED BY <1>4, <1>7, <1>9 DEF Holding

\* Sessions that are the same objects, where they were
LEMMA ElsewhereApart ==
  ASSUME NEW old \in Seq(Session), NEW new \in Seq(Session), NEW i \in DOMAIN old, Elsewhere(new, old, i),
         new[i].id = old[i].id
  PROVE  /\ DOMAIN new = DOMAIN old
         /\ \A k \in DOMAIN old : new[k].id = old[k].id
         /\ Apart(old) => Apart(new)
<1>1. DOMAIN new = DOMAIN old BY DEF Elsewhere
<1>2. \A k \in DOMAIN old : new[k].id = old[k].id BY DEF Elsewhere
<1> QED BY <1>1, <1>2 DEF Apart

\* A session that changes its connection is not deleted with the old one: it is held.
LEMMA Switched ==
  ASSUME NEW w \in Holding, Apart(w.sessions), NEW i \in DOMAIN w.sessions,
         NEW id, id = w.sessions[i].id, id # NoSession,
         NEW old \in Links, old = w.sessions[i].conn, w.links[old].state = "open", w.links[old].object = id,
         NEW l \in Links, l # old, NEW r, r = SwitchConnection(w, id, l)
  PROVE  /\ r \in Holding /\ r.wild = w.wild
         /\ r.links[old].state = "closed" /\ r.links[old].object = NoSession
         /\ r.links[l].state = w.links[l].state /\ r.links[l].object = id
         /\ \A m \in Links \ {old, l} : r.links[m] = w.links[m]
         /\ Elsewhere(r.sessions, w.sessions, i)
         /\ Like(r.sessions[i], w.sessions[i])
         /\ r.sessions[i].conn = l /\ r.sessions[i].updates = 0
<1>a. w.sessions \in Seq(Session) BY DEF Holding
<1>b. old # NoLink BY NoLinkAssumption
<1>c. w.sessions[i] \in Session /\ i # 0 BY <1>a
<1>d. id \in Nat BY <1>c DEF Session
<1>0. w.sessions \in Seq(Session) /\ old # NoLink /\ i # 0 /\ id \in Nat BY <1>a, <1>b, <1>c, <1>d
<1>1. Position(w.sessions, id) = i BY <1>0, PositionOf
<1>2. PICK h : h = Update(w, id, 1) OBVIOUS
<1>3. /\ h \in Holding /\ h.links = w.links /\ h.wild = w.wild
      /\ Elsewhere(h.sessions, w.sessions, i) /\ Like(h.sessions[i], w.sessions[i])
      /\ h.sessions[i].updates = 1
  BY <1>1, <1>2, Updated
<1>4. h.sessions \in Seq(Session) BY <1>3 DEF Holding
<1>5. DOMAIN h.sessions = DOMAIN w.sessions /\ Apart(h.sessions) /\ h.sessions[i].id = id
  BY <1>0, <1>3, <1>4, ElsewhereApart DEF Like
<1>6. Position(h.sessions, id) = i BY <1>4, <1>5, PositionOf
<1>7. PICK d : d = ClosesLink(h, old) OBVIOUS
<1>8. /\ d \in Holding /\ d.sessions = h.sessions /\ d.wild = h.wild
      /\ d.links[old].state = "closed" /\ Others(d.links, h.links, old)
  BY <1>3, <1>7, Closed
<1>9. Disconnected(h, old) = d
  <2>1. h.links[old].object = id /\ h.links[old].state = "open" BY <1>3
  <2>2. d.sessions[i].updates > 0 BY <1>3, <1>8
  <2> QED BY <1>0, <1>6, <1>7, <2>1, <2>2 DEF Disconnected, ClosesLink
<1>10. PICK e : e = DeleteFromConnection(d, old) OBVIOUS
<1>11. /\ e \in Holding /\ e.sessions = d.sessions /\ e.wild = d.wild
       /\ e.links[old].state = "closed" /\ e.links[old].object = NoSession
       /\ Others(e.links, d.links, old)
  BY <1>8, <1>10, Detached
<1>12. PICK a : a = AddToConnection(e, l, id) OBVIOUS
<1>13. /\ a \in Holding /\ a.sessions = e.sessions /\ a.wild = e.wild
       /\ a.links[l].state = e.links[l].state /\ a.links[l].object = id
       /\ Others(a.links, e.links, l)
  BY SMTT(30), <1>d, <1>11, <1>12, Attached
<1>14. PICK s : s = SetConnection(a, id, l) OBVIOUS
<1>15. a.sessions = h.sessions BY <1>8, <1>11, <1>13
<1>16. /\ s \in Holding /\ s.links = a.links /\ s.wild = a.wild
       /\ Elsewhere(s.sessions, a.sessions, i) /\ Like(s.sessions[i], a.sessions[i])
       /\ s.sessions[i].conn = l
  BY <1>5, <1>6, <1>13, <1>14, <1>15, LinkMoved
<1>17. s.sessions \in Seq(Session) BY <1>16 DEF Holding
<1>18. DOMAIN s.sessions = DOMAIN w.sessions /\ Apart(s.sessions) /\ s.sessions[i].id = id
  BY <1>4, <1>5, <1>15, <1>16, <1>17, ElsewhereApart DEF Like
<1>19. Position(s.sessions, id) = i BY <1>17, <1>18, PositionOf
<1>20. r = Update(s, id, 0)
  BY <1>0, <1>1, <1>2, <1>9, <1>10, <1>12, <1>14 DEF SwitchConnection
<1>21. /\ r \in Holding /\ r.links = s.links /\ r.wild = s.wild
       /\ Elsewhere(r.sessions, s.sessions, i) /\ Like(r.sessions[i], s.sessions[i])
       /\ r.sessions[i].conn = l /\ r.sessions[i].updates = 0
  BY <1>16, <1>18, <1>19, <1>20, Updated
<1>22. Elsewhere(r.sessions, w.sessions, i) /\ Like(r.sessions[i], w.sessions[i])
  BY <1>3, <1>5, <1>15, <1>16, <1>18, <1>21 DEF Elsewhere, Like
<1>23. /\ r.links[old].state = "closed" /\ r.links[old].object = NoSession
       /\ r.links[l].state = w.links[l].state /\ r.links[l].object = id
       /\ \A m \in Links \ {old, l} : r.links[m] = w.links[m]
  BY <1>3, <1>8, <1>11, <1>13, <1>16, <1>21 DEF Others
<1> QED BY ZenonT(40), <1>3, <1>8, <1>11, <1>13, <1>16, <1>21, <1>22, <1>23

\* A connection that breaks takes its session with it.
LEMMA Broken ==
  ASSUME NEW w \in Holding, Apart(w.sessions), NEW i \in DOMAIN w.sessions,
         NEW l \in Links, l = w.sessions[i].conn, w.links[l].state = "open",
         w.links[l].object = w.sessions[i].id, w.sessions[i].updates = 0, w.links[l].object # NoSession,
         NEW r, r = Disconnected(w, l)
  PROVE  /\ r \in Holding /\ r.wild = w.wild /\ r.sessions = RemoveAt(w.sessions, i)
         /\ r.links[l].state = "closed" /\ r.links[l].object = NoSession
         /\ Others(r.links, w.links, l)
<1>0. w.sessions \in Seq(Session) /\ i # 0 BY DEF Holding
<1>1. PICK id : id = w.links[l].object OBVIOUS
<1>2. Position(w.sessions, id) = i BY <1>0, <1>1, PositionOf
<1>3. PICK d : d = ClosesLink(w, l) OBVIOUS
<1>4. /\ d \in Holding /\ d.sessions = w.sessions /\ d.wild = w.wild
      /\ d.links[l].state = "closed" /\ Others(d.links, w.links, l)
  BY <1>3, Closed
<1>5. r = DeleteSession(d, id)
  <2>1. ~(d.sessions[i].updates > 0) BY <1>4
  <2> QED BY <1>0, <1>1, <1>2, <1>3, <2>1 DEF Disconnected, ClosesLink
<1>6. PICK left : left = RemoveAt(w.sessions, i) OBVIOUS
<1>7. left \in Seq(Session) BY <1>0, <1>6, RemoveAtIndex
<1>8. PICK e : e = [d EXCEPT !.sessions = left] OBVIOUS
<1>9. e \in Holding /\ e.links = d.links /\ e.wild = d.wild /\ e.sessions = left
  BY <1>4, <1>7, <1>8 DEF Holding
<1>10. r = DeleteFromConnection(e, l) BY <1>2, <1>4, <1>5, <1>6, <1>8 DEF DeleteSession
<1>11. /\ r \in Holding /\ r.sessions = e.sessions /\ r.wild = e.wild
       /\ r.links[l].state = e.links[l].state /\ r.links[l].object = NoSession
       /\ Others(r.links, e.links, l)
  BY <1>4, <1>9, <1>10, Detached
<1> QED BY <1>4, <1>6, <1>9, <1>11 DEF Others

LEMMA BrokenAlone ==
  ASSUME NEW w \in Holding, NEW l \in Links, w.links[l].object = NoSession, NEW r, r = Disconnected(w, l)
  PROVE  /\ r \in Holding /\ r.wild = w.wild /\ r.sessions = w.sessions
         /\ r.links[l].state = "closed" /\ r.links[l].object = NoSession
         /\ Others(r.links, w.links, l)
<1>1. r = ClosesLink(w, l) BY DEF Disconnected, ClosesLink
<1> QED BY <1>1, Closed

\* A new session
IsAdded(r, w, l, id) ==
  /\ r \in Holding /\ r.wild = w.wild
  /\ r.links[l].state = w.links[l].state /\ r.links[l].object = id
  /\ Others(r.links, w.links, l)
  /\ Len(r.sessions) = Len(w.sessions) + 1
  /\ \A k \in DOMAIN w.sessions : r.sessions[k] = w.sessions[k]
  /\ r.sessions[Len(r.sessions)].id = id /\ r.sessions[Len(r.sessions)].conn = l
  /\ r.sessions[Len(r.sessions)].updates = 0 /\ r.sessions[Len(r.sessions)].handlers = <<>>

LEMMA Added ==
  ASSUME NEW w \in Holding, NEW l \in Links, NEW id \in Nat, NEW who \in Identities, NEW r, r = AddSession(w, l, id, who)
  PROVE  IsAdded(r, w, l, id)
<1>0. w.sessions \in Seq(Session) BY DEF Holding
<1>1. PICK v : v = [id |-> id, conn |-> l, updates |-> 0, identity |-> who, handlers |-> <<>>] OBVIOUS
<1>2. v \in Session /\ v.id = id /\ v.conn = l /\ v.updates = 0 /\ v.handlers = <<>> BY <1>1 DEF Session
<1>3. PICK list : list = Append(w.sessions, v) OBVIOUS
<1>4. /\ list \in Seq(Session) /\ Len(list) = Len(w.sessions) + 1 /\ list[Len(list)] = v
      /\ \A k \in DOMAIN w.sessions : list[k] = w.sessions[k]
  BY <1>0, <1>2, <1>3, AppendProperties
<1>5. PICK e : e = [w EXCEPT !.sessions = list] OBVIOUS
<1>6. e \in Holding /\ e.links = w.links /\ e.wild = w.wild /\ e.sessions = list
  BY <1>4, <1>5 DEF Holding
<1>7. r = AddToConnection(e, l, id) BY <1>1, <1>3, <1>5 DEF AddSession
<1>8. /\ r \in Holding /\ r.sessions = e.sessions /\ r.wild = e.wild
      /\ r.links[l].state = e.links[l].state /\ r.links[l].object = id
      /\ Others(r.links, e.links, l)
  BY <1>6, <1>7, Attached
<1> QED BY <1>2, <1>4, <1>6, <1>8 DEF IsAdded

-----------------------------------------------------------------------------
(* The steps *)

LEMMA HeldIs ==
  ASSUME TypeOK
  PROVE  Held \in Holding /\ Held.links = links /\ Held.sessions = sessions /\ Held.wild = wild
BY DEF TypeOK, Held, Holding

\* Nothing but the holder of a connection has it.
LEMMA Exclusive ==
  ASSUME TypeOK, Numbered, Paired, NEW i \in DOMAIN sessions
  PROVE  /\ sessions[i] \in Session /\ sessions[i].conn \in Links /\ sessions[i].id \in Nat
         /\ sessions[i].id # NoSession /\ sessions[i].handlers \in Seq(Nat)
         /\ \A j \in DOMAIN sessions : sessions[j].conn = sessions[i].conn => j = i
         /\ \A l \in Links : links[l].object = sessions[i].id => l = sessions[i].conn
<1>1. sessions[i] \in Session BY DEF TypeOK
<1>2. sessions[i].conn \in Links /\ sessions[i].id \in Nat /\ sessions[i].handlers \in Seq(Nat) BY <1>1 DEF Session
<1>3. sessions[i].id # NoSession
  <2>1. sessions[i].id \in 1 .. born /\ born \in Nat BY DEF Numbered, TypeOK
  <2> QED BY <2>1 DEF NoSession
<1>4. \A j \in DOMAIN sessions : sessions[j].conn = sessions[i].conn => j = i
  BY DEF Paired, Numbered, Apart
<1>5. \A l \in Links : links[l].object = sessions[i].id => l = sessions[i].conn
  <2> SUFFICES ASSUME NEW l \in Links, links[l].object = sessions[i].id PROVE l = sessions[i].conn OBVIOUS
  <2>1. PICK j \in DOMAIN sessions : sessions[j].id = links[l].object /\ sessions[j].conn = l BY <1>3 DEF Paired
  <2>2. j = i BY <2>1 DEF Numbered, Apart
  <2> QED BY <2>1, <2>2
<1> QED BY <1>1, <1>2, <1>3, <1>4, <1>5

LEMMA NewSession ==
  ASSUME SessionsInv, NEW l \in Links, NEW who \in Identities, links[l].state = "none",
         NEW w \in Holding, w.sessions = sessions, w.wild = wild, Others(w.links, links, l),
         w.links[l].state = "open",
         NEW r, r = AddSession(w, l, born + 1, who),
         links' = r.links, sessions' = r.sessions, wild' = r.wild,
         born' = born + 1, UNCHANGED <<calls, wired, misled>>
  PROVE  SessionsInv'
<1>0. TypeOK /\ Numbered /\ Paired /\ Awaited /\ ~wild /\ ~misled BY DEF SessionsInv
<1>1. born \in Nat /\ born + 1 \in Nat BY <1>0 DEF TypeOK
<1>2. /\ r \in Holding /\ r.wild = w.wild
      /\ r.links[l].state = w.links[l].state /\ r.links[l].object = born + 1
      /\ Others(r.links, w.links, l)
      /\ Len(r.sessions) = Len(w.sessions) + 1
      /\ \A k \in DOMAIN w.sessions : r.sessions[k] = w.sessions[k]
      /\ r.sessions[Len(r.sessions)].id = born + 1 /\ r.sessions[Len(r.sessions)].conn = l
      /\ r.sessions[Len(r.sessions)].updates = 0 /\ r.sessions[Len(r.sessions)].handlers = <<>>
  <2>1. r = AddSession(w, l, born + 1, who) OBVIOUS
  <2>2. IsAdded(r, w, l, born + 1)
    BY ONLY <1>1, <2>1, w \in Holding, l \in Links, who \in Identities, Added
  <2> QED BY <2>2 DEF IsAdded
<1>3. links' \in [Links -> Link] /\ sessions' \in Seq(Session) /\ wild' \in BOOLEAN BY <1>2 DEF Holding
<1>4. TypeOK' BY <1>0, <1>1, <1>3 DEF TypeOK
<1>5. PICK n : n = Len(sessions) + 1 OBVIOUS
<1>6. /\ DOMAIN sessions' = DOMAIN sessions \cup {n} /\ n \notin DOMAIN sessions
      /\ \A k \in DOMAIN sessions : sessions'[k] = sessions[k]
      /\ sessions'[n].id = born + 1 /\ sessions'[n].conn = l
      /\ sessions'[n].updates = 0 /\ sessions'[n].handlers = <<>>
  BY <1>0, <1>2, <1>3, <1>5 DEF TypeOK
<1>7. Numbered'
  <2>1. \A k \in DOMAIN sessions : sessions[k].id \in 1 .. born BY <1>0 DEF Numbered
  <2>2. \A k \in DOMAIN sessions : sessions'[k].id # born + 1 /\ sessions'[k].id \in 1 .. born + 1
    BY <1>1, <1>6, <2>1
  <2>3. \A k \in DOMAIN sessions' : sessions'[k].id \in 1 .. born' BY <1>1, <1>6, <2>2
  <2>4. \A i, j \in DOMAIN sessions' : sessions'[i].id = sessions'[j].id => i = j
    BY <1>0, <1>6, <2>2 DEF Numbered, Apart
  <2> QED BY <2>3, <2>4 DEF Numbered, Apart
<1>8. /\ links'[l].state = "open" /\ links'[l].object = born + 1
      /\ \A m \in Links \ {l} : links'[m] = links[m]
  BY <1>2 DEF Others
<1>9. \A k \in DOMAIN sessions : sessions[k].conn # l /\ sessions[k].conn \in Links
  BY <1>0, Exclusive DEF Paired
<1>10. Paired'
  <2>1. ASSUME NEW k \in DOMAIN sessions'
        PROVE  /\ links'[sessions'[k].conn].state = "open"
               /\ links'[sessions'[k].conn].object = sessions'[k].id
               /\ sessions'[k].updates = 0
    BY <1>0, <1>6, <1>8, <1>9 DEF Paired
  <2>2. ASSUME NEW m \in Links, links'[m].object # NoSession
        PROVE  \E k \in DOMAIN sessions' : sessions'[k].id = links'[m].object /\ sessions'[k].conn = m
    <3>1. CASE m = l BY <1>6, <1>8, <3>1
    <3>2. CASE m # l
      <4>1. links'[m] = links[m] BY <1>8, <3>2
      <4>2. PICK k \in DOMAIN sessions : sessions[k].id = links[m].object /\ sessions[k].conn = m
        BY <1>0, <2>2, <4>1 DEF Paired
      <4> QED BY <1>6, <4>1, <4>2
    <3> QED BY <3>1, <3>2
  <2> QED BY <2>1, <2>2 DEF Paired
<1>11. Awaited'
  <2>1. Pending(<<>>, born + 1) BY DEF Pending, NoDuplicates
  <2>2. \A k \in DOMAIN sessions' : Pending(sessions'[k].handlers, sessions'[k].id)
    BY <1>0, <1>6, <2>1 DEF Awaited
  <2> QED BY <2>2 DEF Awaited, Pending
<1>12. ~wild' /\ ~misled' BY <1>0, <1>2
<1> QED BY <1>4, <1>7, <1>10, <1>11, <1>12 DEF SessionsInv

LEMMA OldSession ==
  ASSUME SessionsInv, NEW l \in Links, links[l].state = "none", NEW i \in DOMAIN sessions,
         NEW w \in Holding, w.sessions = sessions, w.wild = wild, Others(w.links, links, l),
         w.links[l].state = "open",
         NEW r, r = SwitchConnection(w, sessions[i].id, l),
         links' = r.links, sessions' = r.sessions, wild' = r.wild,
         UNCHANGED <<born, calls, wired, misled>>
  PROVE  SessionsInv'
<1>0. TypeOK /\ Numbered /\ Paired /\ Awaited /\ ~wild /\ ~misled BY DEF SessionsInv
<1>1. PICK id, old : id = sessions[i].id /\ old = sessions[i].conn OBVIOUS
<1>2. /\ id \in Nat /\ id # NoSession /\ old \in Links
      /\ \A j \in DOMAIN sessions : sessions[j].conn = old => j = i
      /\ \A m \in Links : links[m].object = id => m = old
  BY <1>0, <1>1, Exclusive
<1>3. links[old].state = "open" /\ links[old].object = id BY <1>0, <1>1 DEF Paired
<1>4. l # old /\ w.links[old] = links[old] BY <1>2, <1>3 DEF Others
<1>5. Apart(w.sessions) BY <1>0 DEF Numbered
<1>6. /\ r \in Holding /\ r.wild = w.wild
      /\ r.links[old].state = "closed" /\ r.links[old].object = NoSession
      /\ r.links[l].state = w.links[l].state /\ r.links[l].object = id
      /\ \A m \in Links \ {old, l} : r.links[m] = w.links[m]
      /\ Elsewhere(r.sessions, w.sessions, i)
      /\ Like(r.sessions[i], w.sessions[i])
      /\ r.sessions[i].conn = l /\ r.sessions[i].updates = 0
  BY SMTT(30), <1>1, <1>2, <1>3, <1>4, <1>5, Switched
<1>7. links' \in [Links -> Link] /\ sessions' \in Seq(Session) /\ wild' \in BOOLEAN BY <1>6 DEF Holding
<1>8. TypeOK' BY <1>0, <1>7 DEF TypeOK
<1>9. /\ DOMAIN sessions' = DOMAIN sessions
      /\ \A k \in DOMAIN sessions \ {i} : sessions'[k] = sessions[k]
      /\ sessions'[i].id = id /\ sessions'[i].handlers = sessions[i].handlers
      /\ sessions'[i].conn = l /\ sessions'[i].updates = 0
  BY <1>0, <1>1, <1>6, <1>7 DEF TypeOK, Elsewhere, Like
<1>10. \A k \in DOMAIN sessions : sessions'[k].id = sessions[k].id BY <1>1, <1>9
<1>11. Numbered' BY <1>0, <1>9, <1>10 DEF Numbered, Apart
<1>12. /\ links'[l].state = "open" /\ links'[l].object = id
       /\ links'[old].object = NoSession
       /\ \A m \in Links \ {old, l} : links'[m] = links[m]
  BY <1>6 DEF Others
<1>13. \A k \in DOMAIN sessions \ {i} :
         sessions[k].conn # l /\ sessions[k].conn # old /\ sessions[k].conn \in Links
  BY <1>0, <1>2, Exclusive DEF Paired
<1>14. Paired'
  <2>1. ASSUME NEW k \in DOMAIN sessions'
        PROVE  /\ links'[sessions'[k].conn].state = "open"
               /\ links'[sessions'[k].conn].object = sessions'[k].id
               /\ sessions'[k].updates = 0
    <3>1. CASE k = i BY <1>9, <1>12, <3>1
    <3>2. CASE k # i BY <1>0, <1>9, <1>12, <1>13, <3>2 DEF Paired
    <3> QED BY <3>1, <3>2
  <2>2. ASSUME NEW m \in Links, links'[m].object # NoSession
        PROVE  \E k \in DOMAIN sessions' : sessions'[k].id = links'[m].object /\ sessions'[k].conn = m
    <3>1. CASE m = l BY <1>9, <1>12, <3>1
    <3>2. CASE m # l
      <4>1. m # old BY <1>12, <2>2
      <4>2. links'[m] = links[m] BY <1>12, <3>2, <4>1
      <4>3. PICK k \in DOMAIN sessions : sessions[k].id = links[m].object /\ sessions[k].conn = m
        BY <1>0, <2>2, <4>2 DEF Paired
      <4>4. k # i BY <1>1, <4>1, <4>3
      <4> QED BY <1>9, <4>2, <4>3, <4>4
    <3> QED BY <3>1, <3>2
  <2> QED BY <2>1, <2>2 DEF Paired
<1>15. Awaited'
  <2>1. \A k \in DOMAIN sessions : sessions'[k].handlers = sessions[k].handlers BY <1>9
  <2>2. \A k \in DOMAIN sessions' : Pending(sessions'[k].handlers, sessions'[k].id)
    BY <1>0, <1>9, <1>10, <2>1 DEF Awaited
  <2> QED BY <2>2 DEF Awaited, Pending
<1>16. ~wild' /\ ~misled' BY <1>0, <1>6
<1> QED BY <1>8, <1>11, <1>14, <1>15, <1>16 DEF SessionsInv

LEMMA OpensStep ==
  ASSUME SessionsInv, NEW l \in Links, NEW who \in Identities, Opens(l, who)
  PROVE  SessionsInv'
<1>0. TypeOK BY DEF SessionsInv
<1>1. PICK v : v = [state |-> "open", object |-> NoSession, identity |-> who] OBVIOUS
<1>2. PICK f : f = [links EXCEPT ![l] = v] OBVIOUS
<1>3. v \in Link /\ v.state = "open" BY <1>1 DEF Link, NoSession
<1>4. f \in [Links -> Link] /\ f[l].state = "open" /\ Others(f, links, l)
  BY <1>0, <1>2, <1>3 DEF TypeOK, Others
<1>5. PICK w : w = [Held EXCEPT !.links[l] = v] OBVIOUS
<1>6. w \in Holding /\ w.links = f /\ w.sessions = sessions /\ w.wild = wild
  <2>1. w = [Held EXCEPT !.links = f] BY <1>2, <1>5 DEF Held
  <2> QED BY <1>0, <1>4, <2>1, HeldIs DEF Holding
<1>7. PICK i : i = FindByIdentity(sessions, who) OBVIOUS
<1>8. i = 0 \/ i \in DOMAIN sessions BY <1>0, <1>7, IdentityIs DEF TypeOK
<1>9. links[l].state = "none" BY DEF Opens
<1>10. CASE i = 0
  <2>1. PICK r : r = AddSession(w, l, born + 1, who) OBVIOUS
  <2>2. Keeps(r) /\ born' = born + 1 /\ UNCHANGED <<calls, wired, misled>>
    BY <1>1, <1>5, <1>7, <1>10, <2>1 DEF Opens
  <2> QED BY <1>4, <1>6, <1>9, <2>1, <2>2, NewSession DEF Keeps
<1>11. CASE i # 0
  <2>1. PICK r : r = SwitchConnection(w, sessions[i].id, l) OBVIOUS
  <2>2. Keeps(r) /\ UNCHANGED <<born, calls, wired, misled>>
    BY <1>1, <1>5, <1>7, <1>11, <2>1 DEF Opens
  <2> QED BY <1>4, <1>6, <1>8, <1>9, <1>11, <2>1, <2>2, OldSession DEF Keeps
<1> QED BY <1>10, <1>11

LEMMA BreaksStep ==
  ASSUME SessionsInv, NEW l \in Links, Breaks(l)
  PROVE  SessionsInv'
<1>0. TypeOK /\ Numbered /\ Paired /\ Awaited /\ ~wild /\ ~misled BY DEF SessionsInv
<1>1. PICK w, r : w = Held /\ r = Disconnected(w, l) OBVIOUS
<1>2. links[l].state = "open" /\ Keeps(r) /\ UNCHANGED <<born, calls, wired, misled>> BY <1>1 DEF Breaks
<1>3. w \in Holding /\ w.links = links /\ w.sessions = sessions /\ w.wild = wild BY <1>0, <1>1, HeldIs
<1>4. links' = r.links /\ sessions' = r.sessions /\ wild' = r.wild BY <1>2 DEF Keeps
<1>5. ~misled' BY <1>0, <1>2
<1>6. CASE links[l].object = NoSession
  <2>1. /\ r \in Holding /\ r.wild = w.wild /\ r.sessions = w.sessions
        /\ r.links[l].state = "closed" /\ r.links[l].object = NoSession
        /\ Others(r.links, w.links, l)
    BY <1>1, <1>3, <1>6, BrokenAlone
  <2>2. links' \in [Links -> Link] /\ sessions' = sessions /\ wild' = wild BY <1>3, <1>4, <2>1 DEF Holding
  <2>3. TypeOK' BY <1>0, <1>2, <2>2 DEF TypeOK
  <2>4. Numbered' BY <1>0, <1>2, <2>2 DEF Numbered, Apart
  <2>5. links'[l].object = NoSession /\ \A m \in Links \ {l} : links'[m] = links[m] BY <1>3, <1>4, <2>1 DEF Others
  <2>6. \A k \in DOMAIN sessions : sessions[k].conn \in Links /\ sessions[k].conn # l
    BY <1>0, <1>6, Exclusive DEF Paired
  <2>7. Paired' BY <1>0, <2>2, <2>5, <2>6 DEF Paired
  <2>8. Awaited' BY <1>0, <1>2, <2>2 DEF Awaited, Pending
  <2> QED BY <1>0, <1>5, <2>2, <2>3, <2>4, <2>7, <2>8 DEF SessionsInv
<1>7. CASE links[l].object # NoSession
  <2>1. PICK i \in DOMAIN sessions : sessions[i].id = links[l].object /\ sessions[i].conn = l
    BY <1>0, <1>7 DEF Paired
  <2>2. sessions[i].updates = 0 /\ Apart(w.sessions) BY <1>0, <1>3 DEF Paired, Numbered
  <2>3. /\ r \in Holding /\ r.wild = w.wild /\ r.sessions = RemoveAt(w.sessions, i)
        /\ r.links[l].state = "closed" /\ r.links[l].object = NoSession
        /\ Others(r.links, w.links, l)
    BY <1>1, <1>2, <1>3, <1>7, <2>1, <2>2, Broken
  <2>4. links' \in [Links -> Link] /\ sessions' \in Seq(Session) /\ wild' = wild BY <1>3, <1>4, <2>3 DEF Holding
  <2>5. TypeOK' BY <1>0, <1>2, <2>4 DEF TypeOK
  <2>6. links'[l].object = NoSession /\ \A m \in Links \ {l} : links'[m] = links[m] BY <1>3, <1>4, <2>3 DEF Others
  <2> DEFINE o(j) == IF j < i THEN j ELSE j + 1
  <2>7. /\ \A j \in DOMAIN sessions' : o(j) \in DOMAIN sessions /\ o(j) # i /\ sessions'[j] = sessions[o(j)]
        /\ \A j, k \in DOMAIN sessions' : o(j) = o(k) => j = k
        /\ \A k \in DOMAIN sessions : k # i => \E j \in DOMAIN sessions' : o(j) = k
    <3>0. sessions \in Seq(Session) /\ i \in 1 .. Len(sessions) BY <1>0 DEF TypeOK
    <3>1. /\ Len(sessions') = Len(sessions) - 1
          /\ \A j \in 1 .. Len(sessions) - 1 : sessions'[j] = IF j < i THEN sessions[j] ELSE sessions[j + 1]
      BY <1>3, <1>4, <2>3, <3>0, RemoveAtIndex
    <3>2. Len(sessions) \in Nat /\ DOMAIN sessions = 1 .. Len(sessions) /\ DOMAIN sessions' = 1 .. Len(sessions) - 1
      BY <2>4, <3>0, <3>1
    <3>3. \A k \in DOMAIN sessions : k # i => \E j \in DOMAIN sessions' : o(j) = k
      <4> SUFFICES ASSUME NEW k \in DOMAIN sessions, k # i PROVE \E j \in DOMAIN sessions' : o(j) = k OBVIOUS
      <4>1. CASE k < i BY <3>0, <3>2, <4>1
      <4>2. CASE k > i
        <5>1. k - 1 \in DOMAIN sessions' /\ ~(k - 1 < i) /\ (k - 1) + 1 = k BY <3>0, <3>2, <4>2
        <5> QED BY <5>1
      <4> QED BY <3>0, <3>2, <4>1, <4>2
    <3> QED BY <3>0, <3>1, <3>2, <3>3
  <2>8. \A j \in DOMAIN sessions' : \E k \in DOMAIN sessions : k # i /\ sessions'[j] = sessions[k] BY <2>7
  <2>9. \A k \in DOMAIN sessions : k # i => \E j \in DOMAIN sessions' : sessions'[j] = sessions[k] BY <2>7
  <2>10. \A j, k \in DOMAIN sessions' : sessions'[j].id = sessions'[k].id => j = k
    BY <1>0, <2>7 DEF Numbered, Apart
  <2> HIDE DEF o
  <2>11. Numbered' BY <1>0, <1>2, <2>8, <2>10 DEF Numbered, Apart
  <2>12. \A k \in DOMAIN sessions : k # i => sessions[k].conn \in Links /\ sessions[k].conn # l
    BY <1>0, <2>1, Exclusive
  <2>13. Paired'
    <3>1. ASSUME NEW j \in DOMAIN sessions'
          PROVE  /\ links'[sessions'[j].conn].state = "open"
                 /\ links'[sessions'[j].conn].object = sessions'[j].id
                 /\ sessions'[j].updates = 0
      BY <1>0, <2>6, <2>8, <2>12 DEF Paired
    <3>2. ASSUME NEW m \in Links, links'[m].object # NoSession
          PROVE  \E j \in DOMAIN sessions' : sessions'[j].id = links'[m].object /\ sessions'[j].conn = m
      <4>1. m # l /\ links'[m] = links[m] BY <2>6, <3>2
      <4>2. PICK k \in DOMAIN sessions : sessions[k].id = links[m].object /\ sessions[k].conn = m
        BY <1>0, <3>2, <4>1 DEF Paired
      <4> QED BY <2>1, <2>9, <4>1, <4>2
    <3> QED BY <3>1, <3>2 DEF Paired
  <2>14. Awaited' BY <1>0, <1>2, <2>8 DEF Awaited, Pending
  <2> QED BY <1>0, <1>5, <2>4, <2>5, <2>11, <2>13, <2>14 DEF SessionsInv
<1> QED BY <1>6, <1>7

LEMMA FreedStep ==
  ASSUME SessionsInv, NEW l \in Links, Freed(l)
  PROVE  SessionsInv'
<1>0. TypeOK /\ Numbered /\ Paired /\ Awaited /\ ~wild /\ ~misled BY DEF SessionsInv
<1>1. /\ links[l].state = "closed" /\ links' = [links EXCEPT ![l].state = "freed"]
      /\ wired' = [wired EXCEPT ![l] = {}] /\ UNCHANGED <<sessions, born, calls, misled, wild>>
  BY DEF Freed
<1>2. /\ links' \in [Links -> Link] /\ links'[l].object = links[l].object
      /\ \A m \in Links \ {l} : links'[m] = links[m]
  BY <1>0, <1>1 DEF TypeOK, Link
<1>3. TypeOK' BY <1>0, <1>1, <1>2 DEF TypeOK
<1>4. \A k \in DOMAIN sessions : sessions[k].conn \in Links /\ sessions[k].conn # l
  BY <1>0, <1>1, Exclusive DEF Paired
<1>5. Paired' BY <1>0, <1>1, <1>2, <1>4 DEF Paired
<1>6. Numbered' /\ Awaited' BY <1>0, <1>1 DEF Numbered, Apart, Awaited, Pending
<1> QED BY <1>0, <1>1, <1>3, <1>5, <1>6 DEF SessionsInv

\* A list of sessions in which one has other handlers
LEMMA Rehandled ==
  ASSUME TypeOK, Numbered, Paired, NEW i \in DOMAIN sessions, NEW hs \in Seq(Nat),
         sessions' = [sessions EXCEPT ![i].handlers = hs], UNCHANGED <<links, born>>
  PROVE  /\ sessions' \in Seq(Session) /\ Numbered' /\ Paired'
         /\ DOMAIN sessions' = DOMAIN sessions
         /\ sessions'[i].handlers = hs /\ sessions'[i].id = sessions[i].id
         /\ \A k \in DOMAIN sessions \ {i} : sessions'[k] = sessions[k]
<1>1. sessions[i] \in Session /\ sessions \in Seq(Session) BY Exclusive DEF TypeOK
<1>2. PICK v : v = [sessions[i] EXCEPT !.handlers = hs] OBVIOUS
<1>3. /\ v \in Session /\ v.handlers = hs
      /\ v.id = sessions[i].id /\ v.conn = sessions[i].conn /\ v.updates = sessions[i].updates
  BY <1>1, <1>2 DEF Session
<1>4. sessions' = [sessions EXCEPT ![i] = v] BY <1>2
<1>5. /\ sessions' \in Seq(Session) /\ Len(sessions') = Len(sessions)
      /\ \A k \in DOMAIN sessions : sessions'[k] = IF k = i THEN v ELSE sessions[k]
  BY <1>1, <1>3, <1>4, ExceptSeq
<1>6. DOMAIN sessions' = DOMAIN sessions BY <1>1, <1>5
<1>7. \A k \in DOMAIN sessions : /\ sessions'[k].id = sessions[k].id /\ sessions'[k].conn = sessions[k].conn
                                 /\ sessions'[k].updates = sessions[k].updates
  BY <1>3, <1>5
<1>8. Numbered' BY <1>6, <1>7 DEF Numbered, Apart
<1>9. Paired' BY <1>6, <1>7 DEF Paired
<1> QED BY <1>3, <1>5, <1>6, <1>8, <1>9

LEMMA CallsStep ==
  ASSUME SessionsInv, NEW i \in DOMAIN sessions, Calls(i)
  PROVE  SessionsInv'
<1>0. TypeOK /\ Numbered /\ Paired /\ Awaited /\ ~wild /\ ~misled BY DEF SessionsInv
<1>1. PICK u, l, id, hs : /\ u = Len(calls) + 1 /\ l = sessions[i].conn /\ id = sessions[i].id
                          /\ hs = Append(sessions[i].handlers, u)
  OBVIOUS
<1>2. /\ calls' = Append(calls, [session |-> id, answered |-> FALSE])
      /\ sessions' = [sessions EXCEPT ![i].handlers = hs]
      /\ wired' = IF l \in Links THEN [wired EXCEPT ![l] = @ \cup {u}] ELSE wired
      /\ wild' = (l = NoLink \/ links[l].state = "freed")
      /\ UNCHANGED <<links, born, misled>>
  BY <1>1 DEF Calls
<1>3. l \in Links /\ id \in Nat /\ sessions[i].handlers \in Seq(Nat) BY <1>0, <1>1, Exclusive
<1>4. ~wild'
  <2>1. l # NoLink BY <1>3, NoLinkAssumption
  <2>2. links[l].state = "open" BY <1>0, <1>1 DEF Paired
  <2> QED BY <1>2, <2>1, <2>2
<1>5. calls \in Seq([session : Nat, answered : BOOLEAN]) BY <1>0 DEF TypeOK
<1>6. PICK c : c = [session |-> id, answered |-> FALSE] OBVIOUS
<1>7. /\ calls' \in Seq([session : Nat, answered : BOOLEAN])
      /\ DOMAIN calls' = DOMAIN calls \cup {u} /\ u \notin DOMAIN calls /\ u \in Nat
      /\ calls'[u].session = id /\ ~calls'[u].answered
      /\ \A n \in DOMAIN calls : calls'[n] = calls[n]
  BY <1>1, <1>2, <1>3, <1>5, <1>6, AppendProperties
<1>8. hs \in Seq(Nat) BY <1>1, <1>3, <1>7
<1>9. /\ sessions' \in Seq(Session) /\ Numbered' /\ Paired'
      /\ DOMAIN sessions' = DOMAIN sessions
      /\ sessions'[i].handlers = hs /\ sessions'[i].id = id
      /\ \A k \in DOMAIN sessions \ {i} : sessions'[k] = sessions[k]
  BY <1>0, <1>1, <1>2, <1>8, Rehandled
<1>10. wired' \in [Links -> SUBSET Nat] BY <1>0, <1>2, <1>3, <1>7 DEF TypeOK
<1>11. TypeOK'
  <2>1. wild' \in BOOLEAN BY <1>2
  <2> QED BY <1>0, <1>2, <1>7, <1>9, <1>10, <2>1 DEF TypeOK
<1>12. Awaited'
  <2>1. ASSUME NEW hs0 \in Seq(Nat), NEW id0, Pending(hs0, id0)
        PROVE  Pending(hs0, id0)'
    BY <1>7, <2>1 DEF Pending
  <2>2. Pending(sessions[i].handlers, id) BY <1>0, <1>1 DEF Awaited
  <2>3. Pending(hs, id)'
    <3>1. u \notin Members(sessions[i].handlers) BY <1>7, <2>2 DEF Pending, Members
    <3>2. NoDuplicates(hs) /\ Members(hs) = Members(sessions[i].handlers) \cup {u}
      <4>1. NoDuplicates(sessions[i].handlers) BY <2>2 DEF Pending
      <4>2. PICK old : old = sessions[i].handlers OBVIOUS
      <4>3. old \in Seq(Nat) /\ NoDuplicates(old) /\ u \notin Members(old) /\ u \in Nat /\ hs = Append(old, u)
        BY <1>1, <1>3, <1>7, <3>1, <4>1, <4>2
      <4>4. NoDuplicates(hs) /\ Members(hs) = Members(old) \cup {u} BY <4>3, Appended
      <4> QED BY <4>2, <4>4
    <3>3. \A k \in DOMAIN hs : hs[k] = u \/ \E m \in DOMAIN sessions[i].handlers : hs[k] = sessions[i].handlers[m]
      BY <3>2 DEF Members
    <3> QED BY <1>7, <2>2, <3>2, <3>3 DEF Pending
  <2>4. ASSUME NEW k \in DOMAIN sessions' PROVE Pending(sessions[k].handlers, sessions[k].id)' 
    <3>1. CASE k = i BY <1>9, <2>3, <3>1 DEF Pending
    <3>2. CASE k # i
      <4>1. sessions[k].handlers \in Seq(Nat) BY <1>0, <1>9, Exclusive
      <4>2. Pending(sessions[k].handlers, sessions[k].id) BY <1>0, <1>9 DEF Awaited
      <4> QED BY <1>7, <1>9, <3>2, <4>1, <4>2 DEF Pending
    <3> QED BY <3>1, <3>2
  <2> QED BY <2>4 DEF Awaited
<1>13. ~misled' BY <1>0, <1>2
<1> QED BY <1>4, <1>9, <1>11, <1>12, <1>13 DEF SessionsInv

LEMMA AnsweredStep ==
  ASSUME SessionsInv, NEW l \in Links, NEW m \in Links, NEW u \in wired[m], Answered(l, m, u)
  PROVE  SessionsInv'
<1>0. TypeOK /\ Numbered /\ Paired /\ Awaited /\ ~wild /\ ~misled BY DEF SessionsInv
<1>1. PICK i : i = FindByConnection(sessions, l) OBVIOUS
<1>2. i \in DOMAIN sessions BY <1>0, <1>1, ConnectionIs DEF Answered, TypeOK
<1>3. PICK hs, k, id : /\ hs = sessions[i].handlers /\ k = FindMessageById(hs, u) /\ id = sessions[i].id
  OBVIOUS
<1>4. hs \in Seq(Nat) BY <1>0, <1>2, <1>3, Exclusive
<1>5. wired' = [wired EXCEPT ![m] = @ \ {u}] /\ UNCHANGED <<links, born, wild>> BY DEF Answered
<1>6. wired' \in [Links -> SUBSET Nat] BY <1>0, <1>5 DEF TypeOK
<1>7. CASE k = 0
  <2>1. UNCHANGED <<calls, sessions, misled>> BY <1>1, <1>3, <1>7 DEF Answered
  <2>2. TypeOK' BY <1>0, <1>5, <1>6, <2>1 DEF TypeOK
  <2>3. Numbered' /\ Paired' /\ Awaited'
    BY <1>0, <1>5, <2>1 DEF Numbered, Apart, Paired, Awaited, Pending
  <2> QED BY <1>0, <1>5, <2>1, <2>2, <2>3 DEF SessionsInv
<1>8. CASE k # 0
  <2>1. k \in DOMAIN hs /\ hs[k] = u BY <1>3, <1>4, <1>8, MessageIs
  <2>2. PICK left : left = RemoveAt(hs, k) OBVIOUS
  <2>3. /\ misled' = (misled \/ calls[u].session # id \/ u # u \/ calls[u].answered)
        /\ calls' = [calls EXCEPT ![u].answered = TRUE]
        /\ sessions' = [sessions EXCEPT ![i].handlers = left]
    BY <1>1, <1>3, <1>8, <2>1, <2>2 DEF Answered
  <2>4. Pending(hs, id) BY <1>0, <1>2, <1>3 DEF Awaited
  <2>5. u \in DOMAIN calls /\ calls[u].session = id /\ ~calls[u].answered BY <2>1, <2>4 DEF Pending
  <2>6. ~misled' BY <1>0, <2>3, <2>5
  <2>7. /\ left \in Seq(Nat) /\ NoDuplicates(left) /\ Members(left) = Members(hs) \ {u}
    BY <1>4, <2>1, <2>2, <2>4, RemoveAtIndex, RemovedMember DEF Pending
  <2>8. calls \in Seq([session : Nat, answered : BOOLEAN]) BY <1>0 DEF TypeOK
  <2>9. /\ calls' \in Seq([session : Nat, answered : BOOLEAN])
        /\ DOMAIN calls' = DOMAIN calls
        /\ \A n \in DOMAIN calls : calls'[n].session = calls[n].session
        /\ \A n \in DOMAIN calls \ {u} : calls'[n] = calls[n]
    <3>0. u \in 1 .. Len(calls) BY <2>5, <2>8
    <3>1. calls[u] \in [session : Nat, answered : BOOLEAN]
      <4>1. PICK S : S = [session : Nat, answered : BOOLEAN] OBVIOUS
      <4>2. calls \in Seq(S) BY <2>8, <4>1
      <4>3. calls[u] \in S BY <3>0, <4>2
      <4> QED BY <4>1, <4>3
    <3>2. PICK c : c = [calls[u] EXCEPT !.answered = TRUE] OBVIOUS
    <3>3. c \in [session : Nat, answered : BOOLEAN] /\ c.session = calls[u].session BY <3>1, <3>2
    <3>4. calls' = [calls EXCEPT ![u] = c] BY <2>3, <3>2
    <3> QED BY <2>5, <2>8, <3>3, <3>4, ExceptSeq
  <2>10. /\ sessions' \in Seq(Session) /\ Numbered' /\ Paired'
         /\ DOMAIN sessions' = DOMAIN sessions
         /\ sessions'[i].handlers = left /\ sessions'[i].id = id
         /\ \A n \in DOMAIN sessions \ {i} : sessions'[n] = sessions[n]
    BY <1>0, <1>2, <1>3, <1>5, <2>3, <2>7, Rehandled
  <2>11. TypeOK'
    <3>1. misled' \in BOOLEAN BY <2>3
    <3> QED BY <1>0, <1>5, <1>6, <2>9, <2>10, <3>1 DEF TypeOK
  <2>12. \A j \in DOMAIN left : left[j] # u /\ \E n \in DOMAIN hs : left[j] = hs[n] BY <2>7 DEF Members
  <2>13. Awaited'
    <3>1. ASSUME NEW n \in DOMAIN sessions' PROVE Pending(sessions[n].handlers, sessions[n].id)'
      <4>1. CASE n = i
        BY <2>4, <2>7, <2>9, <2>10, <2>12, <4>1 DEF Pending
      <4>2. CASE n # i
        <5>1. Pending(sessions[n].handlers, sessions[n].id) BY <1>0, <2>10 DEF Awaited
        <5>2. sessions[n].id # id BY <1>0, <1>2, <1>3, <2>10, <4>2 DEF Numbered, Apart
        <5>3. u \notin Members(sessions[n].handlers) BY <2>5, <5>1, <5>2 DEF Pending, Members
        <5> QED BY <2>9, <2>10, <4>2, <5>1, <5>3 DEF Pending, Members
      <4> QED BY <4>1, <4>2
    <3> QED BY <3>1 DEF Awaited
  <2> QED BY <1>0, <1>5, <2>6, <2>10, <2>11, <2>13 DEF SessionsInv
<1> QED BY <1>7, <1>8

-----------------------------------------------------------------------------
(* The theorem *)

LEMMA SessionsInitHolds == SessionInit => SessionsInv
<1> SUFFICES ASSUME SessionInit PROVE SessionsInv OBVIOUS
<1>1. Free \in Link /\ Free.object = NoSession BY DEF Free, Link, NoSession
<1>2. TypeOK
  <2>1. links \in [Links -> Link] BY <1>1 DEF SessionInit
  <2>2. sessions \in Seq(Session) /\ calls \in Seq([session : Nat, answered : BOOLEAN]) BY DEF SessionInit
  <2>3. wired \in [Links -> SUBSET Nat] BY DEF SessionInit
  <2>4. born \in Nat /\ misled \in BOOLEAN /\ wild \in BOOLEAN BY DEF SessionInit
  <2> QED BY <2>1, <2>2, <2>3, <2>4 DEF TypeOK
<1>3. Numbered BY DEF SessionInit, Numbered, Apart
<1>4. Paired BY <1>1 DEF SessionInit, Paired
<1>5. Awaited BY DEF SessionInit, Awaited
<1> QED BY <1>2, <1>3, <1>4, <1>5 DEF SessionInit, SessionsInv

LEMMA SessionsStepHolds == SessionsInv /\ [SessionNext]_sessionVars => SessionsInv'
<1> SUFFICES ASSUME SessionsInv, [SessionNext]_sessionVars PROVE SessionsInv' OBVIOUS
<1>1. CASE UNCHANGED sessionVars
  BY <1>1 DEF sessionVars, SessionsInv, TypeOK, Numbered, Apart, Paired, Awaited, Pending
<1>2. ASSUME NEW l \in Links, NEW who \in Identities, Opens(l, who) PROVE SessionsInv' BY <1>2, OpensStep
<1>3. ASSUME NEW l \in Links, Breaks(l) PROVE SessionsInv' BY <1>3, BreaksStep
<1>4. ASSUME NEW l \in Links, Freed(l) PROVE SessionsInv' BY <1>4, FreedStep
<1>5. ASSUME NEW i \in DOMAIN sessions, Calls(i) PROVE SessionsInv' BY <1>5, CallsStep
<1>6. ASSUME NEW l \in Links, NEW m \in Links, NEW u \in wired[m], Answered(l, m, u) PROVE SessionsInv'
  BY <1>6, AnsweredStep
<1> QED BY <1>1, <1>2, <1>3, <1>4, <1>5, <1>6 DEF SessionNext

\* What the inductive invariant says of the properties
LEMMA IndInvImplies == SessionsInv => SessionsAgree
<1> SUFFICES ASSUME SessionsInv PROVE SessionsAgree OBVIOUS
<1>0. TypeOK /\ Numbered /\ Paired /\ Awaited /\ ~wild /\ ~misled BY DEF SessionsInv
<1>1. SessionsMatch
  <2>1. ASSUME NEW l \in Links, links[l].object # NoSession PROVE Has(sessions, links[l].object)
    <3>1. \E i \in DOMAIN sessions : sessions[i].id = links[l].object BY <1>0, <2>1 DEF Paired
    <3>2. sessions \in Seq(Session) BY <1>0 DEF TypeOK
    <3> QED BY <3>1, <3>2, PositionIs DEF Has
  <2> QED BY <1>0, <2>1 DEF SessionsMatch, Paired
<1>2. CallsMatch BY <1>0 DEF CallsMatch, Awaited, Pending, ToSet
<1> QED BY <1>1, <1>2 DEF SessionsAgree

\* The inductive invariant: every session is a different object, has an open connection that has it, and is not held
\* between two events (CSession, SwitchConnection); its handlers are of unanswered calls of its own.
THEOREM SessionInvariant == SessionSpec => []SessionsInv
BY SessionsInitHolds, SessionsStepHolds, PTL DEF SessionSpec

\* A session and its connection know each other, and an answer runs the handler of its call, once, whatever connects,
\* breaks, moves and answers, in any order (CSessionManager, CSession, CMessageManager).
THEOREM SessionsAlwaysAgree == SessionSpec => []SessionsAgree
BY SessionInvariant, IndInvImplies, PTL

-----------------------------------------------------------------------------
\* SMTPClient

Message == [to : Seq(Nat), submitted : BOOLEAN]
ClientState == [active : BOOLEAN, index : Nat \ {0}, toIndex : Nat, startTls : BOOLEAN, ssl : BOOLEAN]
End == [message : Nat, done : BOOLEAN]

\* The code of a reply is whatever the parser has made of it.
Names == {"CONNECT", "HELLO", "STARTTLS", "AUTH", "FROM", "TO", "DATA", "CONTENT", "QUIT"}
IsCommand(m) == m = [name |-> m.name, arg |-> m.arg, code |-> m.code] /\ m.name \in Names
IsConnection(c) ==
  /\ c = [open |-> c.open, status |-> c.status, command |-> c.command, out |-> c.out, tls |-> c.tls,
          graceful |-> c.graceful]
  /\ c.open \in BOOLEAN /\ c.tls \in BOOLEAN /\ IsCommand(c.command)
IsOutcome(o) ==
  /\ o = [concluded |-> o.concluded, accepted |-> o.accepted, plain |-> o.plain, why |-> o.why]
  /\ o.concluded \in Seq(End) /\ o.plain \in BOOLEAN
IsPresent(d) ==
  /\ d = [messages |-> d.messages, client |-> d.client, c |-> d.c, outcome |-> d.outcome]
  /\ d.messages \in Seq(Message) /\ d.client \in ClientState /\ IsConnection(d.c) /\ IsOutcome(d.outcome)

\* m_bStartTls is true of the connection that the client has, once its first command has been answered; and AUTH is
\* only the command of a connection that has TLS.
Secure(d) ==
  /\ d.c.command.name # "CONNECT" /\ d.client.startTls => d.c.tls
  /\ d.c.command.name = "AUTH" => d.c.tls
  /\ ~d.outcome.plain

\* The messages that have been concluded are those before m_Index, and each was reported as it was submitted.
Concluded(d) ==
  /\ Len(d.outcome.concluded) = d.client.index - 1 /\ d.client.index <= Len(d.messages) + 1
  /\ \A k \in DOMAIN d.outcome.concluded :
       d.outcome.concluded[k] = [message |-> k, done |-> d.messages[k].submitted]
Ordered(d) ==
  /\ Concluded(d)
  /\ d.c.open => d.client.index \in DOMAIN d.messages
  /\ ~d.client.active => d.client.index = 1 /\ ~d.c.open

Good(d) == IsPresent(d) /\ Secure(d) /\ Ordered(d)

\* The messages are concluded in their order, each once, and Done is said of those the server has taken with 250.
InOrder ==
  /\ Len(outcome.concluded) <= Len(messages)
  /\ \A k \in DOMAIN outcome.concluded :
       outcome.concluded[k] = [message |-> k, done |-> messages[k].submitted]

-----------------------------------------------------------------------------
(* What the methods of the client do to d *)

LEMMA BecauseIs ==
  ASSUME NEW d, IsPresent(d), NEW reason, NEW r, r = Because(d, reason)
  PROVE  /\ IsPresent(r) /\ r.messages = d.messages /\ r.client = d.client /\ r.c = d.c
         /\ r.outcome.concluded = d.outcome.concluded /\ r.outcome.plain = d.outcome.plain
<1>1. PICK o : o = [d.outcome EXCEPT !.why = @ \cup {reason}] OBVIOUS
<1>2. r = [d EXCEPT !.outcome = o] BY <1>1 DEF Because
<1>3. IsOutcome(d.outcome) BY DEF IsPresent
<1>4. IsOutcome(o) /\ o.concluded = d.outcome.concluded /\ o.plain = d.outcome.plain
  BY <1>1, <1>3 DEF IsOutcome
<1>5. r = [messages |-> d.messages, client |-> d.client, c |-> d.c, outcome |-> o] BY <1>2 DEF IsPresent
<1> QED BY <1>4, <1>5 DEF IsPresent

LEMMA BecauseGood ==
  ASSUME NEW d, Good(d), NEW reason, NEW r, r = Because(d, reason)
  PROVE  Good(r) /\ r.client = d.client /\ r.c = d.c
<1>1. /\ IsPresent(r) /\ r.messages = d.messages /\ r.client = d.client /\ r.c = d.c
      /\ r.outcome.concluded = d.outcome.concluded /\ r.outcome.plain = d.outcome.plain
  BY BecauseIs DEF Good
<1> QED BY <1>1 DEF Good, Secure, Ordered, Concluded

\* d with another connection
LEMMA ConnectionSet ==
  ASSUME NEW d, IsPresent(d), NEW c, IsConnection(c), NEW r, r = [d EXCEPT !.c = c]
  PROVE  /\ IsPresent(r) /\ r.messages = d.messages /\ r.client = d.client /\ r.c = c
         /\ r.outcome = d.outcome
<1>1. r = [messages |-> d.messages, client |-> d.client, c |-> c, outcome |-> d.outcome] BY DEF IsPresent
<1> QED BY <1>1 DEF IsPresent

LEMMA CommandsGood ==
  ASSUME NEW d, Good(d), NEW name \in Names, NEW arg, NEW r, r = Commands(d, name, arg),
         d.client.startTls => d.c.tls, name = "AUTH" => d.c.tls
  PROVE  Good(r) /\ r.client = d.client
<1>1. PICK m : m = NewCommand(name, arg) OBVIOUS
<1>2. IsCommand(m) /\ m.name = name BY <1>1 DEF IsCommand, NewCommand
<1>3. PICK c : c = [d.c EXCEPT !.command = m, !.status = "csRequestReady"] OBVIOUS
<1>4. IsConnection(d.c) BY DEF Good, IsPresent
<1>5. IsConnection(c) /\ c.command = m /\ c.open = d.c.open /\ c.tls = d.c.tls
  BY <1>2, <1>3, <1>4 DEF IsConnection
<1>6. r = [d EXCEPT !.c = c] BY <1>1, <1>3 DEF Commands, Good, IsPresent
<1>7. /\ IsPresent(r) /\ r.messages = d.messages /\ r.client = d.client /\ r.c = c
      /\ r.outcome = d.outcome
  BY <1>5, <1>6, ConnectionSet DEF Good
<1> QED BY <1>2, <1>5, <1>7 DEF Good, Secure, Ordered, Concluded

LEMMA DisconnectIs ==
  ASSUME NEW d, IsPresent(d), NEW r, r = DisconnectClient(d)
  PROVE  /\ IsPresent(r) /\ r.messages = d.messages /\ r.client = d.client /\ r.outcome = d.outcome
         /\ ~r.c.open /\ r.c.tls = d.c.tls /\ r.c.command = d.c.command
<1>1. PICK c : c = [d.c EXCEPT !.open = FALSE, !.graceful = TRUE, !.out = <<>>] OBVIOUS
<1>2. IsConnection(d.c) BY DEF IsPresent
<1>3. IsConnection(c) /\ c.command = d.c.command /\ ~c.open /\ c.tls = d.c.tls
  BY <1>1, <1>2 DEF IsConnection
<1>4. r = [d EXCEPT !.c = c] BY <1>1 DEF DisconnectClient, IsPresent
<1>5. /\ IsPresent(r) /\ r.messages = d.messages /\ r.client = d.client /\ r.c = c
      /\ r.outcome = d.outcome
  BY <1>3, <1>4, ConnectionSet
<1> QED BY <1>3, <1>5

LEMMA DisconnectGood ==
  ASSUME NEW d, Good(d), NEW r, r = DisconnectClient(d)
  PROVE  Good(r) /\ r.client = d.client
<1>1. /\ IsPresent(r) /\ r.messages = d.messages /\ r.client = d.client /\ r.outcome = d.outcome
      /\ ~r.c.open /\ r.c.tls = d.c.tls /\ r.c.command = d.c.command
  BY DisconnectIs DEF Good
<1> QED BY <1>1 DEF Good, Secure, Ordered, Concluded

\* The connection of a message begins without an answered command.
LEMMA ConnectGood ==
  ASSUME NEW d, IsPresent(d), ~d.outcome.plain, Concluded(d), d.client.index \in DOMAIN d.messages, d.client.active,
         NEW connects \in BOOLEAN, NEW r, r = ConnectStart(d, connects)
  PROVE  Good(r) /\ r.client = d.client
<1>1. PICK e : e = IF connects THEN d ELSE Because(d, "connect") OBVIOUS
<1>2. /\ IsPresent(e) /\ e.messages = d.messages /\ e.client = d.client
      /\ e.outcome.concluded = d.outcome.concluded /\ e.outcome.plain = d.outcome.plain
  BY <1>1, BecauseIs
<1>3. PICK ssl \in BOOLEAN : ssl = d.client.ssl BY DEF IsPresent, ClientState
<1>4. PICK c : c = [NoConnection EXCEPT !.open = connects, !.tls = ssl] OBVIOUS
<1>5. IsConnection(c) /\ c.command.name = "CONNECT"
  BY <1>4 DEF IsConnection, IsCommand, Names, NoConnection, NewCommand
<1>6. r = [e EXCEPT !.c = c] BY <1>1, <1>3, <1>4 DEF ConnectStart
<1>7. /\ IsPresent(r) /\ r.messages = e.messages /\ r.client = e.client /\ r.c = c
      /\ r.outcome = e.outcome
  BY <1>2, <1>5, <1>6, ConnectionSet
<1> QED BY <1>2, <1>5, <1>7 DEF Good, Secure, Ordered, Concluded

LEMMA ClientSet ==
  ASSUME NEW d, IsPresent(d), NEW cl \in ClientState, NEW r, r = [d EXCEPT !.client = cl]
  PROVE  /\ IsPresent(r) /\ r.messages = d.messages /\ r.client = cl /\ r.c = d.c
         /\ r.outcome = d.outcome
<1>1. r = [messages |-> d.messages, client |-> cl, c |-> d.c, outcome |-> d.outcome] BY DEF IsPresent
<1> QED BY <1>1 DEF IsPresent

\* All that matters of the client, but for m_ToIndex
LEMMA ClientGood ==
  ASSUME NEW d, Good(d), NEW cl \in ClientState, cl.index = d.client.index, cl.active = d.client.active,
         d.c.command.name # "CONNECT" /\ cl.startTls => d.c.tls,
         NEW r, r = [d EXCEPT !.client = cl]
  PROVE  Good(r) /\ r.client = cl /\ r.c = d.c /\ r.messages = d.messages
<1>1. /\ IsPresent(r) /\ r.messages = d.messages /\ r.client = cl /\ r.c = d.c
      /\ r.outcome = d.outcome
  BY ClientSet DEF Good
<1> QED BY <1>1 DEF Good, Secure, Ordered, Concluded

LEMMA NextRecipientGood ==
  ASSUME NEW d, Good(d), d.client.startTls => d.c.tls, NEW r, r = NextRecipient(d)
  PROVE  Good(r) /\ r.client.index = d.client.index
<1>1. d.client \in ClientState BY DEF Good, IsPresent
<1>2. PICK cl : cl = [d.client EXCEPT !.toIndex = @ + 1] OBVIOUS
<1>3. /\ cl \in ClientState /\ cl.index = d.client.index /\ cl.active = d.client.active
      /\ cl.startTls = d.client.startTls
  BY <1>1, <1>2 DEF ClientState
<1>4. PICK e : e = [d EXCEPT !.client = cl] OBVIOUS
<1>5. Good(e) /\ e.client = cl /\ e.c = d.c /\ e.messages = d.messages BY <1>3, <1>4, ClientGood
<1>6. e = [d EXCEPT !.client.toIndex = @ + 1] BY <1>2, <1>4
<1>7. CASE d.client.toIndex \in DOMAIN Current(d).to
  <2>1. r = Commands(e, "TO", Current(d).to[d.client.toIndex]) BY <1>6, <1>7 DEF NextRecipient
  <2> QED BY <1>3, <1>5, <2>1, CommandsGood DEF Names
<1>8. CASE d.client.toIndex \notin DOMAIN Current(d).to
  <2>1. r = Because(e, "recipient") BY <1>6, <1>8 DEF NextRecipient
  <2> QED BY <1>3, <1>5, <2>1, BecauseGood
<1> QED BY <1>7, <1>8

\* A message is concluded, and the next one begins.
LEMMA DoQUITGood ==
  ASSUME NEW d, Good(d), d.c.open, NEW code, NEW connects \in BOOLEAN, NEW r, r = DoQUIT(d, code, connects)
  PROVE  Good(r)
<1>0. /\ IsPresent(d) /\ Secure(d) /\ Concluded(d) /\ d.client.index \in DOMAIN d.messages
      /\ d.client \in ClientState /\ d.client.active /\ d.messages \in Seq(Message)
      /\ IsOutcome(d.outcome) /\ d.outcome.concluded \in Seq(End)
  BY DEF Good, Ordered, IsPresent, IsOutcome, ClientState
<1>1. PICK i \in DOMAIN d.messages : i = d.client.index BY <1>0
<1>2. d.messages[i] \in Message /\ i \in Nat \ {0} BY <1>0
<1>3. PICK done \in BOOLEAN : done = d.messages[i].submitted BY <1>2 DEF Message
<1>4. PICK v : v = [message |-> i, done |-> done] OBVIOUS
<1>5. v \in End BY <1>2, <1>4 DEF End
<1>6. PICK ends : ends = Append(d.outcome.concluded, v) OBVIOUS
<1>7. /\ ends \in Seq(End) /\ Len(ends) = i /\ ends[i] = v
      /\ \A k \in 1 .. i - 1 : ends[k] = d.outcome.concluded[k]
  <2>1. PICK old : old = d.outcome.concluded OBVIOUS
  <2>2. old \in Seq(End) /\ Len(old) = i - 1 /\ ends = Append(old, v) BY <1>0, <1>1, <1>6, <2>1 DEF Concluded
  <2>3. i - 1 + 1 = i BY <1>2
  <2>4. ends \in Seq(End) /\ Len(ends) = i /\ ends[i] = v /\ \A k \in 1 .. i - 1 : ends[k] = old[k]
    BY <1>5, <2>2, <2>3, AppendProperties
  <2> QED BY <2>1, <2>4
<1>8. PICK o : o = [d.outcome EXCEPT !.concluded = ends] OBVIOUS
<1>9. IsOutcome(o) /\ o.concluded = ends /\ o.plain = d.outcome.plain BY <1>0, <1>7, <1>8 DEF IsOutcome
<1>10. PICK e : e = [d EXCEPT !.outcome = o] OBVIOUS
<1>11. IsPresent(e) /\ e.messages = d.messages /\ e.client = d.client /\ e.c = d.c /\ e.outcome = o
  <2>1. e = [messages |-> d.messages, client |-> d.client, c |-> d.c, outcome |-> o] BY <1>0, <1>10 DEF IsPresent
  <2> QED BY <1>0, <1>9, <2>1 DEF IsPresent
<1>12. r = SendNext(e, connects)
  BY <1>1, <1>3, <1>4, <1>6, <1>8, <1>10 DEF DoQUIT, Current
<1>13. PICK cl : cl = [d.client EXCEPT !.index = @ + 1] OBVIOUS
<1>14. cl \in ClientState /\ cl.index = i + 1 /\ cl.active BY <1>0, <1>1, <1>2, <1>13 DEF ClientState
<1>15. PICK next : next = [e EXCEPT !.client = cl] OBVIOUS
<1>16. /\ IsPresent(next) /\ next.messages = d.messages /\ next.client = cl /\ next.c = d.c
       /\ next.outcome = o
  BY <1>11, <1>14, <1>15, ClientSet
<1>17. next = [e EXCEPT !.client.index = @ + 1] BY <1>11, <1>13, <1>15
<1>18. \A k \in DOMAIN ends : ends[k] = [message |-> k, done |-> d.messages[k].submitted]
  <2>1. DOMAIN ends = 1 .. i /\ DOMAIN d.outcome.concluded = 1 .. i - 1 BY <1>0, <1>1, <1>2, <1>7 DEF Concluded
  <2>2. \A k \in 1 .. i - 1 : ends[k] = [message |-> k, done |-> d.messages[k].submitted]
    BY <1>0, <1>7, <2>1 DEF Concluded
  <2>3. ends[i] = [message |-> i, done |-> d.messages[i].submitted] BY <1>3, <1>4, <1>7
  <2>4. \A k \in 1 .. i : k \in 1 .. i - 1 \/ k = i BY <1>2
  <2> QED BY <2>1, <2>2, <2>3, <2>4
<1>19. CASE i + 1 <= Len(d.messages)
  <2>1. PICK cl2 : cl2 = [cl EXCEPT !.toIndex = 1] OBVIOUS
  <2>2. cl2 \in ClientState /\ cl2.index = i + 1 /\ cl2.active BY <1>14, <2>1 DEF ClientState
  <2>3. PICK start : start = [next EXCEPT !.client = cl2] OBVIOUS
  <2>4. /\ IsPresent(start) /\ start.messages = d.messages /\ start.client = cl2 /\ start.outcome = o
    BY <1>16, <2>2, <2>3, ClientSet
  <2>5. start = [next EXCEPT !.client.toIndex = 1] BY <1>16, <2>1, <2>3
  <2>6. r = ConnectStart(start, connects) BY <1>12, <1>14, <1>16, <1>17, <1>19, <2>5 DEF SendNext
  <2>7. i + 1 \in DOMAIN d.messages BY <1>0, <1>2, <1>19
  <2>8. Concluded(start) BY <1>2, <1>7, <1>9, <1>18, <1>19, <2>2, <2>4 DEF Concluded
  <2>9. ~start.outcome.plain BY <1>0, <1>9, <2>4 DEF Secure
  <2> QED BY <2>2, <2>4, <2>6, <2>7, <2>8, <2>9, ConnectGood
<1>20. CASE ~(i + 1 <= Len(d.messages))
  <2>1. r = DisconnectClient(next) BY <1>12, <1>14, <1>16, <1>17, <1>20 DEF SendNext
  <2>2. /\ IsPresent(r) /\ r.messages = next.messages /\ r.client = next.client /\ r.outcome = next.outcome
        /\ ~r.c.open /\ r.c.tls = next.c.tls /\ r.c.command = next.c.command
    BY <1>16, <2>1, DisconnectIs
  <2>3. i + 1 <= Len(d.messages) + 1 BY <1>0, <1>1
  <2>4. Concluded(r) BY <1>2, <1>7, <1>9, <1>14, <1>16, <1>18, <2>2, <2>3 DEF Concluded
  <2>5. r.client.startTls = d.client.startTls BY <1>0, <1>13, <1>16, <2>2 DEF ClientState
  <2>6. Secure(r) BY <1>0, <1>9, <1>16, <2>2, <2>5 DEF Secure
  <2> QED BY <1>14, <1>16, <2>2, <2>4, <2>6 DEF Good, Ordered
<1> QED BY <1>19, <1>20

-----------------------------------------------------------------------------
(* The command handlers *)

LEMMA DoCONNECTGood ==
  ASSUME NEW d, Good(d), NEW code, NEW r, r = DoCONNECT(d, code)
  PROVE  Good(r)
<1>1. d.client \in ClientState /\ d.c.tls \in BOOLEAN BY DEF Good, IsPresent, IsConnection
<1>2. PICK cl : cl = [d.client EXCEPT !.startTls = d.c.tls] OBVIOUS
<1>3. cl \in ClientState /\ cl.index = d.client.index /\ cl.active = d.client.active /\ cl.startTls = d.c.tls
  BY <1>1, <1>2 DEF ClientState
<1>4. PICK e : e = [d EXCEPT !.client = cl] OBVIOUS
<1>5. Good(e) /\ e.client = cl /\ e.c = d.c BY <1>3, <1>4, ClientGood
<1>6. e = [d EXCEPT !.client.startTls = d.c.tls] BY <1>2, <1>4
<1>7. CASE code = Ready
  <2>1. r = Commands(e, "HELLO", 0) BY <1>6, <1>7 DEF DoCONNECT
  <2> QED BY <1>3, <1>5, <2>1, CommandsGood DEF Names
<1>8. CASE code # Ready
  <2>1. r = Because(d, "greeting") BY <1>8 DEF DoCONNECT
  <2> QED BY <2>1, BecauseGood
<1> QED BY <1>7, <1>8

LEMMA DoHELLOGood ==
  ASSUME NEW d, Good(d), d.client.startTls => d.c.tls, NEW code, NEW r, r = DoHELLO(d, code)
  PROVE  Good(r)
<1>1. CASE code # Ok
  <2>1. r = Commands(d, "QUIT", 0) BY <1>1 DEF DoHELLO
  <2> QED BY <2>1, CommandsGood DEF Names
<1>2. CASE code = Ok /\ d.client.startTls
  <2>1. r = Commands(d, "AUTH", 0) BY <1>2 DEF DoHELLO
  <2> QED BY <1>2, <2>1, CommandsGood DEF Names
<1>3. CASE code = Ok /\ ~d.client.startTls
  <2>1. r = Commands(d, "STARTTLS", 0) BY <1>3 DEF DoHELLO
  <2> QED BY <2>1, CommandsGood DEF Names
<1> QED BY <1>1, <1>2, <1>3

LEMMA DoSTARTTLSGood ==
  ASSUME NEW d, Good(d), d.client.startTls => d.c.tls, NEW code, NEW shakes \in BOOLEAN,
         NEW r, r = DoSTARTTLS(d, code, shakes)
  PROVE  Good(r)
<1>1. CASE code # Ready
  <2>1. r = Commands(d, "QUIT", 0) BY <1>1 DEF DoSTARTTLS
  <2> QED BY <2>1, CommandsGood DEF Names
<1>2. CASE code = Ready /\ shakes
  <2>1. d.client \in ClientState /\ IsConnection(d.c) /\ IsPresent(d) BY DEF Good, IsPresent
  <2>2. PICK cl : cl = [d.client EXCEPT !.startTls = TRUE] OBVIOUS
  <2>3. cl \in ClientState /\ cl.index = d.client.index /\ cl.active = d.client.active BY <2>1, <2>2 DEF ClientState
  <2>4. PICK c : c = [d.c EXCEPT !.tls = TRUE] OBVIOUS
  <2>5. IsConnection(c) /\ c.tls /\ c.open = d.c.open /\ c.command = d.c.command
    BY <2>1, <2>4 DEF IsConnection
  <2>6. PICK e : e = [d EXCEPT !.c = c] OBVIOUS
  <2>7. /\ IsPresent(e) /\ e.messages = d.messages /\ e.client = d.client /\ e.c = c
        /\ e.outcome = d.outcome
    BY <2>1, <2>5, <2>6, ConnectionSet
  <2>8. Good(e) BY <2>5, <2>7 DEF Good, Secure, Ordered, Concluded
  <2>9. PICK f : f = [e EXCEPT !.client = cl] OBVIOUS
  <2>10. Good(f) /\ f.client = cl /\ f.c = c BY <2>3, <2>5, <2>7, <2>8, <2>9, ClientGood
  <2>11. f = [d EXCEPT !.c.tls = TRUE, !.client.startTls = TRUE] BY <2>1, <2>2, <2>4, <2>6, <2>9 DEF IsPresent
  <2>12. r = Commands(f, "HELLO", 0) BY <1>2, <2>11 DEF DoSTARTTLS
  <2> QED BY <2>5, <2>10, <2>12, CommandsGood DEF Names
<1>3. CASE code = Ready /\ ~shakes
  <2>1. r = Because(d, "handshake") BY <1>3 DEF DoSTARTTLS
  <2> QED BY <2>1, BecauseGood
<1> QED BY <1>1, <1>2, <1>3

\* The handlers that go on, or quit
LEMMA DoAUTHGood ==
  ASSUME NEW d, Good(d), d.client.startTls => d.c.tls, NEW code, NEW r, r = DoAUTH(d, code)
  PROVE  Good(r)
<1>1. CASE code = Authorized
  <2>1. r = Commands(d, "FROM", 0) BY <1>1 DEF DoAUTH
  <2> QED BY <2>1, CommandsGood DEF Names
<1>2. CASE code # Authorized
  <2>1. r = Commands(d, "QUIT", 0) BY <1>2 DEF DoAUTH
  <2> QED BY <2>1, CommandsGood DEF Names
<1> QED BY <1>1, <1>2

LEMMA DoFROMGood ==
  ASSUME NEW d, Good(d), d.client.startTls => d.c.tls, NEW code, NEW r, r = DoFROM(d, code)
  PROVE  Good(r)
<1>1. CASE code = Ok
  <2>1. r = NextRecipient(d) BY <1>1 DEF DoFROM
  <2> QED BY <2>1, NextRecipientGood
<1>2. CASE code # Ok
  <2>1. r = Commands(d, "QUIT", 0) BY <1>2 DEF DoFROM
  <2> QED BY <2>1, CommandsGood DEF Names
<1> QED BY <1>1, <1>2

LEMMA DoTOGood ==
  ASSUME NEW d, Good(d), d.client.startTls => d.c.tls, NEW code, NEW r, r = DoTO(d, code)
  PROVE  Good(r)
<1>1. CASE code \notin {Ok, Forwards}
  <2>1. r = Commands(d, "QUIT", 0) BY <1>1 DEF DoTO
  <2> QED BY <2>1, CommandsGood DEF Names
<1>2. CASE code \in {Ok, Forwards} /\ d.client.toIndex \in DOMAIN Current(d).to
  <2>1. r = NextRecipient(d) BY <1>2 DEF DoTO
  <2> QED BY <2>1, NextRecipientGood
<1>3. CASE code \in {Ok, Forwards} /\ d.client.toIndex \notin DOMAIN Current(d).to
  <2>1. r = Commands(d, "DATA", 0) BY <1>3 DEF DoTO
  <2> QED BY <2>1, CommandsGood DEF Names
<1> QED BY <1>1, <1>2, <1>3

LEMMA DoDATAGood ==
  ASSUME NEW d, Good(d), d.client.startTls => d.c.tls, NEW code, NEW r, r = DoDATA(d, code)
  PROVE  Good(r)
<1>1. CASE code \in {Ok, Begin}
  <2>1. r = Commands(d, "CONTENT", d.client.index) BY <1>1 DEF DoDATA
  <2> QED BY <2>1, CommandsGood DEF Names
<1>2. CASE code \notin {Ok, Begin}
  <2>1. r = Commands(d, "QUIT", 0) BY <1>2 DEF DoDATA
  <2> QED BY <2>1, CommandsGood DEF Names
<1> QED BY <1>1, <1>2

\* A message is submitted before it is concluded.
LEMMA DoCONTENTGood ==
  ASSUME NEW d, Good(d), d.c.open, d.client.startTls => d.c.tls, NEW code, NEW r, r = DoCONTENT(d, code)
  PROVE  Good(r)
<1>0. /\ IsPresent(d) /\ Concluded(d) /\ d.client.index \in DOMAIN d.messages /\ d.messages \in Seq(Message)
  BY DEF Good, Ordered, IsPresent
<1>1. PICK i \in DOMAIN d.messages : i = d.client.index BY <1>0
<1>2. d.messages[i] \in Message /\ i \in 1 .. Len(d.messages) BY <1>0
<1>3. PICK is \in BOOLEAN : is = (d.messages[i].submitted \/ code = Ok) OBVIOUS
<1>4. PICK v : v = [d.messages[i] EXCEPT !.submitted = is] OBVIOUS
<1>5. v \in Message BY <1>2, <1>4 DEF Message
<1>6. PICK ms : ms = [d.messages EXCEPT ![i] = v] OBVIOUS
<1>7. ms \in Seq(Message) /\ Len(ms) = Len(d.messages) /\ \A k \in DOMAIN d.messages : k # i => ms[k] = d.messages[k]
  BY <1>0, <1>2, <1>5, <1>6, ExceptSeq
<1>8. PICK e : e = [d EXCEPT !.messages = ms] OBVIOUS
<1>9. IsPresent(e) /\ e.messages = ms /\ e.client = d.client /\ e.c = d.c /\ e.outcome = d.outcome
  <2>1. e = [messages |-> ms, client |-> d.client, c |-> d.c, outcome |-> d.outcome] BY <1>0, <1>8 DEF IsPresent
  <2> QED BY <1>0, <1>7, <2>1 DEF IsPresent
<1>10. DOMAIN ms = DOMAIN d.messages BY <1>0, <1>7
<1>11. Concluded(e)
  <2>1. d.outcome.concluded \in Seq(End) BY <1>0 DEF IsPresent, IsOutcome
  <2>2. DOMAIN d.outcome.concluded = 1 .. i - 1 BY <1>0, <1>1, <2>1 DEF Concluded
  <2>3. \A k \in DOMAIN d.outcome.concluded : k \in DOMAIN d.messages /\ k # i BY <1>0, <1>2, <2>2
  <2> QED BY <1>0, <1>7, <1>9, <2>3 DEF Concluded
<1>12. Good(e) BY <1>0, <1>9, <1>10, <1>11 DEF Good, Secure, Ordered
<1>13. e = [d EXCEPT !.messages[d.client.index].submitted = @ \/ code = Ok]
  BY <1>0, <1>1, <1>3, <1>4, <1>6, <1>8
<1>14. r = Commands(e, "QUIT", 0) BY <1>13 DEF DoCONTENT
<1> QED BY <1>9, <1>12, <1>14, CommandsGood DEF Names

LEMMA HandledGood ==
  ASSUME NEW d, Good(d), d.c.open, NEW code, NEW works \in BOOLEAN, NEW r, r = Handled(d, code, works)
  PROVE  Good(r)
<1> PICK name : name = d.c.command.name OBVIOUS
<1>0. name \in Names BY DEF Good, IsPresent, IsConnection, IsCommand
<1>1. name # "CONNECT" => (d.client.startTls => d.c.tls) BY DEF Good, Secure
<1>2. CASE name = "CONNECT"
  <2>1. r = DoCONNECT(d, code) BY <1>2 DEF Handled
  <2> QED BY <2>1, DoCONNECTGood
<1>3. CASE name = "HELLO"
  <2>1. r = DoHELLO(d, code) BY <1>3 DEF Handled
  <2> QED BY <1>1, <1>3, <2>1, DoHELLOGood
<1>4. CASE name = "STARTTLS"
  <2>1. r = DoSTARTTLS(d, code, works) BY <1>4 DEF Handled
  <2> QED BY <1>1, <1>4, <2>1, DoSTARTTLSGood
<1>5. CASE name = "AUTH"
  <2>1. r = DoAUTH(d, code) BY <1>5 DEF Handled
  <2> QED BY <1>1, <1>5, <2>1, DoAUTHGood
<1>6. CASE name = "FROM"
  <2>1. r = DoFROM(d, code) BY <1>6 DEF Handled
  <2> QED BY <1>1, <1>6, <2>1, DoFROMGood
<1>7. CASE name = "TO"
  <2>1. r = DoTO(d, code) BY <1>7 DEF Handled
  <2> QED BY <1>1, <1>7, <2>1, DoTOGood
<1>8. CASE name = "DATA"
  <2>1. r = DoDATA(d, code) BY <1>8 DEF Handled
  <2> QED BY <1>1, <1>8, <2>1, DoDATAGood
<1>9. CASE name = "CONTENT"
  <2>1. r = DoCONTENT(d, code) BY <1>9 DEF Handled
  <2> QED BY <1>1, <1>9, <2>1, DoCONTENTGood
<1>10. CASE name = "QUIT"
  <2>1. r = DoQUIT(d, code, works) BY <1>10 DEF Handled
  <2> QED BY <2>1, DoQUITGood
<1> QED BY <1>0, <1>2, <1>3, <1>4, <1>5, <1>6, <1>7, <1>8, <1>9, <1>10 DEF Names

-----------------------------------------------------------------------------
(* The steps *)

SMTPInv == Good(Present)

LEMMA PresentIs == Present = [messages |-> messages, client |-> client, c |-> smtp, outcome |-> outcome]
BY DEF Present

LEMMA ResultsGood ==
  ASSUME NEW d, Good(d), Results(d)
  PROVE  SMTPInv'
<1>1. d = [messages |-> messages', client |-> client', c |-> smtp', outcome |-> outcome']
  BY DEF Good, IsPresent, Results
<1>2. Present' = d BY <1>1 DEF Present
<1> QED BY <1>2 DEF SMTPInv, Good, IsPresent, IsConnection, IsCommand, IsOutcome, Secure, Ordered, Concluded

LEMMA UnchangedGood ==
  ASSUME SMTPInv, UNCHANGED <<messages, client, smtp, outcome>>
  PROVE  SMTPInv'
<1>1. Results(Present) BY DEF Results, Present
<1> QED BY <1>1, ResultsGood DEF SMTPInv

\* A connection of which only what it has read or has to write is another
LEMMA ConnectionGood ==
  ASSUME NEW d, Good(d), NEW c, IsConnection(c), c.open = d.c.open, c.tls = d.c.tls,
         c.command.name = d.c.command.name, NEW r, r = [d EXCEPT !.c = c]
  PROVE  Good(r) /\ r.c = c
<1>1. /\ IsPresent(r) /\ r.messages = d.messages /\ r.client = d.client /\ r.c = c
      /\ r.outcome = d.outcome
  BY ConnectionSet DEF Good
<1> QED BY <1>1 DEF Good, Secure, Ordered, Concluded

LEMMA StatusGood ==
  ASSUME NEW d, Good(d), NEW status, NEW r, r = [d EXCEPT !.c.status = status]
  PROVE  Good(r) /\ r.c.open = d.c.open
<1>1. IsConnection(d.c) BY DEF Good, IsPresent
<1>2. PICK c : c = [d.c EXCEPT !.status = status] OBVIOUS
<1>3. IsConnection(c) /\ c.open = d.c.open /\ c.tls = d.c.tls /\ c.command = d.c.command
  BY <1>1, <1>2 DEF IsConnection
<1>4. r = [d EXCEPT !.c = c] BY <1>2
<1>a. c.command.name = d.c.command.name BY <1>3
<1>b. IsConnection(c) /\ c.open = d.c.open /\ c.tls = d.c.tls BY <1>3
<1>c. Good(r) BY <1>4, <1>a, <1>b, ConnectionGood
<1>d. d = [messages |-> d.messages, client |-> d.client, c |-> d.c, outcome |-> d.outcome] BY DEF Good, IsPresent
<1>e. r.c = c BY <1>4, <1>d
<1>5. Good(r) /\ r.c = c BY <1>c, <1>e
<1> QED BY <1>3, <1>5

\* What else is known of a connection or of the outcome does not matter here.
LEMMA OutcomeGood ==
  ASSUME NEW d, Good(d), NEW o, IsOutcome(o), o.concluded = d.outcome.concluded, ~o.plain,
         NEW r, r = [d EXCEPT !.outcome = o]
  PROVE  Good(r) /\ r.c = d.c /\ r.client = d.client
<1>1. r = [messages |-> d.messages, client |-> d.client, c |-> d.c, outcome |-> o] BY DEF Good, IsPresent
<1>2. IsPresent(r) BY <1>1 DEF Good, IsPresent
<1> QED BY <1>1, <1>2 DEF Good, Secure, Ordered, Concluded

LEMMA AddsMessageStep ==
  ASSUME SMTPInv, NEW n \in Recipients, AddsMessage(n)
  PROVE  SMTPInv'
<1>0. /\ messages \in Seq(Message) /\ client \in ClientState /\ IsConnection(smtp) /\ IsOutcome(outcome)
      /\ Secure(Present) /\ Ordered(Present) /\ Concluded(Present)
  BY DEF SMTPInv, Good, IsPresent, Present, Ordered
<1>1. PICK v : v = [to |-> [i \in 1..n |-> i], submitted |-> FALSE] OBVIOUS
<1>2. n \in Nat BY RecipientAssumption
<1>3. v \in Message
  <2>1. [i \in 1..n |-> i] \in Seq(Nat) BY <1>2
  <2> QED BY <1>1, <2>1 DEF Message
<1>4. messages' = Append(messages, v) /\ client' = client /\ smtp' = smtp BY <1>1 DEF AddsMessage
<1>5. /\ messages' \in Seq(Message) /\ Len(messages') = Len(messages) + 1
      /\ \A k \in 1 .. Len(messages) : messages'[k] = messages[k]
  BY <1>0, <1>3, <1>4, AppendProperties
<1>6. PICK why : why = IF client.index > Len(messages) /\ client.active THEN outcome.why \cup {"late"} ELSE outcome.why
  OBVIOUS
<1>7. outcome' = [outcome EXCEPT !.why = why] BY <1>6 DEF AddsMessage
<1>8. IsOutcome(outcome') /\ outcome'.concluded = outcome.concluded /\ outcome'.plain = outcome.plain
  BY <1>0, <1>7 DEF IsOutcome
<1>9. PICK d : d = [messages |-> messages', client |-> client', c |-> smtp', outcome |-> outcome'] OBVIOUS
<1>10. IsPresent(d) BY <1>0, <1>4, <1>5, <1>8, <1>9 DEF IsPresent
<1>11. Secure(d) BY <1>0, <1>4, <1>8, <1>9 DEF Secure, Present
<1>12. client.index \in Nat \ {0} BY <1>0 DEF ClientState
<1>13. Concluded(d)
  <2>1. outcome.concluded \in Seq(End) BY <1>0 DEF IsOutcome
  <2>2. Len(outcome.concluded) = client.index - 1 /\ client.index <= Len(messages) + 1
    BY <1>0 DEF Concluded, Present
  <2>3. \A k \in DOMAIN outcome.concluded : k \in 1 .. Len(messages) BY <1>0, <1>12, <2>1, <2>2
  <2>4. client.index <= Len(messages') + 1 BY <1>0, <1>5, <1>12, <2>2
  <2> QED BY <1>0, <1>4, <1>5, <1>8, <1>9, <2>2, <2>3, <2>4 DEF Concluded, Present
<1>14. DOMAIN messages \subseteq DOMAIN messages' BY <1>0, <1>5
<1>15. Ordered(d) BY <1>0, <1>4, <1>9, <1>13, <1>14 DEF Ordered, Present
<1>16. Results(d) BY <1>9 DEF Results
<1> QED BY <1>10, <1>11, <1>15, <1>16, ResultsGood DEF Good

LEMMA SendsMailStep ==
  ASSUME SMTPInv, NEW connects \in BOOLEAN, SendsMail(connects)
  PROVE  SMTPInv'
<1>0. /\ messages \in Seq(Message) /\ client \in ClientState /\ IsPresent(Present)
      /\ Secure(Present) /\ Ordered(Present) /\ Concluded(Present)
  BY DEF SMTPInv, Good, IsPresent, Present, Ordered
<1>1. PICK cl : cl = [client EXCEPT !.active = TRUE] OBVIOUS
<1>2. cl \in ClientState /\ cl.active /\ cl.index = client.index BY <1>0, <1>1 DEF ClientState
<1>3. PICK d : d = [Present EXCEPT !.client = cl] OBVIOUS
<1>4. IsPresent(d) /\ d.messages = messages /\ d.client = cl /\ d.outcome = outcome
  BY <1>0, <1>2, <1>3, ClientSet, PresentIs
<1>5. d = [Present EXCEPT !.client.active = TRUE] BY <1>1, <1>3, PresentIs
<1>6. PICK r : r = ConnectStart(d, connects) OBVIOUS
<1>7. Results(r) /\ messages # <<>> /\ ~client.active BY <1>5, <1>6 DEF SendsMail
<1>8. client.index = 1 BY <1>0, <1>7 DEF Ordered, Present
<1>9. 1 \in DOMAIN messages BY <1>0, <1>7
<1>10. Concluded(d) BY <1>0, <1>2, <1>4 DEF Concluded, Present
<1>11. ~outcome.plain BY <1>0 DEF Secure, Present
<1>12. Good(r) BY <1>2, <1>4, <1>6, <1>8, <1>9, <1>10, <1>11, ConnectGood
<1> QED BY <1>7, <1>12, ResultsGood

LEMMA ClientReadsStep ==
  ASSUME SMTPInv, NEW n \in 1..Len(toClient), NEW works \in BOOLEAN, ClientReads(n, works)
  PROVE  SMTPInv'
<1>1. PICK p : p = Parse(More, SubSeq(toClient, 1, n)) OBVIOUS
<1>2. PICK code : code = ParsedCode(p, smtp.command.code) OBVIOUS
<1>3. PICK end : end = (~server.open /\ n = Len(toClient)) OBVIOUS
<1>4. PICK read : read = [Present EXCEPT !.c.command.code = code, !.c.graceful = end] OBVIOUS
<1>5. Good(Present) /\ IsConnection(smtp) /\ IsCommand(smtp.command) /\ smtp.open
  BY DEF SMTPInv, Good, IsPresent, IsConnection, Present, ClientReads
<1>6. PICK m : m = [smtp.command EXCEPT !.code = code] OBVIOUS
<1>7. IsCommand(m) /\ m.name = smtp.command.name BY <1>5, <1>6 DEF IsCommand
<1>8. PICK c : c = [smtp EXCEPT !.command = m, !.graceful = end] OBVIOUS
<1>9. IsConnection(c) /\ c.open = smtp.open /\ c.tls = smtp.tls /\ c.command = m
  BY <1>5, <1>7, <1>8 DEF IsConnection
<1>10. read = [Present EXCEPT !.c = c] BY <1>4, <1>6, <1>8, PresentIs
<1>11. Good(read) /\ read.c = c
  <2>1. PICK now : now = Present OBVIOUS
  <2>2. now.c = smtp BY <2>1, PresentIs
  <2>3. Good(now) /\ read = [now EXCEPT !.c = c] BY <1>5, <1>10, <2>1
  <2>4. c.open = now.c.open /\ c.tls = now.c.tls /\ c.command.name = now.c.command.name
    BY <1>7, <1>9, <2>2
  <2> QED BY <1>9, <2>3, <2>4, ConnectionGood
<1>12. PICK d : d = CASE p.result = "invalid" -> Because(DisconnectClient(read), "reply")
                      [] p.result = "complete" -> Handled([read EXCEPT !.c.status = "csReplyOk"], code, works)
                      [] OTHER -> [read EXCEPT !.c.status = "csWaitReply"]
  OBVIOUS
<1>13. Results(d) BY <1>1, <1>2, <1>3, <1>4, <1>12 DEF ClientReads
<1>14. CASE p.result = "invalid"
  <2>1. PICK e : e = DisconnectClient(read) OBVIOUS
  <2>2. d = Because(e, "reply") BY <1>12, <1>14, <2>1
  <2>3. Good(e) BY <1>11, <2>1, DisconnectGood
  <2>4. Good(d) BY <2>2, <2>3, BecauseGood
  <2> QED BY <1>13, <2>4, ResultsGood
<1>15. CASE p.result = "complete"
  <2>1. PICK e : e = [read EXCEPT !.c.status = "csReplyOk"] OBVIOUS
  <2>2. d = Handled(e, code, works) BY <1>12, <1>15, <2>1
  <2>3. Good(e) /\ e.c.open BY <1>5, <1>9, <1>11, <2>1, StatusGood
  <2>4. Good(d) BY <2>2, <2>3, HandledGood
  <2> QED BY <1>13, <2>4, ResultsGood
<1>16. CASE p.result \notin {"invalid", "complete"}
  <2>1. d = [read EXCEPT !.c.status = "csWaitReply"] BY <1>12, <1>16
  <2>2. Good(d) BY <1>11, <2>1, StatusGood
  <2> QED BY <1>13, <2>2, ResultsGood
<1> QED BY <1>14, <1>15, <1>16

\* A connection that is only known to be at its end
LEMMA GracefulGood ==
  ASSUME NEW d, Good(d), NEW r, r = [d EXCEPT !.c.graceful = TRUE]
  PROVE  Good(r)
<1>1. IsConnection(d.c) BY DEF Good, IsPresent
<1>2. PICK c : c = [d.c EXCEPT !.graceful = TRUE] OBVIOUS
<1>3. IsConnection(c) /\ c.open = d.c.open /\ c.tls = d.c.tls /\ c.command = d.c.command
  BY <1>1, <1>2 DEF IsConnection
<1>4. r = [d EXCEPT !.c = c] BY <1>2
<1> QED BY <1>3, <1>4, ConnectionGood

LEMMA ClientReadsEndStep ==
  ASSUME SMTPInv, ClientReadsEnd
  PROVE  SMTPInv'
<1>1. PICK d : d = IF smtp.graceful THEN DisconnectClient(Present) ELSE [Present EXCEPT !.c.graceful = TRUE] OBVIOUS
<1>2. Good(d)
  <2>1. CASE smtp.graceful BY <1>1, <2>1, DisconnectGood DEF SMTPInv
  <2>2. CASE ~smtp.graceful
    <3>1. d = [Present EXCEPT !.c.graceful = TRUE] BY <1>1, <2>2
    <3> QED BY <3>1, GracefulGood DEF SMTPInv
  <2> QED BY <2>1, <2>2
<1>3. PICK r : r = Because(d, "hangup") OBVIOUS
<1>4. Good(r) BY <1>2, <1>3, BecauseGood
<1>5. Results(r) BY <1>1, <1>3 DEF ClientReadsEnd
<1> QED BY <1>4, <1>5, ResultsGood

\* AUTH is written to a connection that has TLS.
LEMMA ClientWritesStep ==
  ASSUME SMTPInv, NEW n \in 1..4, ClientWrites(n)
  PROVE  SMTPInv'
<1>1. CASE smtp.graceful
  <2>1. PICK d : d = DisconnectClient(Present) OBVIOUS
  <2>2. PICK r : r = Because(d, "hangup") OBVIOUS
  <2>3. Good(r) BY <2>1, <2>2, DisconnectGood, BecauseGood DEF SMTPInv
  <2>4. Results(r) BY <1>1, <2>1, <2>2 DEF ClientWrites
  <2> QED BY <2>3, <2>4, ResultsGood
<1>2. CASE ~smtp.graceful
  <2>1. PICK out : out = smtp.out \o (IF smtp.status = "csRequestReady" THEN <<smtp.command, "CRLF">> ELSE <<>>) OBVIOUS
  <2>2. PICK left, status, plain : /\ left = SubSeq(out, n + 1, Len(out)) /\ status = AfterWrite(n = Len(out))
                                   /\ plain = (outcome.plain \/ (smtp.command.name = "AUTH" /\ ~smtp.tls))
    OBVIOUS
  <2>3. PICK r : r = [Present EXCEPT !.c.out = left, !.c.status = status, !.outcome.plain = plain] OBVIOUS
  <2>4. Results(r) BY <1>2, <2>1, <2>2, <2>3, PresentIs DEF ClientWrites
  <2>5. Good(Present) /\ IsConnection(smtp) /\ IsOutcome(outcome) BY DEF SMTPInv, Good, IsPresent, Present
  <2>6. ~outcome.plain /\ (smtp.command.name = "AUTH" => smtp.tls) BY DEF SMTPInv, Good, Secure, Present
  <2>7. plain = FALSE BY <2>2, <2>6
  <2>8. PICK c : c = [smtp EXCEPT !.out = left, !.status = status] OBVIOUS
  <2>9. IsConnection(c) /\ c.open = smtp.open /\ c.tls = smtp.tls /\ c.command = smtp.command
    BY <2>5, <2>8 DEF IsConnection
  <2>10. PICK o : o = [outcome EXCEPT !.plain = plain] OBVIOUS
  <2>11. IsOutcome(o) /\ o.concluded = outcome.concluded /\ ~o.plain BY <2>5, <2>7, <2>10 DEF IsOutcome
  <2>12. PICK d : d = [Present EXCEPT !.c = c] OBVIOUS
  <2>13. Good(d) /\ d.outcome = outcome
    <3>1. Present.c = smtp BY PresentIs
    <3>2. Good(d) BY <2>5, <2>9, <2>12, <3>1, ConnectionGood
    <3> QED BY <2>12, <3>2, PresentIs
  <2>14. r = [d EXCEPT !.outcome = o] BY <2>3, <2>8, <2>10, <2>12, PresentIs
  <2>15. Good(r) BY <2>11, <2>13, <2>14, OutcomeGood
  <2> QED BY <2>4, <2>15, ResultsGood
<1> QED BY <1>1, <1>2

LEMMA ClientTimesOutStep ==
  ASSUME SMTPInv, ClientTimesOut
  PROVE  SMTPInv'
<1>1. PICK d : d = DisconnectClient(Present) OBVIOUS
<1>2. PICK r : r = Because(d, "timeout") OBVIOUS
<1>3. Good(r) BY <1>1, <1>2, DisconnectGood, BecauseGood DEF SMTPInv
<1>4. Results(r) BY <1>1, <1>2 DEF ClientTimesOut
<1> QED BY <1>3, <1>4, ResultsGood

\* What the server does, as far as it is told of
LEMMA ServerStep ==
  ASSUME SMTPInv, UNCHANGED <<messages, client, smtp>>, NEW accepted, NEW why,
         outcome' = [outcome EXCEPT !.accepted = accepted, !.why = why]
  PROVE  SMTPInv'
<1>1. PICK o : o = [outcome EXCEPT !.accepted = accepted, !.why = why] OBVIOUS
<1>2. IsOutcome(outcome) /\ ~outcome.plain BY DEF SMTPInv, Good, Secure, IsPresent, Present
<1>3. IsOutcome(o) /\ o.concluded = outcome.concluded /\ ~o.plain BY <1>1, <1>2 DEF IsOutcome
<1>4. PICK r : r = [Present EXCEPT !.outcome = o] OBVIOUS
<1>5. Present.outcome = outcome BY PresentIs
<1>6. Good(r) BY <1>3, <1>4, <1>5, OutcomeGood DEF SMTPInv
<1>7. Results(r) BY <1>1, <1>4, PresentIs DEF Results
<1> QED BY <1>6, <1>7, ResultsGood

LEMMA ServerAnswersStep ==
  ASSUME SMTPInv, NEW code, ServerAnswers(code)
  PROVE  SMTPInv'
<1>1. IsOutcome(outcome) BY DEF SMTPInv, Good, IsPresent, Present
<1>2. PICK accepted : outcome' = [outcome EXCEPT !.accepted = accepted] BY DEF ServerAnswers
<1>3. outcome' = [outcome EXCEPT !.accepted = accepted, !.why = outcome.why] BY <1>1, <1>2 DEF IsOutcome
<1> QED BY <1>3, ServerStep DEF ServerAnswers

LEMMA ServerHangsUpStep ==
  ASSUME SMTPInv, ServerHangsUp
  PROVE  SMTPInv'
<1>1. IsOutcome(outcome) BY DEF SMTPInv, Good, IsPresent, Present
<1>2. PICK why : outcome' = [outcome EXCEPT !.why = why] BY DEF ServerHangsUp
<1>3. outcome' = [outcome EXCEPT !.accepted = outcome.accepted, !.why = why] BY <1>1, <1>2 DEF IsOutcome
<1> QED BY <1>3, ServerStep DEF ServerHangsUp

-----------------------------------------------------------------------------
(* The theorems *)

LEMMA SMTPInitHolds == SMTPInit => SMTPInv
<1> SUFFICES ASSUME SMTPInit PROVE SMTPInv OBVIOUS
<1>0. client \in [active : {FALSE}, index : {1}, toIndex : {1}, startTls : {FALSE}, ssl : BOOLEAN] BY DEF SMTPInit
<1>a. PICK cl : cl = client OBVIOUS
<1>b. /\ cl = [active |-> cl.active, index |-> cl.index, toIndex |-> cl.toIndex, startTls |-> cl.startTls, ssl |-> cl.ssl]
      /\ cl.active \in {FALSE} /\ cl.index \in {1} /\ cl.toIndex \in {1} /\ cl.startTls \in {FALSE} /\ cl.ssl \in BOOLEAN
  BY <1>0, <1>a
<1>c. cl.active = FALSE /\ cl.startTls = FALSE /\ cl.index = 1 /\ cl.toIndex = 1 BY <1>b
<1>d. cl \in ClientState
  <2>1. cl.active \in BOOLEAN /\ cl.startTls \in BOOLEAN BY <1>b
  <2>2. cl.index \in Nat \ {0} /\ cl.toIndex \in Nat BY <1>c
  <2> QED BY <1>b, <2>1, <2>2 DEF ClientState
<1>1. client \in ClientState /\ client.index = 1 /\ ~client.startTls BY <1>a, <1>c, <1>d
<1>2. IsConnection(smtp) /\ ~smtp.open /\ smtp.command.name = "CONNECT"
  BY DEF SMTPInit, NoConnection, NewCommand, IsConnection, IsCommand, Names
<1>3. IsOutcome(outcome) /\ outcome.concluded = <<>> /\ ~outcome.plain
  BY DEF SMTPInit, NoOutcome, IsOutcome
<1>4. messages = <<>> BY DEF SMTPInit
<1>5. IsPresent(Present) BY <1>1, <1>2, <1>3, <1>4 DEF IsPresent, Present
<1>6. Secure(Present) BY <1>1, <1>2, <1>3 DEF Secure, Present
<1>7. Ordered(Present) BY <1>1, <1>2, <1>3, <1>4 DEF Ordered, Concluded, Present
<1> QED BY <1>5, <1>6, <1>7 DEF SMTPInv, Good

LEMMA SMTPStepHolds == SMTPInv /\ [SMTPNext]_smtpVars => SMTPInv'
<1> SUFFICES ASSUME SMTPInv, [SMTPNext]_smtpVars PROVE SMTPInv' OBVIOUS
<1>1. CASE UNCHANGED smtpVars BY <1>1, UnchangedGood DEF smtpVars
<1>2. ASSUME NEW n \in Recipients, AddsMessage(n) PROVE SMTPInv' BY <1>2, AddsMessageStep
<1>3. ASSUME NEW connects \in BOOLEAN, SendsMail(connects) PROVE SMTPInv' BY <1>3, SendsMailStep
<1>4. ASSUME NEW n \in 1..Len(toClient), NEW works \in BOOLEAN, ClientReads(n, works) PROVE SMTPInv'
  BY <1>4, ClientReadsStep
<1>5. CASE ClientReadsEnd BY <1>5, ClientReadsEndStep
<1>6. ASSUME NEW n \in 1..4, ClientWrites(n) PROVE SMTPInv' BY <1>6, ClientWritesStep
<1>7. CASE NothingToWrite BY <1>7, UnchangedGood DEF NothingToWrite
<1>8. CASE ClientTimesOut BY <1>8, ClientTimesOutStep
<1>9. CASE ServerGreets BY <1>9, UnchangedGood DEF ServerGreets
<1>10. ASSUME NEW code, ServerAnswers(code) PROVE SMTPInv' BY <1>10, ServerAnswersStep
<1>11. CASE ServerHangsUp BY <1>11, ServerHangsUpStep
<1> QED BY <1>1, <1>2, <1>3, <1>4, <1>5, <1>6, <1>7, <1>8, <1>9, <1>10, <1>11 DEF SMTPNext

\* The inductive invariant: m_bStartTls is true of the connection in use, AUTH is only the command of one that has
\* TLS, and m_Index counts the messages that have been concluded, each as it was submitted.
THEOREM ClientInvariant == SMTPSpec => []SMTPInv
BY SMTPInitHolds, SMTPStepHolds, PTL DEF SMTPSpec

\* The user name and the password are never sent in the clear, over however many connections, whatever the server
\* answers and the parser makes of its replies (DoCONNECT, DoHELLO, DoSTARTTLS).
THEOREM TlsBeforeAuth == SMTPSpec => []AuthOverTls
<1>1. SMTPInv => AuthOverTls BY DEF SMTPInv, Good, Secure, Present, AuthOverTls
<1> QED BY <1>1, ClientInvariant, PTL

\* Messages are concluded in their order, each once and none that does not exist, and Done is said of exactly those
\* whose text the server has taken with 250 (DoQUIT, SendNext).
THEOREM ConcludedInOrder == SMTPSpec => []InOrder
<1>1. SMTPInv => InOrder
  <2> SUFFICES ASSUME SMTPInv PROVE InOrder OBVIOUS
  <2>1. messages \in Seq(Message) /\ client \in ClientState BY DEF SMTPInv, Good, IsPresent, Present
  <2>2. Len(outcome.concluded) = client.index - 1 /\ client.index <= Len(messages) + 1
    BY DEF SMTPInv, Good, Ordered, Concluded, Present
  <2>3. Len(outcome.concluded) <= Len(messages) BY <2>1, <2>2 DEF ClientState
  <2> QED BY <2>3 DEF SMTPInv, Good, Ordered, Concluded, Present, InOrder
<1> QED BY <1>1, ClientInvariant, PTL

-----------------------------------------------------------------------------
\* CURLClient

StageNames == {"added", "timed", "waiting", "finished", "ended", "leaked"}
HandlerTypes == {"etEvent", "etTimer", "etDelete"}
Mishaps == {"failed", "threw", "chained"}
Fetch == [stage : StageNames, socket : CurlSockets \cup {NoSocket}, told : Nat]
Handler == [type : HandlerTypes, socket : CurlSockets \cup {NoSocket}, bound : BOOLEAN, armed : BOOLEAN]

\* A state of the client: every fetch is told of its end once, when it ends.
FetchesFormed(list) ==
  /\ list \in Seq(Fetch)
  /\ \A i \in DOMAIN list : list[i].told <= 1 /\ (list[i].stage \in {"ended", "leaked"} \/ list[i].told = 0)
HandlersFormed(list) ==
  /\ DOMAIN list \subseteq Nat \ {0} /\ IsFiniteSet(DOMAIN list)
  /\ list \in [DOMAIN list -> Handler]
Formed(w) ==
  /\ w = [fetches |-> w.fetches, polled |-> w.polled, assigned |-> w.assigned, asked |-> w.asked, curl |-> w.curl,
          astray |-> w.astray]
  /\ FetchesFormed(w.fetches) /\ HandlersFormed(w.polled)
  /\ w.assigned \in [CurlSockets -> Int]
  /\ w.asked \in BOOLEAN
  /\ w.curl \in [timer : Int, running : Nat]
  /\ w.astray \in [why : SUBSET Mishaps, wild : BOOLEAN]

\* What libcurl knows of the handlers is what the client keeps: the sockets that a transfer waits for are watched by
\* the handlers libcurl was given, and the timer's handler is the one that has it.
Linked(w) ==
  /\ ~w.astray.wild
  /\ \A s \in CurlSockets : w.assigned[s] = NoHandler <=> OwnersOf(w, s) = {}
  /\ \A s \in CurlSockets : w.assigned[s] # NoHandler =>
       /\ w.assigned[s] \in DOMAIN w.polled
       /\ w.polled[w.assigned[s]].type = "etEvent" /\ w.polled[w.assigned[s]].socket = s
  /\ \A h \in DOMAIN w.polled : w.polled[h].type = "etEvent" =>
       w.polled[h].socket \in CurlSockets /\ w.assigned[w.polled[h].socket] = h
  /\ w.curl.timer # NoHandler => w.curl.timer \in DOMAIN w.polled /\ w.polled[w.curl.timer].type = "etTimer"
Wants(w) == InStage(w, {"added", "timed"}) # {}
TimerArmed(w) == w.curl.timer \in DOMAIN w.polled /\ w.polled[w.curl.timer].armed
Sane(w) ==
  /\ Formed(w)
  /\ w.astray.why \cap {"failed", "threw"} = {} => Linked(w)
  /\ w.astray.why = {} /\ Wants(w) => TimerArmed(w)

-----------------------------------------------------------------------------
(* Places in the list of handlers *)

\* There is a free place among the first numbers, one more than the list has handlers.
LEMMA FreePlace ==
  ASSUME NEW w, DOMAIN w.polled \subseteq Nat \ {0}, IsFiniteSet(DOMAIN w.polled)
  PROVE  NextHandler(w) \in Nat \ {0} /\ NextHandler(w) \notin DOMAIN w.polled
<1> DEFINE n == Cardinality(DOMAIN w.polled)
           free == (1 .. (n + 1)) \ DOMAIN w.polled
<1>1. n \in Nat BY FS_CardinalityType
<1>2. IsFiniteSet(1 .. (n + 1)) /\ Cardinality(1 .. (n + 1)) = n + 1 BY <1>1, FS_Interval
<1>3. free # {}
  <2> SUFFICES ASSUME 1 .. (n + 1) \in SUBSET DOMAIN w.polled PROVE FALSE OBVIOUS
  <2>1. Cardinality(1 .. (n + 1)) <= n BY FS_Subset
  <2> HIDE DEF n
  <2> QED BY <1>1, <1>2, <2>1
<1>4. free \subseteq Nat \ {0} BY <1>1
<1>5. Min(free) \in free BY <1>3, <1>4, LeastIndex
<1>6. NextHandler(w) = Min(free) BY DEF NextHandler
<1> QED BY <1>4, <1>5, <1>6

-----------------------------------------------------------------------------
(* The methods *)

LEMMA ThereIsNone == DANGLER # NoHandler /\ NoHandler = 0 /\ DANGLER \notin Nat
BY DEF DANGLER, NoHandler

LEMMA AddHandlersDoes ==
  ASSUME NEW w, Formed(w), NEW added, added \in [DOMAIN added -> Handler], DOMAIN added \subseteq Nat \ {0},
         IsFiniteSet(DOMAIN added), NEW r, r = AddHandlers(w, added)
  PROVE  /\ Formed(r) /\ r.fetches = w.fetches /\ r.assigned = w.assigned /\ r.asked = w.asked
         /\ r.curl = w.curl /\ r.astray = w.astray
         /\ DOMAIN r.polled = DOMAIN w.polled \cup DOMAIN added
         /\ \A h \in DOMAIN r.polled : r.polled[h] = IF h \in DOMAIN added THEN added[h] ELSE w.polled[h]
<1>1. /\ r.polled = [h \in DOMAIN w.polled \cup DOMAIN added |->
                       IF h \in DOMAIN added THEN added[h] ELSE w.polled[h]]
      /\ r.fetches = w.fetches /\ r.assigned = w.assigned /\ r.asked = w.asked
      /\ r.curl = w.curl /\ r.astray = w.astray
      /\ r = [fetches |-> r.fetches, polled |-> r.polled, assigned |-> r.assigned, asked |-> r.asked, curl |-> r.curl,
              astray |-> r.astray]
  BY DEF AddHandlers, Formed
<1>2. IsFiniteSet(DOMAIN r.polled) BY <1>1, FS_Union DEF Formed, HandlersFormed
<1>3. HandlersFormed(r.polled)
  <2>1. \A h \in DOMAIN w.polled : w.polled[h] \in Handler BY DEF Formed, HandlersFormed
  <2>2. \A h \in DOMAIN r.polled : r.polled[h] \in Handler BY <1>1, <2>1
  <2>3. DOMAIN r.polled \subseteq Nat \ {0} BY <1>1 DEF Formed, HandlersFormed
  <2>4. r.polled = [h \in DOMAIN r.polled |-> r.polled[h]] BY <1>1
  <2> QED BY <1>2, <2>2, <2>3, <2>4 DEF HandlersFormed
<1> QED BY <1>1, <1>3 DEF Formed

LEMMA UsesDoes ==
  ASSUME NEW w, Formed(w), NEW h, NEW r, r = Uses(w, h)
  PROVE  /\ Formed(r) /\ r.fetches = w.fetches /\ r.polled = w.polled /\ r.assigned = w.assigned
         /\ r.curl = w.curl /\ r.astray.why = w.astray.why
BY DEF Uses, Formed

LEMMA UpdateTimerDoes ==
  ASSUME NEW w, Formed(w), NEW armed \in BOOLEAN, NEW r, r = UpdateTimer(w, armed)
  PROVE  /\ Formed(r) /\ r.fetches = w.fetches /\ r.assigned = w.assigned /\ r.asked = w.asked
         /\ r.curl.running = w.curl.running /\ r.astray.why = w.astray.why
         /\ DOMAIN w.polled \subseteq DOMAIN r.polled
         /\ Linked(w) => Linked(r) /\ r.curl.timer \in DOMAIN r.polled /\ r.polled[r.curl.timer].armed = armed
<1>1. CASE w.curl.timer = NoHandler
  <2>0. PICK h : h = NextHandler(w) OBVIOUS
  <2>1. PICK record : record = [type |-> "etTimer", socket |-> NoSocket, bound |-> TRUE, armed |-> armed] OBVIOUS
  <2>2. PICK added : added = [k \in {h} |-> record] OBVIOUS
  <2>3. PICK v : v = AddHandlers(w, added) OBVIOUS
  <2>4. r = [v EXCEPT !.curl.timer = h]
    BY <1>1, ThereIsNone, <2>0, <2>1, <2>2, <2>3 DEF UpdateTimer
  <2>5. record \in Handler BY <2>1 DEF Handler, HandlerTypes
  <2>6. h \in Nat \ {0} /\ h \notin DOMAIN w.polled BY <2>0, FreePlace DEF Formed, HandlersFormed
  <2>7. added \in [DOMAIN added -> Handler] /\ DOMAIN added \subseteq Nat \ {0} /\ IsFiniteSet(DOMAIN added)
    BY <2>2, <2>5, <2>6, FS_Singleton
  <2>8. /\ Formed(v) /\ v.fetches = w.fetches /\ v.assigned = w.assigned /\ v.asked = w.asked
        /\ v.curl = w.curl /\ v.astray = w.astray
        /\ DOMAIN v.polled = DOMAIN w.polled \cup DOMAIN added
        /\ \A k \in DOMAIN v.polled : v.polled[k] = IF k \in DOMAIN added THEN added[k] ELSE w.polled[k]
    BY ONLY Formed(w), <2>3, <2>7, AddHandlersDoes
  <2>9. /\ DOMAIN v.polled = DOMAIN w.polled \cup {h}
        /\ v.polled[h] = record /\ \A k \in DOMAIN w.polled : v.polled[k] = w.polled[k]
    BY <2>2, <2>6, <2>8
  <2>10. /\ Formed(r) /\ r.fetches = w.fetches /\ r.assigned = w.assigned /\ r.asked = w.asked
         /\ r.curl = [w.curl EXCEPT !.timer = h] /\ r.astray = w.astray /\ r.polled = v.polled
    BY <2>4, <2>6, <2>8 DEF Formed
  <2>11. r.curl.timer = h /\ r.curl.running = w.curl.running BY <2>10 DEF Formed
  <2>12. ASSUME Linked(w) PROVE Linked(r)
    <3>1. \A s : OwnersOf(r, s) = OwnersOf(w, s) BY <2>10 DEF OwnersOf, InStage
    <3> QED BY <2>1, <2>6, <2>9, <2>10, <2>11, <2>12, <3>1, ThereIsNone DEF Linked
  <2> QED BY <2>1, <2>9, <2>10, <2>11, <2>12
<1>2. CASE w.curl.timer = DANGLER
  <2>1. r = [w EXCEPT !.astray.wild = TRUE]
    <3>1. r = Uses(w, DANGLER) BY <1>2, ThereIsNone, Zenon DEF UpdateTimer
    <3> QED BY <3>1 DEF Uses, Formed
  <2>2. ~Linked(w) BY <1>2 DEF Linked, Formed, HandlersFormed, DANGLER, NoHandler
  <2> QED BY <2>1, <2>2 DEF Formed
<1>3. CASE w.curl.timer # NoHandler /\ w.curl.timer # DANGLER
  <2>1. r = [w EXCEPT !.polled[w.curl.timer].armed = armed] BY <1>3 DEF UpdateTimer
  <2>2. /\ r.fetches = w.fetches /\ r.assigned = w.assigned /\ r.asked = w.asked /\ r.curl = w.curl
        /\ r.astray = w.astray /\ r.polled = [w.polled EXCEPT ![w.curl.timer].armed = armed]
        /\ r = [fetches |-> r.fetches, polled |-> r.polled, assigned |-> r.assigned, asked |-> r.asked,
                curl |-> r.curl, astray |-> r.astray]
    BY <2>1 DEF Formed
  <2>3. DOMAIN r.polled = DOMAIN w.polled
    BY <2>2
  <2>4. \A k \in DOMAIN w.polled :
          r.polled[k] = IF k = w.curl.timer THEN [w.polled[k] EXCEPT !.armed = armed] ELSE w.polled[k]
    BY <2>2 DEF Formed, HandlersFormed
  <2>5. \A k \in DOMAIN w.polled : w.polled[k] \in Handler BY DEF Formed, HandlersFormed
  <2>6. \A k \in DOMAIN w.polled :
          /\ r.polled[k] \in Handler /\ r.polled[k].type = w.polled[k].type /\ r.polled[k].socket = w.polled[k].socket
          /\ k = w.curl.timer => r.polled[k].armed = armed
    BY <2>4, <2>5 DEF Handler
  <2>7. HandlersFormed(r.polled)
    <3>1. r.polled = [k \in DOMAIN r.polled |-> r.polled[k]] BY <2>2
    <3> QED BY <2>3, <2>6, <3>1 DEF HandlersFormed, Formed
  <2>8. Formed(r) BY <2>2, <2>7 DEF Formed
  <2>9. ASSUME Linked(w) PROVE Linked(r)
    <3>1. /\ r.fetches = w.fetches /\ r.assigned = w.assigned /\ r.curl.timer = w.curl.timer
          /\ r.astray.wild = w.astray.wild
      BY <2>2
    <3>2. \A s : OwnersOf(r, s) = OwnersOf(w, s) BY <3>1 DEF OwnersOf, InStage
    <3> QED BY <2>3, <2>6, <2>9, <3>1, <3>2 DEF Linked
  <2>10. Linked(w) => w.curl.timer \in DOMAIN w.polled BY <1>3 DEF Linked
  <2> QED BY <2>2, <2>3, <2>6, <2>8, <2>9, <2>10
<1> QED BY <1>1, <1>2, <1>3

LEMMA StopDoes ==
  ASSUME NEW w, Formed(w), NEW h, NEW r, r = Stop(w, h)
  PROVE  /\ Formed(r) /\ r.fetches = w.fetches /\ r.curl = w.curl /\ r.astray.why = w.astray.why
         /\ DOMAIN r.polled = DOMAIN w.polled
<1>1. CASE h = DANGLER
  <2>1. r = Uses(w, h) BY <1>1 DEF Stop
  <2> QED BY <2>1 DEF Uses, Formed
<1>2. CASE h # DANGLER
  <2>1. r = [w EXCEPT !.polled[h].type = "etDelete"] BY <1>2 DEF Stop
  <2>2. /\ r.fetches = w.fetches /\ r.assigned = w.assigned /\ r.asked = w.asked /\ r.curl = w.curl
        /\ r.astray = w.astray /\ r.polled = [w.polled EXCEPT ![h].type = "etDelete"]
        /\ r = [fetches |-> r.fetches, polled |-> r.polled, assigned |-> r.assigned, asked |-> r.asked,
                curl |-> r.curl, astray |-> r.astray]
    BY <2>1 DEF Formed
  <2>3. DOMAIN r.polled = DOMAIN w.polled BY <2>2
  <2>4. \A k \in DOMAIN w.polled :
          r.polled[k] = IF k = h THEN [w.polled[k] EXCEPT !.type = "etDelete"] ELSE w.polled[k]
    BY <2>2
  <2>5. \A k \in DOMAIN w.polled : w.polled[k] \in Handler BY DEF Formed, HandlersFormed
  <2>6. \A k \in DOMAIN w.polled : r.polled[k] \in Handler BY <2>4, <2>5 DEF Handler, HandlerTypes
  <2>7. r.polled = [k \in DOMAIN r.polled |-> r.polled[k]] BY <2>2
  <2>8. HandlersFormed(r.polled) BY <2>3, <2>6, <2>7 DEF HandlersFormed, Formed
  <2> QED BY <2>2, <2>3, <2>8 DEF Formed
<1> QED BY <1>1, <1>2

\* ~CEPollTimer leaves the handlers of the sockets as they are.
LEMMA FreeTimerDoes ==
  ASSUME NEW w, Formed(w), NEW r, r = FreeTimer(w)
  PROVE  /\ Formed(r) /\ r.fetches = w.fetches /\ r.curl.running = w.curl.running /\ r.astray.why = w.astray.why
         /\ DOMAIN r.polled = DOMAIN w.polled
         /\ Linked(w) => Linked(r)
<1>1. CASE w.curl.timer = NoHandler
  <2>1. r = w BY <1>1, ThereIsNone DEF FreeTimer
  <2> QED BY <2>1
<1>2. CASE w.curl.timer = DANGLER
  <2>1. PICK freed : freed = [w EXCEPT !.curl.timer = NoHandler] OBVIOUS
  <2>2. r = Uses(freed, DANGLER) BY <1>2, <2>1, ThereIsNone DEF FreeTimer
  <2>3. ~Linked(w) BY <1>2, ThereIsNone DEF Linked, Formed, HandlersFormed
  <2>4. /\ Formed(freed) /\ freed.fetches = w.fetches /\ freed.polled = w.polled
        /\ freed.curl.running = w.curl.running /\ freed.astray = w.astray
    BY <2>1 DEF Formed, NoHandler
  <2> QED BY <2>2, <2>3, <2>4, UsesDoes
<1>3. CASE w.curl.timer # NoHandler /\ w.curl.timer # DANGLER
  <2>0. PICK t : t = w.curl.timer OBVIOUS
  <2>1. r = [[w EXCEPT !.curl.timer = NoHandler] EXCEPT !.polled[t] = [@ EXCEPT !.type = "etDelete", !.bound = FALSE, !.armed = FALSE]]
    BY <1>3, <2>0 DEF FreeTimer
  <2>2. /\ r.fetches = w.fetches /\ r.assigned = w.assigned /\ r.asked = w.asked
        /\ r.curl = [w.curl EXCEPT !.timer = NoHandler]
        /\ r.astray = w.astray
        /\ r.polled = [w.polled EXCEPT ![t] = [@ EXCEPT !.type = "etDelete", !.bound = FALSE, !.armed = FALSE]]
        /\ r = [fetches |-> r.fetches, polled |-> r.polled, assigned |-> r.assigned, asked |-> r.asked,
                curl |-> r.curl, astray |-> r.astray]
    BY <2>1 DEF Formed
  <2>3. DOMAIN r.polled = DOMAIN w.polled BY <2>2
  <2>4. \A k \in DOMAIN w.polled :
          r.polled[k] = IF k = t THEN [w.polled[k] EXCEPT !.type = "etDelete", !.bound = FALSE, !.armed = FALSE]
                                 ELSE w.polled[k]
    BY <2>2
  <2>5. \A k \in DOMAIN w.polled : w.polled[k] \in Handler BY DEF Formed, HandlersFormed
  <2>6. \A k \in DOMAIN w.polled :
          /\ r.polled[k] \in Handler /\ r.polled[k].socket = w.polled[k].socket
          /\ r.polled[k].type = IF k = t THEN "etDelete" ELSE w.polled[k].type
    BY <2>4, <2>5 DEF Handler, HandlerTypes
  <2>7. r.polled = [k \in DOMAIN r.polled |-> r.polled[k]] BY <2>2
  <2>8. HandlersFormed(r.polled) BY <2>3, <2>6, <2>7 DEF HandlersFormed, Formed
  <2>9. r.curl \in [timer : Int, running : Nat] /\ r.curl.running = w.curl.running /\ r.curl.timer = NoHandler
    BY <2>2 DEF Formed, NoHandler
  <2>10. Formed(r) BY <2>2, <2>8, <2>9 DEF Formed
  <2>11. ASSUME Linked(w) PROVE Linked(r)
    <3>1. /\ r.fetches = w.fetches /\ r.assigned = w.assigned /\ r.astray.wild = w.astray.wild BY <2>2
    <3>2. \A s : OwnersOf(r, s) = OwnersOf(w, s) BY <3>1 DEF OwnersOf, InStage
    <3>3. t \in DOMAIN w.polled /\ w.polled[t].type = "etTimer" BY <1>3, <2>0, <2>11 DEF Linked
    <3>4. \A s \in CurlSockets : w.assigned[s] # NoHandler => w.assigned[s] # t BY <2>11, <3>3 DEF Linked
    <3> QED BY <2>3, <2>6, <2>9, <2>11, <3>1, <3>2, <3>4 DEF Linked
  <2> QED BY <2>2, <2>3, <2>9, <2>10, <2>11
<1> QED BY <1>1, <1>2, <1>3

-----------------------------------------------------------------------------
(* The socket callbacks *)

LEMMA RetypeDoes ==
  ASSUME NEW w, Formed(w), NEW socks, NEW type \in HandlerTypes, NEW r, r = Retype(w, socks, type)
  PROVE  /\ Formed(r) /\ r.fetches = w.fetches /\ r.assigned = w.assigned /\ r.asked = w.asked /\ r.curl = w.curl
         /\ r.astray.why = w.astray.why
         /\ r.astray.wild <=> w.astray.wild \/ DANGLER \in HandlersOf(w, socks)
         /\ DOMAIN r.polled = DOMAIN w.polled
         /\ \A h \in DOMAIN w.polled :
              /\ r.polled[h].socket = w.polled[h].socket
              /\ r.polled[h].type = IF h \in HandlersOf(w, socks) THEN type ELSE w.polled[h].type
<1>1. /\ r.fetches = w.fetches /\ r.assigned = w.assigned /\ r.asked = w.asked /\ r.curl = w.curl
      /\ r.polled = [h \in DOMAIN w.polled |->
                       IF h \in HandlersOf(w, socks) THEN [w.polled[h] EXCEPT !.type = type] ELSE w.polled[h]]
      /\ r.astray = [w.astray EXCEPT !.wild = w.astray.wild \/ DANGLER \in HandlersOf(w, socks)]
      /\ r = [fetches |-> r.fetches, polled |-> r.polled, assigned |-> r.assigned, asked |-> r.asked,
              curl |-> r.curl, astray |-> r.astray]
  BY DEF Retype, Formed
<1>2. \A h \in DOMAIN w.polled : w.polled[h] \in Handler BY DEF Formed, HandlersFormed
<1>3. \A h \in DOMAIN w.polled :
        /\ r.polled[h] \in Handler /\ r.polled[h].socket = w.polled[h].socket
        /\ r.polled[h].type = IF h \in HandlersOf(w, socks) THEN type ELSE w.polled[h].type
  BY <1>1, <1>2 DEF Handler
<1>4. DOMAIN r.polled = DOMAIN w.polled /\ r.polled = [h \in DOMAIN r.polled |-> r.polled[h]] BY <1>1
<1>5. HandlersFormed(r.polled) BY <1>3, <1>4 DEF HandlersFormed, Formed
<1>6. /\ r.astray \in [why : SUBSET Mishaps, wild : BOOLEAN] /\ r.astray.why = w.astray.why
      /\ r.astray.wild <=> w.astray.wild \/ DANGLER \in HandlersOf(w, socks)
  <2>1. w.astray \in [why : SUBSET Mishaps, wild : BOOLEAN] BY DEF Formed
  <2>2. PICK b \in BOOLEAN : b <=> w.astray.wild \/ DANGLER \in HandlersOf(w, socks) OBVIOUS
  <2>3. r.astray = [w.astray EXCEPT !.wild = b]
    <3>1. (w.astray.wild \/ DANGLER \in HandlersOf(w, socks)) = b BY <2>2
    <3> QED BY <1>1, <3>1
  <2> QED BY <2>1, <2>2, <2>3
<1> QED BY <1>1, <1>3, <1>4, <1>5, <1>6 DEF Formed

LEMMA PlacesAre ==
  ASSUME NEW w, HandlersFormed(w.polled), NEW socks \in SUBSET CurlSockets, NEW given \in Places(w, socks)
  PROVE  /\ DOMAIN given = socks /\ \A s, t \in socks : given[s] = given[t] => s = t
         /\ \A s \in socks : given[s] \in Nat \ {0} /\ given[s] \notin DOMAIN w.polled
         /\ Range(given) = {given[s] : s \in socks} /\ IsFiniteSet(Range(given))
<1> DEFINE n == Cardinality(DOMAIN w.polled) + Cardinality(socks)
           room == (1 .. n) \ DOMAIN w.polled
<1>1. IsFiniteSet(socks) BY CurlSocketsAssumption, FS_Subset
<1>2. n \in Nat
  <2>1. Cardinality(socks) \in Nat BY <1>1, FS_CardinalityType
  <2>2. Cardinality(DOMAIN w.polled) \in Nat BY FS_CardinalityType DEF HandlersFormed
  <2> QED BY <2>1, <2>2
<1> HIDE DEF n
<1>3. given \in [socks -> room] /\ \A s, t \in socks : given[s] = given[t] => s = t
  BY DEF Places, Injection, IsInjective, n
<1>4. IsFiniteSet(1 .. n) BY <1>2, FS_Interval
<1>5. Range(given) = {given[s] : s \in socks} BY <1>3 DEF Range
<1>6. Range(given) \in SUBSET (1 .. n) BY <1>3, <1>5
<1>7. IsFiniteSet(Range(given)) BY <1>4, <1>6, FS_Subset
<1>8. \A s \in socks : given[s] \in 1 .. n /\ given[s] \notin DOMAIN w.polled BY <1>3
<1> QED BY <1>2, <1>3, <1>5, <1>7, <1>8

LEMMA AddSocketDoes ==
  ASSUME NEW w, Formed(w), NEW socks \in SUBSET CurlSockets, NEW given \in Places(w, socks),
         NEW r, r = AddSocket(w, given)
  PROVE  /\ Formed(r) /\ r.fetches = w.fetches /\ r.asked = w.asked /\ r.curl = w.curl /\ r.astray = w.astray
         /\ DOMAIN r.polled = DOMAIN w.polled \cup {given[s] : s \in socks}
         /\ \A h \in DOMAIN w.polled : r.polled[h] = w.polled[h]
         /\ \A s \in CurlSockets \ socks : r.assigned[s] = w.assigned[s]
         /\ \A s \in socks : /\ r.assigned[s] = given[s] /\ given[s] \in DOMAIN r.polled \ DOMAIN w.polled
                             /\ r.polled[given[s]].type = "etEvent" /\ r.polled[given[s]].socket = s
<1>1. /\ DOMAIN given = socks /\ \A s, t \in socks : given[s] = given[t] => s = t
      /\ \A s \in socks : given[s] \in Nat \ {0} /\ given[s] \notin DOMAIN w.polled
      /\ Range(given) = {given[s] : s \in socks} /\ IsFiniteSet(Range(given))
  BY PlacesAre DEF Formed
<1> DEFINE SocketOf(h) == CHOOSE s \in DOMAIN given : given[s] = h
<1>2. PICK added : added = [h \in Range(given) |->
                              [type |-> "etEvent", socket |-> SocketOf(h), bound |-> FALSE, armed |-> FALSE]]
  OBVIOUS
<1>3. \A s \in socks : SocketOf(given[s]) = s BY <1>1
<1> HIDE DEF SocketOf
<1>4. /\ DOMAIN added = Range(given) /\ added = [h \in DOMAIN added |-> added[h]]
      /\ \A s \in socks : added[given[s]] = [type |-> "etEvent", socket |-> s, bound |-> FALSE, armed |-> FALSE]
  BY <1>1, <1>2, <1>3
<1>5. \A h \in DOMAIN added : added[h] \in Handler
  <2> SUFFICES ASSUME NEW h \in DOMAIN added PROVE added[h] \in Handler OBVIOUS
  <2>1. PICK s \in socks : h = given[s] BY <1>1, <1>4
  <2>2. added[h] = [type |-> "etEvent", socket |-> s, bound |-> FALSE, armed |-> FALSE] BY <1>4, <2>1
  <2>3. s \in CurlSockets OBVIOUS
  <2> QED BY <2>2, <2>3 DEF Handler, HandlerTypes
<1>6. PICK v : v = AddHandlers(w, added) OBVIOUS
<1>7. /\ added \in [DOMAIN added -> Handler] /\ DOMAIN added \subseteq Nat \ {0}
      /\ IsFiniteSet(DOMAIN added)
  BY <1>1, <1>4, <1>5
<1>8. /\ Formed(v) /\ v.fetches = w.fetches /\ v.assigned = w.assigned /\ v.asked = w.asked
      /\ v.curl = w.curl /\ v.astray = w.astray
      /\ DOMAIN v.polled = DOMAIN w.polled \cup DOMAIN added
      /\ \A h \in DOMAIN v.polled : v.polled[h] = IF h \in DOMAIN added THEN added[h] ELSE w.polled[h]
  BY ONLY Formed(w), <1>6, <1>7, AddHandlersDoes
<1>9. r = [v EXCEPT !.assigned = [s \in CurlSockets |-> IF s \in DOMAIN given THEN given[s] ELSE w.assigned[s]]]
  BY <1>2, <1>6 DEF AddSocket, SocketOf
<1>10. /\ r.fetches = v.fetches /\ r.polled = v.polled /\ r.asked = v.asked /\ r.curl = v.curl /\ r.astray = v.astray
       /\ r.assigned = [s \in CurlSockets |-> IF s \in DOMAIN given THEN given[s] ELSE w.assigned[s]]
       /\ r = [fetches |-> r.fetches, polled |-> r.polled, assigned |-> r.assigned, asked |-> r.asked,
               curl |-> r.curl, astray |-> r.astray]
  BY <1>8, <1>9 DEF Formed
<1>11. r.assigned \in [CurlSockets -> Int] BY <1>1, <1>10 DEF Formed
<1>12. Formed(r) BY <1>8, <1>10, <1>11 DEF Formed
<1>13. /\ \A s \in CurlSockets \ socks : r.assigned[s] = w.assigned[s]
       /\ \A s \in socks : r.assigned[s] = given[s]
  BY <1>1, <1>10
<1>14. \A s \in socks : /\ given[s] \in DOMAIN r.polled \ DOMAIN w.polled
                        /\ r.polled[given[s]].type = "etEvent" /\ r.polled[given[s]].socket = s
  <2> SUFFICES ASSUME NEW s \in socks
               PROVE  /\ given[s] \in DOMAIN r.polled \ DOMAIN w.polled
                      /\ r.polled[given[s]].type = "etEvent" /\ r.polled[given[s]].socket = s
    OBVIOUS
  <2>1. given[s] \in DOMAIN added /\ given[s] \notin DOMAIN w.polled BY <1>1, <1>4
  <2>2. r.polled[given[s]] = added[given[s]] BY <1>8, <1>10, <2>1
  <2>3. added[given[s]] = [type |-> "etEvent", socket |-> s, bound |-> FALSE, armed |-> FALSE] BY <1>4
  <2>4. given[s] \in DOMAIN r.polled BY <1>8, <1>10, <2>1
  <2> QED BY <2>1, <2>2, <2>3, <2>4
<1>15. /\ DOMAIN r.polled = DOMAIN w.polled \cup {given[s] : s \in socks}
       /\ \A h \in DOMAIN w.polled : r.polled[h] = w.polled[h]
  BY <1>1, <1>4, <1>8, <1>10
<1> QED BY <1>8, <1>10, <1>12, <1>13, <1>14, <1>15

\* After the socket callbacks of a call the handlers are again those of the sockets that a transfer waits for.
LEMMA TellSocketsDoes ==
  ASSUME NEW w, Formed(w), NEW v, Formed(v), v.polled = w.polled, v.assigned = w.assigned, v.asked = w.asked,
         v.curl = w.curl, v.astray = w.astray, NEW r \in TellSockets(w, v)
  PROVE  /\ Formed(r) /\ r.fetches = v.fetches /\ r.asked = v.asked /\ r.curl = v.curl /\ r.astray.why = v.astray.why
         /\ DOMAIN v.polled \subseteq DOMAIN r.polled
         /\ Linked(w) => Linked(r)
<1>0. PICK K, G, T : K = Kept(w, v) /\ G = GivenUp(w, v) /\ T = Taken(w, v) OBVIOUS
<1>1. PICK a : a = Retype(v, K, "etEvent") OBVIOUS
<1>2. PICK b : b = Retype(a, G, "etDelete") OBVIOUS
<1>3. PICK c : c = [b EXCEPT !.assigned = [s \in CurlSockets |-> IF s \in G THEN NoHandler ELSE a.assigned[s]]]
  OBVIOUS
<1>4. PICK given \in Places(v, T) : r = AddSocket(c, given)
  BY <1>0, <1>1, <1>2, <1>3 DEF TellSockets, SetSocket, RemoveSocket
<1>5. K \subseteq CurlSockets /\ G \subseteq CurlSockets /\ T \subseteq CurlSockets
  BY <1>0 DEF Kept, GivenUp, Taken
<1>6. /\ Formed(a) /\ a.fetches = v.fetches /\ a.assigned = v.assigned /\ a.asked = v.asked /\ a.curl = v.curl
      /\ a.astray.why = v.astray.why
      /\ a.astray.wild <=> v.astray.wild \/ DANGLER \in HandlersOf(v, K)
      /\ DOMAIN a.polled = DOMAIN v.polled
      /\ \A h \in DOMAIN v.polled :
           /\ a.polled[h].socket = v.polled[h].socket
           /\ a.polled[h].type = IF h \in HandlersOf(v, K) THEN "etEvent" ELSE v.polled[h].type
  <2>1. "etEvent" \in HandlerTypes BY DEF HandlerTypes
  <2> QED BY ONLY Formed(v), <1>1, <2>1, RetypeDoes
<1>7. /\ Formed(b) /\ b.fetches = a.fetches /\ b.assigned = a.assigned /\ b.asked = a.asked /\ b.curl = a.curl
      /\ b.astray.why = a.astray.why
      /\ b.astray.wild <=> a.astray.wild \/ DANGLER \in HandlersOf(a, G)
      /\ DOMAIN b.polled = DOMAIN a.polled
      /\ \A h \in DOMAIN a.polled :
           /\ b.polled[h].socket = a.polled[h].socket
           /\ b.polled[h].type = IF h \in HandlersOf(a, G) THEN "etDelete" ELSE a.polled[h].type
  <2>1. "etDelete" \in HandlerTypes BY DEF HandlerTypes
  <2> QED BY ONLY <1>6, <1>2, <2>1, RetypeDoes
<1>8. /\ Formed(c) /\ c.fetches = b.fetches /\ c.polled = b.polled /\ c.asked = b.asked /\ c.curl = b.curl
      /\ c.astray = b.astray
      /\ \A s \in CurlSockets : c.assigned[s] = IF s \in G THEN NoHandler ELSE v.assigned[s]
  <2>1. /\ c.fetches = b.fetches /\ c.polled = b.polled /\ c.asked = b.asked /\ c.curl = b.curl
        /\ c.astray = b.astray
        /\ c.assigned = [s \in CurlSockets |-> IF s \in G THEN NoHandler ELSE a.assigned[s]]
        /\ c = [fetches |-> c.fetches, polled |-> c.polled, assigned |-> c.assigned, asked |-> c.asked,
                curl |-> c.curl, astray |-> c.astray]
    BY <1>3, <1>7 DEF Formed
  <2>2. c.assigned \in [CurlSockets -> Int] BY <1>6, <2>1 DEF Formed, NoHandler
  <2> QED BY <1>6, <1>7, <2>1, <2>2 DEF Formed
<1>9. given \in Places(c, T)
  <2>1. DOMAIN c.polled = DOMAIN v.polled BY <1>6, <1>7, <1>8
  <2> QED BY <2>1 DEF Places
<1>10. T \in SUBSET CurlSockets BY <1>5
<1>11. /\ Formed(r) /\ r.fetches = c.fetches /\ r.asked = c.asked /\ r.curl = c.curl /\ r.astray = c.astray
       /\ DOMAIN r.polled = DOMAIN c.polled \cup {given[s] : s \in T}
       /\ \A h \in DOMAIN c.polled : r.polled[h] = c.polled[h]
       /\ \A s \in CurlSockets \ T : r.assigned[s] = c.assigned[s]
       /\ \A s \in T : /\ r.assigned[s] = given[s] /\ given[s] \in DOMAIN r.polled \ DOMAIN c.polled
                       /\ r.polled[given[s]].type = "etEvent" /\ r.polled[given[s]].socket = s
  BY ONLY <1>4, <1>8, <1>9, <1>10, AddSocketDoes
<1>12. ASSUME Linked(w) PROVE Linked(r)
  <2>1. /\ \A s \in K : OwnersOf(w, s) # {} /\ OwnersOf(v, s) = OwnersOf(w, s)
        /\ \A s \in G : OwnersOf(w, s) # {} /\ OwnersOf(v, s) # OwnersOf(w, s)
        /\ \A s \in T : OwnersOf(v, s) # {} /\ OwnersOf(v, s) # OwnersOf(w, s)
        /\ \A s \in CurlSockets \ (G \cup T) : OwnersOf(v, s) = OwnersOf(w, s)
        /\ \A s \in G \ T : OwnersOf(v, s) = {}
    BY <1>0 DEF Kept, GivenUp, Taken
  <2>2. \A s : OwnersOf(r, s) = OwnersOf(v, s)
    <3>1. r.fetches = v.fetches BY <1>6, <1>7, <1>8, <1>11
    <3> QED BY <3>1 DEF OwnersOf, InStage
  <2>3. /\ ~w.astray.wild
        /\ \A s \in CurlSockets : w.assigned[s] = NoHandler <=> OwnersOf(w, s) = {}
        /\ \A s \in CurlSockets : w.assigned[s] # NoHandler =>
             /\ w.assigned[s] \in DOMAIN w.polled
             /\ w.polled[w.assigned[s]].type = "etEvent" /\ w.polled[w.assigned[s]].socket = s
        /\ \A h \in DOMAIN w.polled : w.polled[h].type = "etEvent" =>
             w.polled[h].socket \in CurlSockets /\ w.assigned[w.polled[h].socket] = h
        /\ w.curl.timer # NoHandler => w.curl.timer \in DOMAIN w.polled /\ w.polled[w.curl.timer].type = "etTimer"
    BY <1>12 DEF Linked
  <2>4. DOMAIN w.polled \subseteq Nat \ {0} BY DEF Formed, HandlersFormed
  <2>5. /\ HandlersOf(v, K) = {w.assigned[s] : s \in K} /\ HandlersOf(a, G) = {w.assigned[s] : s \in G}
    BY <1>6 DEF HandlersOf
  <2>6. DANGLER \notin HandlersOf(v, K) /\ DANGLER \notin HandlersOf(a, G)
    BY <1>5, <2>1, <2>3, <2>4, <2>5, ThereIsNone
  <2>7. ~r.astray.wild BY <1>6, <1>7, <1>8, <1>11, <2>3, <2>6
  <2>8. DOMAIN c.polled = DOMAIN w.polled BY <1>6, <1>7, <1>8
  <2>9. \A h \in DOMAIN w.polled :
          /\ r.polled[h].socket = w.polled[h].socket
          /\ r.polled[h].type = IF h \in HandlersOf(a, G) THEN "etDelete"
                                ELSE IF h \in HandlersOf(v, K) THEN "etEvent" ELSE w.polled[h].type
    BY <1>6, <1>7, <1>8, <1>11, <2>8
  <2>10. \A s \in CurlSockets \ T : r.assigned[s] = IF s \in G THEN NoHandler ELSE w.assigned[s]
    BY <1>8, <1>11
  <2>15. /\ DOMAIN r.polled \subseteq Nat \ {0} /\ NoHandler = 0 BY <1>11, ThereIsNone DEF Formed, HandlersFormed
  <2>16. \A s \in G \cup K : w.assigned[s] \in DOMAIN w.polled /\ w.polled[w.assigned[s]].type = "etEvent"
                             /\ w.polled[w.assigned[s]].socket = s
    BY <1>5, <2>1, <2>3
  <2>11. \A s \in CurlSockets : r.assigned[s] = NoHandler <=> OwnersOf(r, s) = {}
    <3> SUFFICES ASSUME NEW s \in CurlSockets PROVE r.assigned[s] = NoHandler <=> OwnersOf(v, s) = {} BY <2>2
    <3>1. CASE s \in T
      <4>1. r.assigned[s] \in DOMAIN r.polled BY <1>11, <3>1
      <4> QED BY <2>15, <2>1, <3>1, <4>1
    <3>2. CASE s \notin T /\ s \in G BY <2>1, <2>10, <3>2
    <3>3. CASE s \notin T /\ s \notin G BY <2>1, <2>3, <2>10, <3>3
    <3> QED BY <3>1, <3>2, <3>3
  <2>12. \A s \in CurlSockets : r.assigned[s] # NoHandler =>
           /\ r.assigned[s] \in DOMAIN r.polled
           /\ r.polled[r.assigned[s]].type = "etEvent" /\ r.polled[r.assigned[s]].socket = s
    <3> SUFFICES ASSUME NEW s \in CurlSockets, r.assigned[s] # NoHandler
                 PROVE  /\ r.assigned[s] \in DOMAIN r.polled
                        /\ r.polled[r.assigned[s]].type = "etEvent" /\ r.polled[r.assigned[s]].socket = s
      OBVIOUS
    <3>1. CASE s \in T BY <1>11, <3>1
    <3>2. CASE s \notin T
      <4>1. s \notin G /\ r.assigned[s] = w.assigned[s] BY <2>10, <3>2
      <4>2. PICK h \in DOMAIN w.polled : h = w.assigned[s] /\ w.polled[h].type = "etEvent" /\ w.polled[h].socket = s
        BY <2>3, <4>1
      <4>3. h \notin HandlersOf(a, G) BY <2>16, <2>5, <4>1, <4>2
      <4>4. r.polled[h].type = "etEvent" /\ r.polled[h].socket = s BY <2>9, <4>2, <4>3
      <4>5. h \in DOMAIN r.polled BY <1>11, <2>8
      <4> QED BY <4>1, <4>2, <4>4, <4>5
    <3> QED BY <3>1, <3>2
  <2>13. \A h \in DOMAIN r.polled : r.polled[h].type = "etEvent" =>
           r.polled[h].socket \in CurlSockets /\ r.assigned[r.polled[h].socket] = h
    <3> SUFFICES ASSUME NEW h \in DOMAIN r.polled, r.polled[h].type = "etEvent"
                 PROVE  r.polled[h].socket \in CurlSockets /\ r.assigned[r.polled[h].socket] = h
      OBVIOUS
    <3>1. CASE h \notin DOMAIN w.polled
      <4>1. PICK s \in T : h = given[s] BY <1>11, <2>8, <3>1
      <4> QED BY <1>5, <1>11, <4>1
    <3>2. CASE h \in DOMAIN w.polled
      <4>1. h \notin HandlersOf(a, G) BY <2>9, <3>2
      <4>2. w.polled[h].type = "etEvent" BY <2>16, <2>5, <2>9, <3>2, <4>1
      <4>3. PICK s \in CurlSockets : s = w.polled[h].socket /\ w.assigned[s] = h BY <2>3, <3>2, <4>2
      <4>4. s \notin G BY <2>5, <4>1, <4>3
      <4>5. OwnersOf(w, s) # {}
        <5>1. h # NoHandler BY <2>15
        <5> QED BY <2>3, <4>3, <5>1
      <4>6. s \notin T BY <1>0, <4>4, <4>5 DEF Taken, GivenUp
      <4> QED BY <2>9, <2>10, <3>2, <4>3, <4>4, <4>6
    <3> QED BY <3>1, <3>2
  <2>14. r.curl.timer # NoHandler => r.curl.timer \in DOMAIN r.polled /\ r.polled[r.curl.timer].type = "etTimer"
    <3>1. r.curl = w.curl BY <1>6, <1>7, <1>8, <1>11
    <3> SUFFICES ASSUME NEW t, t = w.curl.timer, t # NoHandler
                 PROVE  t \in DOMAIN r.polled /\ r.polled[t].type = "etTimer"
      BY <3>1
    <3>2. t \in DOMAIN w.polled /\ w.polled[t].type = "etTimer" BY <2>3
    <3>3. t \notin HandlersOf(a, G) /\ t \notin HandlersOf(v, K) BY <2>16, <2>5, <3>2
    <3> QED BY <1>11, <2>8, <2>9, <3>2, <3>3
  <2> QED BY <2>7, <2>11, <2>12, <2>13, <2>14 DEF Linked
<1>13. DOMAIN v.polled \subseteq DOMAIN r.polled BY <1>6, <1>7, <1>8, <1>11
<1> QED BY <1>6, <1>7, <1>8, <1>11, <1>12, <1>13

-----------------------------------------------------------------------------
(* libcurl's calls and the methods that make them *)

LEMMA SameFetches ==
  ASSUME NEW w, NEW r, r.fetches = w.fetches
  PROVE  /\ \A stages : InStage(r, stages) = InStage(w, stages)
         /\ \A s : OwnersOf(r, s) = OwnersOf(w, s)
         /\ Wants(r) <=> Wants(w)
BY DEF Wants, OwnersOf, InStage

LEMMA TellTimerDoes ==
  ASSUME NEW w, Formed(w), NEW r, r = TellTimer(w)
  PROVE  /\ Formed(r) /\ r.fetches = w.fetches /\ r.curl.running = w.curl.running /\ r.astray.why = w.astray.why
         /\ DOMAIN w.polled \subseteq DOMAIN r.polled
         /\ Linked(w) => Linked(r) /\ (Wants(r) => TimerArmed(r))
<1>1. PICK wants \in BOOLEAN : wants = (InStage(w, {"added", "timed"}) # {}) OBVIOUS
<1>2. CASE ~(wants \/ w.asked)
  <2>1. r = w BY <1>1, <1>2 DEF TellTimer
  <2> QED BY <1>1, <1>2, <2>1 DEF Wants
<1>3. CASE wants \/ w.asked
  <2>1. PICK v : v = UpdateTimer(w, wants) OBVIOUS
  <2>2. r = [v EXCEPT !.asked = wants] BY <1>1, <1>3, <2>1 DEF TellTimer
  <2>3. /\ Formed(v) /\ v.fetches = w.fetches /\ v.assigned = w.assigned /\ v.asked = w.asked
        /\ v.curl.running = w.curl.running /\ v.astray.why = w.astray.why
        /\ DOMAIN w.polled \subseteq DOMAIN v.polled
        /\ Linked(w) => Linked(v) /\ v.curl.timer \in DOMAIN v.polled /\ v.polled[v.curl.timer].armed = wants
    BY ONLY Formed(w), wants \in BOOLEAN, <2>1, UpdateTimerDoes
  <2>4. /\ Formed(r) /\ r.fetches = v.fetches /\ r.polled = v.polled /\ r.assigned = v.assigned /\ r.curl = v.curl
        /\ r.astray = v.astray
    BY <2>2, <2>3 DEF Formed
  <2>5. Linked(v) => Linked(r)
    <3>1. \A s : OwnersOf(r, s) = OwnersOf(v, s) BY <2>4, SameFetches
    <3> QED BY <2>4, <3>1 DEF Linked
  <2>6. Wants(r) <=> wants
    <3>1. Wants(r) <=> Wants(w) BY <2>3, <2>4, SameFetches
    <3> QED BY <1>1, <3>1 DEF Wants
  <2> QED BY <2>3, <2>4, <2>5, <2>6 DEF TimerArmed
<1> QED BY <1>2, <1>3

LEMMA MovedIs ==
  ASSUME NEW w, Formed(w), NEW s, NEW to \in Moves(w, s), NEW v, v = Moved(w, to)
  PROVE  /\ Formed(v) /\ v.polled = w.polled /\ v.assigned = w.assigned /\ v.asked = w.asked
         /\ v.curl = w.curl /\ v.astray = w.astray
<1>1. PICK timed \in SUBSET InStage(w, {"added", "timed"}) : to \in [timed \cup OwnersOf(w, s) -> Stages]
  BY DEF Moves
<1>2. /\ v.fetches = [i \in DOMAIN w.fetches |-> IF i \in DOMAIN to THEN to[i] ELSE w.fetches[i]]
      /\ v.polled = w.polled /\ v.assigned = w.assigned /\ v.asked = w.asked /\ v.curl = w.curl
      /\ v.astray = w.astray
      /\ v = [fetches |-> v.fetches, polled |-> v.polled, assigned |-> v.assigned, asked |-> v.asked, curl |-> v.curl,
              astray |-> v.astray]
  BY DEF Moved, Formed
<1>3. \A i \in DOMAIN to : to[i] \in Fetch /\ to[i].told = 0
  BY <1>1 DEF Stages, Fetch, StageNames, NoSocket
<1>4. \A i \in DOMAIN w.fetches : w.fetches[i] \in Fetch
  BY DEF Formed, FetchesFormed
<1>5. DOMAIN v.fetches = DOMAIN w.fetches BY <1>2
<1>6. \A i \in DOMAIN v.fetches :
        /\ v.fetches[i] \in Fetch /\ v.fetches[i].told <= 1
        /\ v.fetches[i].stage \in {"ended", "leaked"} \/ v.fetches[i].told = 0
  <2> SUFFICES ASSUME NEW i \in DOMAIN v.fetches
               PROVE  /\ v.fetches[i] \in Fetch /\ v.fetches[i].told <= 1
                      /\ v.fetches[i].stage \in {"ended", "leaked"} \/ v.fetches[i].told = 0
    OBVIOUS
  <2>1. CASE i \in DOMAIN to
    <3>1. v.fetches[i] = to[i] BY <1>2, <1>5, <2>1
    <3> QED BY <1>3, <2>1, <3>1
  <2>2. CASE i \notin DOMAIN to
    <3>1. v.fetches[i] = w.fetches[i] BY <1>2, <1>5, <2>2
    <3> QED BY <1>4, <1>5, <3>1 DEF Formed, FetchesFormed
  <2> QED BY <2>1, <2>2
<1>7. v.fetches \in Seq(Fetch)
  <2>1. PICK n \in Nat : DOMAIN w.fetches = 1 .. n BY DEF Formed, FetchesFormed
  <2>2. v.fetches \in [1 .. n -> Fetch] BY <1>2, <1>5, <1>6, <2>1
  <2> QED BY <2>2, SeqDef
<1>8. FetchesFormed(v.fetches) BY <1>6, <1>7 DEF FetchesFormed
<1> QED BY <1>2, <1>8 DEF Formed

LEMMA InStageFinite ==
  ASSUME NEW w, w.fetches \in Seq(Fetch), NEW stages
  PROVE  /\ IsFiniteSet(InStage(w, stages)) /\ Cardinality(InStage(w, stages)) \in Nat
         /\ Cardinality(InStage(w, stages)) = 0 => InStage(w, stages) = {}
<1>1. PICK n \in Nat : DOMAIN w.fetches = 1 .. n OBVIOUS
<1>2. IsFiniteSet(1 .. n) BY FS_Interval
<1>3. InStage(w, stages) \in SUBSET (1 .. n) BY <1>1 DEF InStage
<1>4. IsFiniteSet(InStage(w, stages)) BY <1>2, <1>3, FS_Subset
<1> QED BY <1>4, FS_CardinalityType, FS_EmptySet

LEMMA SocketActionDoes ==
  ASSUME NEW w, Formed(w), NEW s, NEW r \in SocketAction(w, s)
  PROVE  /\ Formed(r) /\ r.astray.why = w.astray.why /\ DOMAIN w.polled \subseteq DOMAIN r.polled
         /\ Linked(w) => Linked(r) /\ (Wants(r) => TimerArmed(r))
         /\ r.curl.running = 0 => InStage(r, {"timed", "waiting"}) = {}
<1>1. PICK to \in Moves(w, s) : \E v \in TellSockets(w, Moved(w, to)) :
        r = [TellTimer(v) EXCEPT !.curl.running = Cardinality(InStage(v, {"added", "timed", "waiting"}))]
  BY DEF SocketAction
<1>2. PICK m : m = Moved(w, to) OBVIOUS
<1>3. PICK v \in TellSockets(w, m) :
        r = [TellTimer(v) EXCEPT !.curl.running = Cardinality(InStage(v, {"added", "timed", "waiting"}))]
  BY <1>1, <1>2
<1>4. PICK u : u = TellTimer(v) OBVIOUS
<1>5. PICK n : n = Cardinality(InStage(v, {"added", "timed", "waiting"})) OBVIOUS
<1>6. r = [u EXCEPT !.curl.running = n] BY <1>3, <1>4, <1>5
<1>7. /\ Formed(m) /\ m.polled = w.polled /\ m.assigned = w.assigned /\ m.asked = w.asked
      /\ m.curl = w.curl /\ m.astray = w.astray
  BY <1>2, MovedIs
<1>8. /\ Formed(v) /\ v.fetches = m.fetches /\ v.astray.why = m.astray.why
      /\ DOMAIN m.polled \subseteq DOMAIN v.polled
      /\ Linked(w) => Linked(v)
  BY ONLY Formed(w), <1>7, <1>3, TellSocketsDoes
<1>9. /\ Formed(u) /\ u.fetches = v.fetches /\ u.astray.why = v.astray.why
      /\ DOMAIN v.polled \subseteq DOMAIN u.polled
      /\ Linked(v) => Linked(u) /\ (Wants(u) => TimerArmed(u))
  BY ONLY <1>8, <1>4, TellTimerDoes
<1>10. n \in Nat /\ n = 0 => InStage(v, {"added", "timed", "waiting"}) = {}
  BY <1>5, <1>8, InStageFinite DEF Formed, FetchesFormed
<1>11. n \in Nat BY <1>5, <1>8, InStageFinite DEF Formed, FetchesFormed
<1>12. /\ r.fetches = u.fetches /\ r.polled = u.polled /\ r.assigned = u.assigned /\ r.asked = u.asked
       /\ r.curl = [u.curl EXCEPT !.running = n] /\ r.astray = u.astray
       /\ r = [fetches |-> r.fetches, polled |-> r.polled, assigned |-> r.assigned, asked |-> r.asked, curl |-> r.curl,
               astray |-> r.astray]
  BY <1>6, <1>9 DEF Formed
<1>13. r.curl \in [timer : Int, running : Nat] /\ r.curl.timer = u.curl.timer /\ r.curl.running = n
  BY <1>9, <1>11, <1>12 DEF Formed
<1>14. Formed(r) BY <1>9, <1>12, <1>13 DEF Formed
<1>15. \A t : OwnersOf(r, t) = OwnersOf(u, t) BY <1>12, SameFetches
<1>16. Wants(r) <=> Wants(u) BY <1>12, SameFetches
<1>17. Linked(u) => Linked(r) BY <1>12, <1>13, <1>15 DEF Linked
<1>18. TimerArmed(u) => TimerArmed(r) BY <1>12, <1>13 DEF TimerArmed
<1>19. r.curl.running = 0 => InStage(r, {"timed", "waiting"}) = {}
  <2>1. InStage(r, {"timed", "waiting"}) = InStage(v, {"timed", "waiting"}) BY <1>9, <1>12, SameFetches
  <2> QED BY <1>10, <1>11, <1>13, <2>1 DEF InStage
<1>20. r.astray.why = w.astray.why BY <1>7, <1>8, <1>9, <1>12
<1>21. DOMAIN w.polled \subseteq DOMAIN r.polled
  <2>1. m.polled = w.polled /\ r.polled = u.polled BY <1>7, <1>12
  <2>2. DOMAIN m.polled \subseteq DOMAIN v.polled /\ DOMAIN v.polled \subseteq DOMAIN u.polled BY <1>8, <1>9
  <2> QED BY ONLY <2>1, <2>2
<1>22. Linked(w) => Linked(u) /\ (Wants(u) => TimerArmed(u)) BY <1>8, <1>9
<1> QED BY ONLY <1>14, <1>16, <1>17, <1>18, <1>19, <1>20, <1>21, <1>22

LEMMA PerformDoes ==
  ASSUME NEW w, Formed(w), NEW r, r = Perform(w)
  PROVE  /\ Formed(r) /\ r.astray.why = w.astray.why /\ r.curl.running = w.curl.running
         /\ DOMAIN w.polled \subseteq DOMAIN r.polled
         /\ Linked(w) => Linked(r) /\ TimerArmed(r)
         /\ InStage(r, {"finished"}) = InStage(w, {"finished"})
         /\ InStage(r, {"timed", "waiting"}) = InStage(w, {"timed", "waiting"})
<1>1. PICK fetch : fetch = [stage |-> "added", socket |-> NoSocket, told |-> 0] OBVIOUS
<1>2. PICK v : v = [w EXCEPT !.fetches = Append(w.fetches, fetch)] OBVIOUS
<1>3. PICK u : u = TellTimer(v) OBVIOUS
<1>4. r = UpdateTimer(u, TRUE) BY <1>1, <1>2, <1>3 DEF Perform
<1>5. fetch \in Fetch /\ fetch.told = 0 /\ fetch.stage = "added" BY <1>1 DEF Fetch, StageNames, NoSocket
<1>6. /\ v.fetches = Append(w.fetches, fetch) /\ v.polled = w.polled /\ v.assigned = w.assigned
      /\ v.asked = w.asked /\ v.curl = w.curl /\ v.astray = w.astray
      /\ v = [fetches |-> v.fetches, polled |-> v.polled, assigned |-> v.assigned, asked |-> v.asked, curl |-> v.curl,
              astray |-> v.astray]
  BY <1>2 DEF Formed
<1>7. /\ v.fetches \in Seq(Fetch) /\ DOMAIN v.fetches = DOMAIN w.fetches \cup {Len(w.fetches) + 1}
      /\ \A i \in DOMAIN w.fetches : v.fetches[i] = w.fetches[i]
      /\ v.fetches[Len(w.fetches) + 1] = fetch
  <2>1. w.fetches \in Seq(Fetch) BY DEF Formed, FetchesFormed
  <2> QED BY ONLY <2>1, <1>5, <1>6, AppendProperties
<1>8. FetchesFormed(v.fetches) BY <1>5, <1>7 DEF FetchesFormed, Formed
<1>9. Formed(v) BY <1>6, <1>8 DEF Formed
<1>10. \A stages \in SUBSET StageNames : "added" \notin stages => InStage(v, stages) = InStage(w, stages)
  BY <1>5, <1>7 DEF InStage
<1>11. \A t \in CurlSockets : OwnersOf(v, t) = OwnersOf(w, t)
  <2>1. InStage(v, {"waiting"}) = InStage(w, {"waiting"}) BY <1>10 DEF StageNames
  <2>2. \A i \in InStage(w, {"waiting"}) : v.fetches[i] = w.fetches[i] BY <1>7 DEF InStage
  <2> QED BY <2>1, <2>2 DEF OwnersOf
<1>12. Linked(w) => Linked(v) BY <1>6, <1>11 DEF Linked
<1>13. /\ Formed(u) /\ u.fetches = v.fetches /\ u.curl.running = v.curl.running /\ u.astray.why = v.astray.why
       /\ DOMAIN v.polled \subseteq DOMAIN u.polled
       /\ Linked(v) => Linked(u) /\ (Wants(u) => TimerArmed(u))
  BY ONLY <1>9, <1>3, TellTimerDoes
<1>14. /\ Formed(r) /\ r.fetches = u.fetches /\ r.curl.running = u.curl.running /\ r.astray.why = u.astray.why
       /\ DOMAIN u.polled \subseteq DOMAIN r.polled
       /\ Linked(u) => Linked(r) /\ r.curl.timer \in DOMAIN r.polled /\ r.polled[r.curl.timer].armed = TRUE
  BY ONLY <1>13, <1>4, UpdateTimerDoes
<1>15. \A stages : InStage(r, stages) = InStage(v, stages) BY <1>13, <1>14, SameFetches
<1>16. /\ InStage(r, {"finished"}) = InStage(w, {"finished"})
       /\ InStage(r, {"timed", "waiting"}) = InStage(w, {"timed", "waiting"})
  BY <1>10, <1>15 DEF StageNames
<1> QED BY <1>6, <1>12, <1>13, <1>14, <1>16 DEF TimerArmed

-----------------------------------------------------------------------------
(* What follows a call, and an exception *)

LEMMA FinallyDoes ==
  ASSUME NEW w, Sane(w), NEW from,
         w.astray.why = {} /\ from = "event" /\ w.curl.running = 0 => InStage(w, {"timed", "waiting"}) = {},
         NEW r, r = Finally(w, from)
  PROVE  /\ Sane(r) /\ r.fetches = w.fetches /\ DOMAIN r.polled = DOMAIN w.polled
         /\ w.astray.why \subseteq r.astray.why /\ r.astray.why \subseteq w.astray.why \cup {"chained"}
         /\ r.curl.running = w.curl.running
<1>1. CASE ~FreesTimer(w, from)
  <2>1. r = w BY <1>1 DEF Finally
  <2> QED BY <2>1
<1>2. CASE FreesTimer(w, from)
  <2>1. from = "event" /\ w.curl.running = 0 BY <1>2 DEF FreesTimer
  <2>2. PICK v : v = IF InStage(w, {"added"}) # {} THEN Strays(w, "chained") ELSE w OBVIOUS
  <2>3. r = FreeTimer(v) BY <1>2, <2>1, <2>2 DEF Finally
  <2>4. Formed(w) BY DEF Sane
  <2>5. /\ Formed(v) /\ v.fetches = w.fetches /\ v.polled = w.polled /\ v.curl = w.curl
        /\ v.assigned = w.assigned /\ v.astray.wild = w.astray.wild
        /\ v.astray.why = IF InStage(w, {"added"}) # {} THEN w.astray.why \cup {"chained"} ELSE w.astray.why
    <3>1. CASE InStage(w, {"added"}) = {} BY <2>2, <2>4, <3>1
    <3>2. CASE InStage(w, {"added"}) # {}
      <4>1. v = [w EXCEPT !.astray.why = @ \cup {"chained"}] BY <2>2, <3>2 DEF Strays
      <4>2. "chained" \in Mishaps BY DEF Mishaps
      <4> QED BY <2>4, <3>2, <4>1, <4>2 DEF Formed
    <3> QED BY <3>1, <3>2
  <2>6. /\ Formed(r) /\ r.fetches = v.fetches /\ r.curl.running = v.curl.running /\ r.astray.why = v.astray.why
        /\ DOMAIN r.polled = DOMAIN v.polled
        /\ Linked(v) => Linked(r)
    BY ONLY <2>5, <2>3, FreeTimerDoes
  <2>8. Linked(w) => Linked(v)
    <3>1. \A s : OwnersOf(v, s) = OwnersOf(w, s) BY <2>5, SameFetches
    <3> QED BY <2>5, <3>1 DEF Linked
  <2>9. r.astray.why \cap {"failed", "threw"} = {} => Linked(r)
    BY <2>5, <2>6, <2>8 DEF Sane
  <2>10. r.astray.why = {} => ~Wants(r)
    <3>1. r.astray.why = {} => InStage(w, {"added"}) = {} BY <2>5, <2>6
    <3>2. r.astray.why = {} => InStage(w, {"timed"}) = {} BY <2>1, <2>5, <2>6 DEF InStage
    <3>3. Wants(r) <=> Wants(w) BY <2>5, <2>6, SameFetches
    <3> QED BY <3>1, <3>2, <3>3 DEF Wants, InStage
  <2>7. Sane(r) BY <2>6, <2>9, <2>10 DEF Sane
  <2>11. w.astray.why \subseteq r.astray.why /\ r.astray.why \subseteq w.astray.why \cup {"chained"}
    BY <2>5, <2>6
  <2> QED BY <2>5, <2>6, <2>7, <2>11
<1> QED BY <1>1, <1>2

\* An exception has been thrown: what is left to be kept is the form of the state.
LEMMA AstrayIsSane ==
  ASSUME NEW w, Formed(w), w.astray.why \cap {"failed", "threw"} # {}
  PROVE  Sane(w)
BY DEF Sane

LEMMA CaughtDoes ==
  ASSUME NEW w, Formed(w), w.astray.why \cap {"failed", "threw"} # {}, NEW from, NEW timer, NEW r,
         r = Caught(w, from, timer)
  PROVE  /\ Sane(r) /\ r.fetches = w.fetches /\ DOMAIN r.polled = DOMAIN w.polled
         /\ r.astray.why \cap {"failed", "threw"} # {}
<1>1. CASE from = "timer"
  <2>1. r = Stop(w, timer) BY <1>1 DEF Caught
  <2>2. /\ Formed(r) /\ r.fetches = w.fetches /\ r.curl = w.curl /\ r.astray.why = w.astray.why
        /\ DOMAIN r.polled = DOMAIN w.polled
    BY ONLY Formed(w), <2>1, StopDoes
  <2> QED BY <2>2, AstrayIsSane
<1>2. CASE from # "timer"
  <2>1. r = Finally(w, from) BY <1>2 DEF Caught
  <2>2. Sane(w) BY AstrayIsSane
  <2>3. /\ Sane(r) /\ r.fetches = w.fetches /\ DOMAIN r.polled = DOMAIN w.polled
        /\ w.astray.why \subseteq r.astray.why
    BY <2>1, <2>2, FinallyDoes
  <2> QED BY <2>3
<1> QED BY <1>1, <1>2

-----------------------------------------------------------------------------
(* The steps *)

CurlSpec == CurlInit /\ [][CurlNext]_curlVars

DueKnown(list, handlers) == list \in Seq(Nat) /\ \A k \in DOMAIN list : list[k] \in handlers
PcOK == curlPc \in [at : {"wait", "batch", "info"}, from : {"none", "timer", "event"}]
NoneUnread == curlPc.at # "info" /\ astray.why \cap {"failed", "threw"} = {} => InStage(Client, {"finished"}) = {}
CountTrue == curlPc.at = "info" /\ curl.running = 0 => InStage(Client, {"timed", "waiting"}) = {}
CurlInv == Sane(Client) /\ PcOK /\ DueKnown(due, DOMAIN polled) /\ NoneUnread /\ CountTrue

LEMMA CurlInitHolds == ASSUME CurlInit PROVE CurlInv
<1>1. /\ fetches = <<>> /\ polled = <<>> /\ asked = FALSE /\ assigned = [s \in CurlSockets |-> NoHandler]
      /\ curl = [timer |-> NoHandler, running |-> 0] /\ curlPc = [at |-> "wait", from |-> "none"]
      /\ due = <<>> /\ astray = [why |-> {}, wild |-> FALSE]
  BY DEF CurlInit
<1>2. PICK w : w = Client OBVIOUS
<1>3. /\ w.fetches = <<>> /\ w.polled = <<>> /\ w.asked = FALSE /\ w.assigned = [s \in CurlSockets |-> NoHandler]
      /\ w.curl = [timer |-> NoHandler, running |-> 0] /\ w.astray = [why |-> {}, wild |-> FALSE]
      /\ w = [fetches |-> w.fetches, polled |-> w.polled, assigned |-> w.assigned, asked |-> w.asked, curl |-> w.curl,
              astray |-> w.astray]
  BY <1>1, <1>2 DEF Client
<1>4. DOMAIN w.fetches = {} /\ DOMAIN w.polled = {} BY <1>3
<1>5. FetchesFormed(w.fetches) BY <1>3, <1>4 DEF FetchesFormed
<1>6. HandlersFormed(w.polled) BY <1>3, <1>4, FS_EmptySet DEF HandlersFormed
<1>7. Formed(w)
  <2>1. w.assigned \in [CurlSockets -> Int] BY <1>3 DEF NoHandler
  <2>2. w.curl \in [timer : Int, running : Nat] BY <1>3 DEF NoHandler
  <2>3. w.astray \in [why : SUBSET Mishaps, wild : BOOLEAN] BY <1>3
  <2> QED BY <1>3, <1>5, <1>6, <2>1, <2>2, <2>3 DEF Formed
<1>8. \A stages : InStage(w, stages) = {} BY <1>4 DEF InStage
<1>9. Linked(w) BY <1>3, <1>4, <1>8 DEF Linked, OwnersOf
<1>10. Sane(w) BY <1>7, <1>8, <1>9 DEF Sane, Wants
<1>11. PcOK BY <1>1 DEF PcOK
<1>12. DueKnown(due, DOMAIN polled) BY <1>1 DEF DueKnown
<1> QED BY <1>2, <1>8, <1>10, <1>11, <1>12 DEF CurlInv, NoneUnread, CountTrue

LEMMA LeavesIs ==
  ASSUME NEW w, Formed(w), Leaves(w)
  PROVE  Client' = w
BY DEF Leaves, Client, Formed

\* What a step has to show, when the methods leave the client in w.
LEMMA Stepped ==
  ASSUME NEW w, Sane(w), Leaves(w), DueKnown(due, DOMAIN polled), DOMAIN polled \subseteq DOMAIN w.polled,
         due' = due \/ (due' = Tail(due) /\ due # <<>>),
         PcOK',
         curlPc'.at # "info" /\ w.astray.why \cap {"failed", "threw"} = {} => InStage(w, {"finished"}) = {},
         curlPc'.at = "info" /\ w.curl.running = 0 => InStage(w, {"timed", "waiting"}) = {}
  PROVE  CurlInv'
<1>1. Formed(w) BY DEF Sane
<1>2. Client' = w BY <1>1, LeavesIs
<1>3. polled' = w.polled /\ astray' = w.astray /\ curl' = w.curl BY DEF Leaves
<1>4. DueKnown(due', DOMAIN w.polled)
  <2>1. CASE due' = due BY <2>1 DEF DueKnown
  <2>2. CASE due' = Tail(due) /\ due # <<>>
    <3>1. due \in Seq(Nat) BY DEF DueKnown
    <3>2. /\ Tail(due) \in Seq(Nat) /\ DOMAIN Tail(due) = 1 .. Len(due) - 1 /\ Len(due) \in Nat
          /\ DOMAIN due = 1 .. Len(due)
          /\ \A k \in 1 .. Len(due) - 1 : Tail(due)[k] = due[k + 1]
      BY ONLY <2>2, <3>1, HeadTailProperties
    <3>3. \A k \in DOMAIN Tail(due) : k + 1 \in DOMAIN due BY <3>2
    <3> QED BY <2>2, <3>2, <3>3 DEF DueKnown
  <2> QED BY <2>1, <2>2
<1>5. Sane(Client)' BY <1>2
<1>6. DueKnown(due, DOMAIN polled)' BY <1>3, <1>4
<1>7. NoneUnread' BY <1>2, <1>3 DEF NoneUnread
<1>8. CountTrue' BY <1>2, <1>3 DEF CountTrue
<1> QED BY <1>5, <1>6, <1>7, <1>8 DEF CurlInv

LEMMA ClientIs ==
  ASSUME CurlInv
  PROVE  /\ Sane(Client) /\ Formed(Client) /\ DueKnown(due, DOMAIN polled) /\ PcOK
         /\ Client.fetches = fetches /\ Client.polled = polled /\ Client.assigned = assigned /\ Client.curl = curl
         /\ Client.astray = astray /\ Client.asked = asked
         /\ astray.why \cap {"failed", "threw"} = {} => Linked(Client)
         /\ polled = [h \in DOMAIN polled |-> polled[h]]
         /\ \A h \in DOMAIN polled : polled[h] \in Handler
<1>1. /\ Client.fetches = fetches /\ Client.polled = polled /\ Client.assigned = assigned /\ Client.curl = curl
      /\ Client.astray = astray /\ Client.asked = asked
  BY DEF Client
<1>2. Sane(Client) /\ DueKnown(due, DOMAIN polled) /\ PcOK BY DEF CurlInv
<1>3. Formed(Client) BY <1>2 DEF Sane
<1>4. HandlersFormed(polled) BY <1>1, <1>3 DEF Formed
<1> QED BY <1>1, <1>2, <1>3, <1>4 DEF Sane, HandlersFormed

LEMMA AppPerformsStep == ASSUME CurlInv, AppPerforms PROVE CurlInv'
<1>1. PICK w : w = Perform(Client) /\ Leaves(w) BY DEF AppPerforms
<1>2. curlPc.at = "wait" /\ curlPc' = curlPc /\ due' = due BY DEF AppPerforms
<1>3. /\ Formed(w) /\ w.astray.why = astray.why /\ w.curl.running = curl.running
      /\ DOMAIN polled \subseteq DOMAIN w.polled
      /\ Linked(Client) => Linked(w) /\ TimerArmed(w)
      /\ InStage(w, {"finished"}) = InStage(Client, {"finished"})
  BY <1>1, ClientIs, PerformDoes
<1>4. Sane(w) BY <1>3, ClientIs DEF Sane
<1>5. curlPc'.at # "info" /\ w.astray.why \cap {"failed", "threw"} = {} => InStage(w, {"finished"}) = {}
  BY <1>2, <1>3 DEF CurlInv, NoneUnread
<1>6. PcOK' /\ curlPc'.at # "info" BY <1>2 DEF CurlInv, PcOK
<1>7. DueKnown(due, DOMAIN polled) BY DEF CurlInv
<1>8. curlPc'.at = "info" /\ w.curl.running = 0 => InStage(w, {"timed", "waiting"}) = {} BY <1>6
<1>9. PcOK' /\ (due' = due \/ (due' = Tail(due) /\ due # <<>>)) BY <1>2, <1>6
<1> QED BY ONLY <1>1, <1>3, <1>4, <1>5, <1>7, <1>8, <1>9, Stepped

LEMMA WaitsStep == ASSUME CurlInv, Waits PROVE CurlInv'
<1>1. /\ curlPc' = [curlPc EXCEPT !.at = "batch"] /\ curlPc.at = "wait"
      /\ fetches' = fetches /\ polled' = polled /\ assigned' = assigned /\ asked' = asked /\ curl' = curl
      /\ astray' = astray
  BY DEF Waits
<1>2. PICK some : some \in SUBSET Reported /\ due' \in SetToSeqs(some) BY DEF Waits
<1>3. Client' = Client BY <1>1 DEF Client
<1>4. Sane(Client)' /\ PcOK' /\ curlPc'.at = "batch" BY <1>1, <1>3 DEF CurlInv, PcOK
<1>5. DueKnown(due, DOMAIN polled)'
  <2>1. some \in SUBSET DOMAIN polled /\ DOMAIN polled \subseteq Nat /\ IsFiniteSet(DOMAIN polled)
    BY <1>2, ClientIs DEF Reported, Formed, HandlersFormed
  <2>2. PICK n \in Nat : n = Cardinality(some)
    BY <2>1, FS_Subset, FS_CardinalityType
  <2>3. due' \in [1 .. n -> some] BY <1>2, <2>2 DEF SetToSeqs
  <2>4. due' \in Seq(Nat) /\ DOMAIN due' = 1 .. n BY <2>1, <2>3, SeqDef
  <2> QED BY <1>1, <2>1, <2>3, <2>4 DEF DueKnown
<1>6. NoneUnread' BY <1>1, <1>3 DEF CurlInv, NoneUnread
<1>7. CountTrue' BY <1>4 DEF CountTrue
<1> QED BY <1>4, <1>5, <1>6, <1>7 DEF CurlInv

\* A dispatched handler is one of the list.
LEMMA DispatchedIs ==
  ASSUME CurlInv, NEW type, Dispatched(type)
  PROVE  /\ curlPc.at = "batch" /\ due' = Tail(due) /\ due # <<>>
         /\ Head(due) \in DOMAIN polled /\ polled[Head(due)].type = type
<1>1. due \in Seq(Nat) /\ due # <<>> BY DEF Dispatched, CurlInv, DueKnown
<1>2. Head(due) = due[1] /\ 1 \in DOMAIN due BY <1>1
<1> QED BY <1>2 DEF Dispatched, CurlInv, DueKnown

\* TakeTimerEvent: the timer that has fired is not armed until it is set again.
LEMMA FiredIs ==
  ASSUME NEW w, Formed(w), NEW h \in DOMAIN w.polled, NEW r, r = [w EXCEPT !.polled[h].armed = FALSE]
  PROVE  /\ Formed(r) /\ r.fetches = w.fetches /\ r.assigned = w.assigned /\ r.curl = w.curl /\ r.astray = w.astray
         /\ DOMAIN r.polled = DOMAIN w.polled
         /\ Linked(w) => Linked(r)
<1>10. PICK b \in BOOLEAN : b = FALSE OBVIOUS
<1>1. /\ r.fetches = w.fetches /\ r.assigned = w.assigned /\ r.asked = w.asked /\ r.curl = w.curl
      /\ r.astray = w.astray /\ r.polled = [w.polled EXCEPT ![h].armed = b]
      /\ r = [fetches |-> r.fetches, polled |-> r.polled, assigned |-> r.assigned, asked |-> r.asked, curl |-> r.curl,
              astray |-> r.astray]
  BY <1>10 DEF Formed
<1>2. DOMAIN r.polled = DOMAIN w.polled BY <1>1
<1>3. \A k \in DOMAIN w.polled :
        r.polled[k] = IF k = h THEN [w.polled[k] EXCEPT !.armed = b] ELSE w.polled[k]
  <2>1. r.polled = [w.polled EXCEPT ![h].armed = b] BY <1>1
  <2> QED BY ONLY <2>1
<1>4. \A k \in DOMAIN w.polled : w.polled[k] \in Handler BY DEF Formed, HandlersFormed
<1>5. \A k \in DOMAIN w.polled :
        r.polled[k] \in Handler /\ r.polled[k].type = w.polled[k].type /\ r.polled[k].socket = w.polled[k].socket
  BY ONLY b \in BOOLEAN, <1>3, <1>4 DEF Handler
<1>6. r.polled = [k \in DOMAIN r.polled |-> r.polled[k]] BY <1>1
<1>7. HandlersFormed(r.polled) BY <1>2, <1>5, <1>6 DEF HandlersFormed, Formed
<1>8. Formed(r) BY <1>1, <1>7 DEF Formed
<1>9. ASSUME Linked(w) PROVE Linked(r)
  <2>1. /\ r.fetches = w.fetches /\ r.assigned = w.assigned /\ r.curl.timer = w.curl.timer
        /\ r.astray.wild = w.astray.wild
    BY <1>1
  <2>2. \A s : OwnersOf(r, s) = OwnersOf(w, s) BY <2>1, SameFetches
  <2> QED BY ONLY <1>2, <1>5, <1>9, <2>1, <2>2 DEF Linked
<1> QED BY <1>1, <1>2, <1>8, <1>9

\* libcurl is told of what has happened, and its messages are to be read.
LEMMA ActionStep ==
  ASSUME CurlInv, NEW pre, Formed(pre), pre.astray = astray, DOMAIN pre.polled = DOMAIN polled,
         Linked(Client) => Linked(pre), NEW s, NEW w \in SocketAction(pre, s), Leaves(w),
         due' = Tail(due), due # <<>>, NEW from \in {"timer", "event"}, curlPc' = [at |-> "info", from |-> from]
  PROVE  CurlInv'
<1>1. /\ Formed(w) /\ w.astray.why = pre.astray.why /\ DOMAIN pre.polled \subseteq DOMAIN w.polled
      /\ Linked(pre) => Linked(w) /\ (Wants(w) => TimerArmed(w))
      /\ w.curl.running = 0 => InStage(w, {"timed", "waiting"}) = {}
  BY SocketActionDoes
<1>2. astray.why \cap {"failed", "threw"} = {} => Linked(w) /\ (Wants(w) => TimerArmed(w))
  BY <1>1, ClientIs
<1>3. Sane(w)
  <2>1. w.astray.why = astray.why BY <1>1
  <2> QED BY <1>1, <1>2, <2>1 DEF Sane
<1>4. PcOK' /\ curlPc'.at = "info" BY DEF PcOK
<1>5. curlPc'.at # "info" /\ w.astray.why \cap {"failed", "threw"} = {} => InStage(w, {"finished"}) = {} BY <1>4
<1>6. curlPc'.at = "info" /\ w.curl.running = 0 => InStage(w, {"timed", "waiting"}) = {} BY <1>1
<1>7. due' = due \/ (due' = Tail(due) /\ due # <<>>) OBVIOUS
<1>8. DueKnown(due, DOMAIN polled) BY DEF CurlInv
<1>9. DOMAIN polled \subseteq DOMAIN w.polled BY <1>1
<1> QED BY ONLY Leaves(w), <1>3, <1>4, <1>5, <1>6, <1>7, <1>8, <1>9, Stepped

LEMMA DoTimerStep == ASSUME CurlInv, DoTimer PROVE CurlInv'
<1>1. PICK pre : pre = [Client EXCEPT !.polled[Head(due)].armed = FALSE] OBVIOUS
<1>2. PICK w \in SocketAction(pre, NoSocket) : Leaves(w) BY <1>1 DEF DoTimer
<1>3. curlPc' = [at |-> "info", from |-> "timer"] /\ Dispatched("etTimer") BY DEF DoTimer
<1>4. due' = Tail(due) /\ due # <<>> /\ Head(due) \in DOMAIN polled BY <1>3, DispatchedIs
<1>5. Formed(Client) /\ Client.polled = polled /\ Client.astray = astray BY ClientIs
<1>6. Head(due) \in DOMAIN Client.polled BY <1>4, <1>5
<1>7. /\ Formed(pre) /\ pre.astray = Client.astray /\ DOMAIN pre.polled = DOMAIN Client.polled
      /\ Linked(Client) => Linked(pre)
  BY ONLY <1>1, <1>5, <1>6, FiredIs
<1>8. pre.astray = astray /\ DOMAIN pre.polled = DOMAIN polled BY <1>5, <1>7
<1>9. "timer" \in {"timer", "event"} OBVIOUS
<1> QED BY ONLY CurlInv, <1>2, <1>3, <1>4, <1>7, <1>8, <1>9, ActionStep

LEMMA DoEventStep == ASSUME CurlInv, DoEvent PROVE CurlInv'
<1>1. PICK s : s = polled[Head(due)].socket OBVIOUS
<1>2. PICK w \in SocketAction(Client, s) : Leaves(w) BY <1>1 DEF DoEvent
<1>3. curlPc' = [at |-> "info", from |-> "event"] /\ Dispatched("etEvent") BY DEF DoEvent
<1>4. due' = Tail(due) /\ due # <<>> BY <1>3, DispatchedIs
<1>5. Formed(Client) /\ DOMAIN Client.polled = DOMAIN polled /\ Client.astray = astray BY ClientIs
<1>6. "event" \in {"timer", "event"} OBVIOUS
<1>7. Linked(Client) => Linked(Client) OBVIOUS
<1> QED BY ONLY CurlInv, <1>2, <1>3, <1>4, <1>5, <1>6, <1>7, ActionStep

LEMMA StraysIs ==
  ASSUME NEW w, Formed(w), NEW why \in {"failed", "threw"}, NEW r, r = Strays(w, why)
  PROVE  /\ Formed(r) /\ r.astray.why \cap {"failed", "threw"} # {} /\ r.fetches = w.fetches /\ r.polled = w.polled
         /\ r.curl = w.curl
<1>1. r = [w EXCEPT !.astray.why = @ \cup {why}] BY DEF Strays
<1>2. why \in Mishaps BY DEF Mishaps
<1> QED BY <1>1, <1>2 DEF Formed

LEMMA TimerFailsStep == ASSUME CurlInv, TimerFails PROVE CurlInv'
<1>1. PICK pre : pre = Strays(Client, "failed") OBVIOUS
<1>2. PICK fired : fired = [pre EXCEPT !.polled[Head(due)].armed = FALSE] OBVIOUS
<1>3. PICK w : w = Caught(fired, "timer", Head(due)) /\ Leaves(w)
  BY <1>1, <1>2 DEF TimerFails
<1>4. /\ curlPc' = curlPc /\ curlPc.at = "batch" /\ due' = Tail(due) /\ due # <<>> /\ Head(due) \in DOMAIN polled
  BY DispatchedIs DEF TimerFails
<1>5. /\ Formed(pre) /\ pre.astray.why \cap {"failed", "threw"} # {} /\ pre.polled = polled
  BY <1>1, ClientIs, StraysIs
<1>6. Head(due) \in DOMAIN pre.polled BY <1>4, <1>5
<1>7. Formed(fired) /\ fired.astray = pre.astray /\ DOMAIN fired.polled = DOMAIN pre.polled
  BY ONLY <1>2, <1>5, <1>6, FiredIs
<1>8. fired.astray.why \cap {"failed", "threw"} # {} BY <1>5, <1>7
<1>10. Sane(w) /\ DOMAIN w.polled = DOMAIN fired.polled /\ w.astray.why \cap {"failed", "threw"} # {}
  BY ONLY <1>3, <1>7, <1>8, CaughtDoes
<1>11. PcOK' /\ curlPc'.at = "batch" BY <1>4 DEF CurlInv, PcOK
<1>12. curlPc'.at # "info" /\ w.astray.why \cap {"failed", "threw"} = {} => InStage(w, {"finished"}) = {} BY <1>10
<1>13. curlPc'.at = "info" /\ w.curl.running = 0 => InStage(w, {"timed", "waiting"}) = {} BY <1>11
<1>14. due' = due \/ (due' = Tail(due) /\ due # <<>>) BY <1>4
<1>15. DueKnown(due, DOMAIN polled) /\ DOMAIN polled \subseteq DOMAIN w.polled BY <1>5, <1>7, <1>10 DEF CurlInv
<1> QED BY ONLY <1>3, <1>10, <1>11, <1>12, <1>13, <1>14, <1>15, Stepped

LEMMA EventFailsStep == ASSUME CurlInv, EventFails PROVE CurlInv'
<1>1. PICK pre : pre = Strays(Client, "failed") OBVIOUS
<1>2. PICK w : w = Caught(pre, "event", NoHandler) /\ Leaves(w)
  BY <1>1 DEF EventFails
<1>3. curlPc' = curlPc /\ curlPc.at = "batch" /\ due' = Tail(due) /\ due # <<>>
  BY DispatchedIs DEF EventFails
<1>4. /\ Formed(pre) /\ pre.astray.why \cap {"failed", "threw"} # {} /\ pre.polled = polled
  BY <1>1, ClientIs, StraysIs
<1>5. Sane(w) /\ DOMAIN w.polled = DOMAIN pre.polled /\ w.astray.why \cap {"failed", "threw"} # {}
  BY ONLY <1>2, <1>4, CaughtDoes
<1>6. PcOK' /\ curlPc'.at = "batch" BY <1>3 DEF CurlInv, PcOK
<1>7. curlPc'.at # "info" /\ w.astray.why \cap {"failed", "threw"} = {} => InStage(w, {"finished"}) = {} BY <1>5
<1>8. curlPc'.at = "info" /\ w.curl.running = 0 => InStage(w, {"timed", "waiting"}) = {} BY <1>6
<1>9. due' = due \/ (due' = Tail(due) /\ due # <<>>) BY <1>3
<1>10. DueKnown(due, DOMAIN polled) /\ DOMAIN polled \subseteq DOMAIN w.polled BY <1>4, <1>5 DEF CurlInv
<1> QED BY ONLY <1>2, <1>5, <1>6, <1>7, <1>8, <1>9, <1>10, Stepped

LEMMA SkippedStep == ASSUME CurlInv, StoppedIsSkipped PROVE CurlInv'
<1>1. /\ curlPc' = curlPc /\ due' = Tail(due) /\ due # <<>> /\ curlPc.at = "batch"
  BY DispatchedIs DEF StoppedIsSkipped
<1>2. Leaves(Client) /\ Sane(Client) /\ Client.curl = curl /\ Client.astray = astray
  BY ClientIs DEF StoppedIsSkipped, Leaves
<1>3. PcOK' /\ curlPc'.at = "batch" BY <1>1 DEF CurlInv, PcOK
<1>4. curlPc'.at # "info" /\ Client.astray.why \cap {"failed", "threw"} = {} => InStage(Client, {"finished"}) = {}
  BY <1>1, <1>2 DEF CurlInv, NoneUnread
<1>5. curlPc'.at = "info" /\ Client.curl.running = 0 => InStage(Client, {"timed", "waiting"}) = {} BY <1>3
<1>6. due' = due \/ (due' = Tail(due) /\ due # <<>>) BY <1>1
<1>7. DueKnown(due, DOMAIN polled) /\ DOMAIN polled \subseteq DOMAIN Client.polled BY ClientIs
<1> QED BY ONLY <1>2, <1>3, <1>4, <1>5, <1>6, <1>7, Stepped

\* The fetch is told of its end, which it has not been before.
LEMMA ToldIs ==
  ASSUME CurlInv, NEW i \in DOMAIN fetches, fetches[i].stage = "finished", NEW r, NEW end \in {"ended", "leaked"},
         r = [Client EXCEPT !.fetches[i].told = fetches[i].told + 1, !.fetches[i].stage = end]
  PROVE  /\ Formed(r) /\ r.polled = polled /\ r.curl = curl /\ r.astray = astray
         /\ Linked(Client) => Linked(r)
         /\ InStage(r, {"added", "timed"}) = InStage(Client, {"added", "timed"})
         /\ InStage(r, {"timed", "waiting"}) = InStage(Client, {"timed", "waiting"})
         /\ r.fetches = [fetches EXCEPT ![i] = [fetches[i] EXCEPT !.told = fetches[i].told + 1, !.stage = end]]
<1>1. /\ Formed(Client) /\ Client.fetches = fetches /\ Client.polled = polled /\ Client.curl = curl
      /\ Client.astray = astray /\ Client.assigned = assigned
  BY ClientIs
<1>2. PICK fetch : fetch = [fetches[i] EXCEPT !.told = fetches[i].told + 1, !.stage = end] OBVIOUS
<1>3. /\ r.fetches = [fetches EXCEPT ![i] = fetch] /\ r.polled = polled /\ r.curl = curl /\ r.astray = astray
      /\ r.assigned = assigned /\ r.asked = Client.asked
      /\ r = [fetches |-> r.fetches, polled |-> r.polled, assigned |-> r.assigned, asked |-> r.asked, curl |-> r.curl,
              astray |-> r.astray]
  BY <1>1, <1>2 DEF Formed
<1>4. FetchesFormed(fetches) BY <1>1 DEF Formed
<1>5. fetches[i] \in Fetch /\ fetches[i].told = 0 BY <1>4 DEF FetchesFormed
<1>6. fetch \in Fetch /\ fetch.told = 1 /\ fetch.stage = end
  <2>1. fetches[i].told + 1 = 1 /\ end \in StageNames BY <1>5 DEF StageNames
  <2>2. fetch = [fetches[i] EXCEPT !.told = 1, !.stage = end] BY <1>2, <2>1
  <2> QED BY ONLY <1>5, <2>1, <2>2 DEF Fetch
<1>7. /\ r.fetches \in Seq(Fetch) /\ DOMAIN r.fetches = DOMAIN fetches /\ r.fetches[i] = fetch
      /\ \A j \in DOMAIN fetches \ {i} : r.fetches[j] = fetches[j]
  <2>1. fetches \in Seq(Fetch) BY <1>4 DEF FetchesFormed
  <2>2. r.fetches = [fetches EXCEPT ![i] = fetch] BY <1>3
  <2> QED BY ONLY <2>1, <2>2, <1>6, i \in DOMAIN fetches
<1>8. FetchesFormed(r.fetches) BY <1>4, <1>6, <1>7 DEF FetchesFormed
<1>9. Formed(r) BY <1>1, <1>3, <1>8 DEF Formed
<1>10. \A stages \in SUBSET {"added", "timed", "waiting"} : InStage(r, stages) = InStage(Client, stages)
  BY <1>1, <1>6, <1>7 DEF InStage
<1>11. \A s \in CurlSockets : OwnersOf(r, s) = OwnersOf(Client, s)
  <2>1. InStage(r, {"waiting"}) = InStage(Client, {"waiting"}) BY <1>10
  <2>2. \A j \in InStage(Client, {"waiting"}) : r.fetches[j] = fetches[j] BY <1>1, <1>7 DEF InStage
  <2> QED BY <1>1, <2>1, <2>2 DEF OwnersOf
<1>12. Linked(Client) => Linked(r)
  <2>1. r.polled = Client.polled /\ r.assigned = Client.assigned /\ r.curl = Client.curl /\ r.astray = Client.astray
    BY <1>1, <1>3
  <2> QED BY ONLY <1>11, <2>1 DEF Linked
<1> QED BY <1>2, <1>3, <1>9, <1>10, <1>12

LEMMA ConcludesStep == ASSUME CurlInv, NEW i \in DOMAIN fetches, Concludes(i) PROVE CurlInv'
<1>1. PICK told : told = Told(i, "ended") OBVIOUS
<1>2. PICK w : (w = told \/ w = Perform(told)) /\ Leaves(w) BY <1>1 DEF Concludes
<1>3. curlPc' = curlPc /\ due' = due /\ curlPc.at = "info" /\ fetches[i].stage = "finished" BY DEF Concludes
<1>4. told = [Client EXCEPT !.fetches[i].told = fetches[i].told + 1, !.fetches[i].stage = "ended"]
  BY <1>1, ClientIs DEF Told, Formed
<1>5. "ended" \in {"ended", "leaked"} OBVIOUS
<1>6. /\ Formed(told) /\ told.polled = polled /\ told.curl = curl /\ told.astray = astray
      /\ Linked(Client) => Linked(told)
      /\ InStage(told, {"added", "timed"}) = InStage(Client, {"added", "timed"})
      /\ InStage(told, {"timed", "waiting"}) = InStage(Client, {"timed", "waiting"})
  BY ONLY CurlInv, i \in DOMAIN fetches, <1>3, <1>4, <1>5, ToldIs
<1>7. Sane(told)
  <2>1. Wants(told) <=> Wants(Client) BY <1>6 DEF Wants
  <2>2. TimerArmed(Client) => TimerArmed(told) BY <1>6, ClientIs DEF TimerArmed
  <2> QED BY <1>6, <2>1, <2>2, ClientIs DEF Sane
<1>8. /\ Sane(w) /\ w.curl.running = curl.running /\ DOMAIN polled \subseteq DOMAIN w.polled
      /\ InStage(w, {"timed", "waiting"}) = InStage(Client, {"timed", "waiting"})
  <2>1. CASE w = told BY <1>6, <1>7, <2>1
  <2>2. CASE w = Perform(told)
    <3>1. /\ Formed(w) /\ w.astray.why = told.astray.why /\ w.curl.running = told.curl.running
          /\ DOMAIN told.polled \subseteq DOMAIN w.polled
          /\ Linked(told) => Linked(w) /\ TimerArmed(w)
          /\ InStage(w, {"timed", "waiting"}) = InStage(told, {"timed", "waiting"})
      BY ONLY <1>6, <2>2, PerformDoes
    <3>2. Sane(w) BY <1>7, <3>1 DEF Sane
    <3> QED BY <1>6, <3>1, <3>2
  <2> QED BY <1>2, <2>1, <2>2
<1>9. PcOK' /\ curlPc'.at = "info" BY <1>3 DEF CurlInv, PcOK
<1>10. curlPc'.at # "info" /\ w.astray.why \cap {"failed", "threw"} = {} => InStage(w, {"finished"}) = {} BY <1>9
<1>11. curlPc'.at = "info" /\ w.curl.running = 0 => InStage(w, {"timed", "waiting"}) = {}
  BY <1>3, <1>8 DEF CurlInv, CountTrue
<1>12. due' = due \/ (due' = Tail(due) /\ due # <<>>) BY <1>3
<1>13. DueKnown(due, DOMAIN polled) BY DEF CurlInv
<1> QED BY ONLY <1>2, <1>8, <1>9, <1>10, <1>11, <1>12, <1>13, Stepped

LEMMA ConcludeThrowsStep == ASSUME CurlInv, NEW i \in DOMAIN fetches, ConcludeThrows(i) PROVE CurlInv'
<1>1. PICK told : told = Told(i, "leaked") OBVIOUS
<1>2. PICK threw : threw = Strays(told, "threw") OBVIOUS
<1>3. /\ curlPc' = [at |-> "batch", from |-> "none"] /\ due' = due /\ curlPc.at = "info"
      /\ fetches[i].stage = "finished"
  BY DEF ConcludeThrows
<1>4. told = [Client EXCEPT !.fetches[i].told = fetches[i].told + 1, !.fetches[i].stage = "leaked"]
  BY <1>1, ClientIs DEF Told, Formed
<1>5. PICK w : w = Caught(threw, curlPc.from, curl.timer) /\ Leaves(w) BY <1>1, <1>2 DEF ConcludeThrows
<1>6. "leaked" \in {"ended", "leaked"} OBVIOUS
<1>7. Formed(told) /\ told.polled = polled
  BY ONLY CurlInv, i \in DOMAIN fetches, <1>3, <1>4, <1>6, ToldIs
<1>8. Formed(threw) /\ threw.astray.why \cap {"failed", "threw"} # {} /\ threw.polled = polled
  BY <1>2, <1>7, StraysIs
<1>9. Sane(w) /\ DOMAIN w.polled = DOMAIN threw.polled /\ w.astray.why \cap {"failed", "threw"} # {}
  BY ONLY <1>5, <1>8, CaughtDoes
<1>10. PcOK' /\ curlPc'.at = "batch" BY <1>3 DEF PcOK
<1>11. curlPc'.at # "info" /\ w.astray.why \cap {"failed", "threw"} = {} => InStage(w, {"finished"}) = {} BY <1>9
<1>12. curlPc'.at = "info" /\ w.curl.running = 0 => InStage(w, {"timed", "waiting"}) = {} BY <1>10
<1>13. due' = due \/ (due' = Tail(due) /\ due # <<>>) BY <1>3
<1>14. DueKnown(due, DOMAIN polled) /\ DOMAIN polled \subseteq DOMAIN w.polled BY <1>8, <1>9 DEF CurlInv
<1> QED BY ONLY <1>5, <1>9, <1>10, <1>11, <1>12, <1>13, <1>14, Stepped

LEMMA InfoEndsStep == ASSUME CurlInv, InfoEnds PROVE CurlInv'
<1>1. PICK w : w = Finally(Client, curlPc.from) /\ Leaves(w) BY DEF InfoEnds
<1>2. /\ curlPc' = [at |-> "batch", from |-> "none"] /\ due' = due /\ curlPc.at = "info"
      /\ InStage(Client, {"finished"}) = {}
  BY DEF InfoEnds
<1>3. /\ Sane(Client) /\ Client.curl = curl /\ Client.polled = polled BY ClientIs
<1>4. Client.astray.why = {} /\ curlPc.from = "event" /\ Client.curl.running = 0 =>
        InStage(Client, {"timed", "waiting"}) = {}
  BY <1>2, <1>3 DEF CurlInv, CountTrue
<1>5. Sane(w) /\ w.fetches = Client.fetches /\ DOMAIN w.polled = DOMAIN Client.polled
  BY ONLY <1>1, <1>3, <1>4, FinallyDoes
<1>6. InStage(w, {"finished"}) = {} BY <1>2, <1>5, SameFetches
<1>7. PcOK' /\ curlPc'.at = "batch" BY <1>2 DEF PcOK
<1>8. curlPc'.at # "info" /\ w.astray.why \cap {"failed", "threw"} = {} => InStage(w, {"finished"}) = {} BY <1>6
<1>9. curlPc'.at = "info" /\ w.curl.running = 0 => InStage(w, {"timed", "waiting"}) = {} BY <1>7
<1>10. due' = due \/ (due' = Tail(due) /\ due # <<>>) BY <1>2
<1>11. DueKnown(due, DOMAIN polled) /\ DOMAIN polled \subseteq DOMAIN w.polled BY <1>3, <1>5 DEF CurlInv
<1> QED BY ONLY <1>1, <1>5, <1>7, <1>8, <1>9, <1>10, <1>11, Stepped

\* The pack destroys what has been stopped, which neither libcurl nor m_pTimer has, unless something has gone wrong.
LEMMA PacksStep == ASSUME CurlInv, Packs PROVE CurlInv'
<1> DEFINE stopped == {h \in DOMAIN polled : polled[h].type = "etDelete"}
           Left(h) == IF h \in stopped THEN DANGLER ELSE h
<1>1. /\ polled' = Restrict(polled, DOMAIN polled \ stopped)
      /\ curl' = [curl EXCEPT !.timer = Left(@)]
      /\ assigned' = [s \in CurlSockets |-> Left(assigned[s])]
      /\ curlPc' = [curlPc EXCEPT !.at = "wait"] /\ curlPc.at = "batch" /\ due = <<>>
      /\ fetches' = fetches /\ asked' = asked /\ due' = due /\ astray' = astray
  BY DEF Packs
<1>2. PICK w : w = [fetches |-> fetches, polled |-> polled', assigned |-> assigned', asked |-> asked, curl |-> curl',
                    astray |-> astray]
  OBVIOUS
<1>3. Client' = w BY <1>1, <1>2 DEF Client
<1>4. /\ w.fetches = fetches /\ w.polled = polled' /\ w.assigned = assigned' /\ w.asked = asked /\ w.curl = curl'
      /\ w.astray = astray
  BY <1>2
<1>5. /\ Formed(Client) /\ Client.fetches = fetches /\ Client.polled = polled /\ Client.assigned = assigned
      /\ Client.curl = curl /\ Client.astray = astray /\ Client.asked = asked
      /\ \A h \in DOMAIN polled : polled[h] \in Handler
  BY ClientIs
<1>6. /\ DOMAIN w.polled = DOMAIN polled \ stopped /\ w.polled = [h \in DOMAIN w.polled |-> w.polled[h]]
      /\ \A h \in DOMAIN w.polled : w.polled[h] = polled[h]
  BY <1>1, <1>4 DEF Restrict
<1>7. HandlersFormed(w.polled)
  <2>1. DOMAIN polled \subseteq Nat \ {0} /\ IsFiniteSet(DOMAIN polled) BY <1>5 DEF Formed, HandlersFormed
  <2>2. DOMAIN w.polled \in SUBSET DOMAIN polled BY <1>6
  <2>3. IsFiniteSet(DOMAIN w.polled) BY <2>1, <2>2, FS_Subset
  <2> QED BY <1>5, <1>6, <2>1, <2>2, <2>3 DEF HandlersFormed
<1>8. Formed(w)
  <2>1. w.assigned \in [CurlSockets -> Int]
    <3>1. \A s \in CurlSockets : assigned[s] \in Int BY <1>5 DEF Formed
    <3> QED BY <1>1, <1>4, <3>1 DEF DANGLER
  <2>2. w.curl \in [timer : Int, running : Nat]
    <3>1. curl \in [timer : Int, running : Nat] BY <1>5 DEF Formed
    <3>2. Left(curl.timer) \in Int BY <3>1 DEF DANGLER
    <3> QED BY <1>1, <1>4, <3>1, <3>2
  <2> QED BY <1>2, <1>4, <1>5, <1>7, <2>1, <2>2 DEF Formed
<1>9. ASSUME Linked(Client) PROVE Linked(w) /\ w.curl.timer = curl.timer
  <2>1. /\ \A s \in CurlSockets : assigned[s] # NoHandler =>
             assigned[s] \in DOMAIN polled /\ polled[assigned[s]].type = "etEvent"
        /\ curl.timer # NoHandler => curl.timer \in DOMAIN polled /\ polled[curl.timer].type = "etTimer"
    BY <1>5, <1>9 DEF Linked
  <2>2. NoHandler \notin DOMAIN polled BY <1>5, ThereIsNone DEF Formed, HandlersFormed
  <2>3. (\A s \in CurlSockets : assigned[s] \notin stopped) /\ curl.timer \notin stopped BY <2>1, <2>2
  <2>4. \A s \in CurlSockets : w.assigned[s] = assigned[s] BY <1>1, <1>4, <2>3
  <2>5. w.curl.timer = curl.timer BY <1>1, <1>4, <1>5, <2>3 DEF Formed
  <2>6. \A s : OwnersOf(w, s) = OwnersOf(Client, s) BY <1>4, <1>5, SameFetches
  <2>7. Linked(w) BY <1>4, <1>5, <1>6, <1>9, <2>1, <2>3, <2>4, <2>5, <2>6 DEF Linked
  <2> QED BY <2>5, <2>7
<1>10. Sane(w)
  <2>1. astray.why \cap {"failed", "threw"} = {} => Linked(Client) BY ClientIs
  <2>2. Wants(w) <=> Wants(Client) BY <1>4, <1>5, SameFetches
  <2>3. ASSUME astray.why = {}, Wants(w) PROVE TimerArmed(w)
    <3>1. Linked(Client) /\ TimerArmed(Client) BY <1>5, <2>1, <2>2, <2>3, ClientIs DEF Sane
    <3>2. Linked(w) /\ w.curl.timer = curl.timer BY <1>9, <3>1
    <3>3. curl.timer # NoHandler BY <1>5, <3>1, ThereIsNone DEF TimerArmed, Formed, HandlersFormed
    <3>4. w.curl.timer \in DOMAIN w.polled BY <3>2, <3>3 DEF Linked
    <3> QED BY <1>5, <1>6, <3>1, <3>2, <3>4 DEF TimerArmed
  <2> QED BY <1>4, <1>8, <1>9, <2>1, <2>3 DEF Sane
<1>11. PcOK' /\ curlPc'.at = "wait" BY <1>1 DEF CurlInv, PcOK
<1>12. DueKnown(due, DOMAIN polled)' BY <1>1 DEF DueKnown
<1>13. NoneUnread'
  <2>1. InStage(w, {"finished"}) = InStage(Client, {"finished"}) BY <1>4, <1>5, SameFetches
  <2> QED BY <1>1, <1>3, <2>1 DEF CurlInv, NoneUnread
<1>14. CountTrue' BY <1>11 DEF CountTrue
<1> QED BY <1>3, <1>10, <1>11, <1>12, <1>13, <1>14 DEF CurlInv

LEMMA StutterStep == ASSUME CurlInv, UNCHANGED curlVars PROVE CurlInv'
<1>1. /\ fetches' = fetches /\ polled' = polled /\ assigned' = assigned /\ asked' = asked /\ curl' = curl
      /\ curlPc' = curlPc /\ due' = due /\ astray' = astray
  BY DEF curlVars
<1>2. Client' = Client BY <1>1 DEF Client
<1> QED BY <1>1, <1>2 DEF CurlInv, PcOK, DueKnown, NoneUnread, CountTrue

\* What the loop watches is what the transfers wait for, and what the timer is set for is what they wait for.
LEMMA InvDrives == ASSUME CurlInv PROVE FetchesDriven
<1>1. /\ Sane(Client) /\ Formed(Client) /\ Client.fetches = fetches /\ Client.polled = polled
      /\ Client.assigned = assigned /\ Client.curl = curl /\ Client.astray = astray
      /\ astray.why \cap {"failed", "threw"} = {} => Linked(Client)
  BY ClientIs
<1>2. \A i \in DOMAIN fetches : fetches[i].told <= 1 BY <1>1 DEF Formed, FetchesFormed
<1>3. astray.why \cap {"failed", "threw"} = {} => ~astray.wild BY <1>1 DEF Linked
<1>4. ASSUME curlPc.at = "wait", astray.why = {}
      PROVE  /\ InStage(Client, {"finished"}) = {}
             /\ InStage(Client, {"added", "timed"}) # {} =>
                  curl.timer \in DOMAIN polled /\ polled[curl.timer].type = "etTimer" /\ polled[curl.timer].armed
             /\ \A s \in CurlSockets :
                  {h \in DOMAIN polled : polled[h].type = "etEvent" /\ polled[h].socket = s} =
                    (IF OwnersOf(Client, s) = {} THEN {} ELSE {assigned[s]})
  <2>1. Linked(Client) BY <1>1, <1>4
  <2>2. InStage(Client, {"finished"}) = {} BY <1>4 DEF CurlInv, NoneUnread
  <2>3. ASSUME InStage(Client, {"added", "timed"}) # {}
        PROVE  curl.timer \in DOMAIN polled /\ polled[curl.timer].type = "etTimer" /\ polled[curl.timer].armed
    <3>1. TimerArmed(Client) BY <1>1, <1>4, <2>3 DEF Sane, Wants
    <3>2. curl.timer \in DOMAIN polled /\ polled[curl.timer].armed BY <1>1, <3>1 DEF TimerArmed
    <3>3. curl.timer # NoHandler BY <1>1, <3>2, ThereIsNone DEF Formed, HandlersFormed
    <3> QED BY <1>1, <2>1, <3>2, <3>3 DEF Linked
  <2>4. ASSUME NEW s \in CurlSockets
        PROVE  {h \in DOMAIN polled : polled[h].type = "etEvent" /\ polled[h].socket = s} =
                 (IF OwnersOf(Client, s) = {} THEN {} ELSE {assigned[s]})
    <3>1. NoHandler \notin DOMAIN polled BY <1>1, ThereIsNone DEF Formed, HandlersFormed
    <3>2. /\ assigned[s] = NoHandler <=> OwnersOf(Client, s) = {}
          /\ assigned[s] # NoHandler =>
               /\ assigned[s] \in DOMAIN polled
               /\ polled[assigned[s]].type = "etEvent" /\ polled[assigned[s]].socket = s
          /\ \A h \in DOMAIN polled : polled[h].type = "etEvent" => assigned[polled[h].socket] = h
      BY <1>1, <2>1 DEF Linked
    <3> QED BY <3>1, <3>2
  <2> QED BY <2>2, <2>3, <2>4
<1> QED BY <1>2, <1>3, <1>4 DEF FetchesDriven

\* CCURLClient drives every fetch: between two passes the event loop watches the sockets that transfers wait for, each
\* by the one handler libcurl was given for it (SocketCallBack), the timer is armed whenever a transfer waits for time
\* (UpdateTimer), no message is unread, and no destroyed handler or timer has been used; and no fetch is concluded twice
\* (MultiInfo).  It holds for any sockets and fetches, in whatever order libcurl takes and gives up sockets.
THEOREM FetchesAreDriven == CurlSpec => []FetchesDriven
<1>1. CurlInit => CurlInv BY CurlInitHolds
<1>2. CurlInv /\ [CurlNext]_curlVars => CurlInv'
  <2> SUFFICES ASSUME CurlInv, [CurlNext]_curlVars PROVE CurlInv' OBVIOUS
  <2>1. CASE UNCHANGED curlVars BY <2>1, StutterStep
  <2>2. CASE AppPerforms BY <2>2, AppPerformsStep
  <2>3. CASE Waits BY <2>3, WaitsStep
  <2>4. CASE DoTimer BY <2>4, DoTimerStep
  <2>5. CASE DoEvent BY <2>5, DoEventStep
  <2>6. CASE TimerFails BY <2>6, TimerFailsStep
  <2>7. CASE EventFails BY <2>7, EventFailsStep
  <2>8. CASE StoppedIsSkipped BY <2>8, SkippedStep
  <2>9. CASE \E i \in DOMAIN fetches : Concludes(i) \/ ConcludeThrows(i)
    BY <2>9, ConcludesStep, ConcludeThrowsStep
  <2>10. CASE InfoEnds BY <2>10, InfoEndsStep
  <2>11. CASE Packs BY <2>11, PacksStep
  <2> QED BY <2>1, <2>2, <2>3, <2>4, <2>5, <2>6, <2>7, <2>8, <2>9, <2>10, <2>11 DEF CurlNext
<1>3. CurlInv => FetchesDriven BY InvDrives
<1> QED BY <1>1, <1>2, <1>3, PTL DEF CurlSpec

=============================================================================
