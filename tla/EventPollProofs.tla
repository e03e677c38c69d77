-------------------------- MODULE EventPollProofs --------------------------
(***************************************************************************)
(* Proofs about EventPoll, for every set of handlers, connections and       *)
(* sockets, every time-out and every lock bound.                            *)
(*                                                                         *)
(* IndInv is inductive.  Its object part (handlers, connections, interest   *)
(* list) is preserved by five kinds of change, one lemma each; the loop     *)
(* part (batch, callback, pack) follows from how handlers may change.       *)
(***************************************************************************)
EXTENDS EventPoll, TLAPS

LockOK(r) == r.lock > 0 => r.state = "live" /\ r.timeout = "infinite" /\ r.autoFree = FALSE

\* q is r after the application or a time-out changed its lock and clock only.
Same(q, r) ==
  /\ q \in ConnRec /\ LockOK(q)
  /\ q.state = r.state /\ q.kind = r.kind /\ q.handler = r.handler /\ q.io = r.io /\ q.fd = r.fd

\* q is r after its socket may have gone.
Shut(q, r) ==
  /\ q \in ConnRec /\ LockOK(q)
  /\ q.state = r.state /\ q.kind = r.kind /\ q.handler = r.handler
  /\ q.io = "open" => r.io = "open" /\ q.fd = r.fd
  /\ r.io = "none" => q.io = "none"

-----------------------------------------------------------------------------
(* The methods of a connection.                                             *)

LEMMA Armed ==
  ASSUME NEW r \in ConnRec, NEW l \in 0..MaxLock,
         NEW t \in {"zero", "fresh", "stale", "infinite"}, NEW b \in BOOLEAN,
         l > 0 => r.state = "live" /\ t = "infinite" /\ b = FALSE
  PROVE  LET q == [r EXCEPT !.lock = l, !.timeout = t, !.autoFree = b]
         IN Same(q, r) /\ q.graceful = r.graceful
<1> DEFINE q == [r EXCEPT !.lock = l, !.timeout = t, !.autoFree = b]
<1>1. q \in ConnRec BY DEF ConnRec
<1>2. q.lock = l /\ q.timeout = t /\ q.autoFree = b BY DEF ConnRec
<1>3. /\ q.state = r.state /\ q.kind = r.kind /\ q.handler = r.handler /\ q.io = r.io
      /\ q.fd = r.fd /\ q.graceful = r.graceful
  BY DEF ConnRec
<1> QED BY <1>1, <1>2, <1>3 DEF Same, LockOK

LEMMA Marked ==
  ASSUME NEW r \in ConnRec, LockOK(r), NEW g \in BOOLEAN
  PROVE  Same([r EXCEPT !.graceful = g], r)
BY DEF Same, LockOK, ConnRec

LEMMA LockMethods ==
  ASSUME NEW r \in ConnRec, LockOK(r)
  PROVE  /\ r.state = "live" /\ r.lock < MaxLock =>
              Same(IncLock(r), r) /\ IncLock(r).graceful = r.graceful
         /\ Same(DecLock(r), r) /\ DecLock(r).graceful = r.graceful
         /\ Same(UpdateTimeOut(r), r) /\ UpdateTimeOut(r).graceful = r.graceful
<1>1. ASSUME r.state = "live", r.lock < MaxLock
      PROVE  Same(IncLock(r), r) /\ IncLock(r).graceful = r.graceful
  <2>1. r.lock \in Nat /\ r.lock + 1 \in 0..MaxLock
    BY <1>1, BoundAssumption DEF ConnRec
  <2>2. CASE r.lock = 0
    <3>1. IncLock(r) = [r EXCEPT !.lock = 1, !.timeout = "infinite", !.autoFree = FALSE]
      BY <2>2 DEF IncLock
    <3>2. 1 \in 0..MaxLock BY <2>1, <2>2
    <3>3. "infinite" \in {"zero", "fresh", "stale", "infinite"} OBVIOUS
    <3>4. FALSE \in BOOLEAN OBVIOUS
    <3>5. LET q == [r EXCEPT !.lock = 1, !.timeout = "infinite", !.autoFree = FALSE]
          IN Same(q, r) /\ q.graceful = r.graceful
      BY <1>1, <3>2, <3>3, <3>4, Armed, Zenon
    <3> QED BY <3>1, <3>5, Zenon
  <2>3. CASE r.lock # 0
    <3>1. IncLock(r) = [r EXCEPT !.lock = @ + 1]
      BY <2>3 DEF IncLock
    <3> QED BY <2>1, <2>3, <3>1 DEF Same, LockOK, ConnRec
  <2> QED BY <2>2, <2>3
<1>2. Same(DecLock(r), r) /\ DecLock(r).graceful = r.graceful
  <2>1. r.lock \in 0..MaxLock /\ 0 \in 0..MaxLock
    BY BoundAssumption DEF ConnRec
  <2>2. CASE r.lock = 1
    <3>1. DecLock(r) = [r EXCEPT !.lock = 0, !.timeout = "zero", !.autoFree = TRUE]
      BY <2>2 DEF DecLock
    <3>2. ~(0 > 0) OBVIOUS
    <3>3. "zero" \in {"zero", "fresh", "stale", "infinite"} OBVIOUS
    <3>4. TRUE \in BOOLEAN OBVIOUS
    <3>5. LET q == [r EXCEPT !.lock = 0, !.timeout = "zero", !.autoFree = TRUE]
          IN Same(q, r) /\ q.graceful = r.graceful
      BY <2>1, <3>2, <3>3, <3>4, Armed, Zenon
    <3> QED BY <3>1, <3>5, Zenon
  <2>3. CASE r.lock # 1
    <3> DEFINE l == IF r.lock > 0 THEN r.lock - 1 ELSE 0
    <3>1. DecLock(r) = [r EXCEPT !.lock = l]
      BY <2>1, <2>3 DEF DecLock, ConnRec
    <3>2. l \in 0..MaxLock /\ (l > 0 => r.lock > 0) BY <2>1, <2>3, BoundAssumption
    <3> HIDE DEF l
    <3> QED BY <3>1, <3>2 DEF Same, LockOK, ConnRec
  <2> QED BY <2>2, <2>3
<1>3. Same(UpdateTimeOut(r), r) /\ UpdateTimeOut(r).graceful = r.graceful
  BY DEF UpdateTimeOut, Same, LockOK, ConnRec
<1> QED BY <1>1, <1>2, <1>3

LEMMA CallbackEffect ==
  ASSUME NEW r \in ConnRec, r.state = "live", LockOK(r), NEW q \in OnDisconnected(r)
  PROVE  Same(q, r) /\ q.graceful = r.graceful
<1>1. Same(r, r) BY DEF Same
<1> QED BY <1>1, LockMethods DEF OnDisconnected

LEMMA SocketGone ==
  ASSUME NEW r \in ConnRec, r.state = "live", LockOK(r), NEW q \in DisconnectSocket(r)
  PROVE  Shut(q, r) /\ q.io # "open" /\ (q.io = "none" <=> r.io = "none")
<1>1. CASE r.io = "none"
  BY <1>1 DEF DisconnectSocket, Shut
<1>2. CASE r.io # "none"
  <2>1. PICK p \in OnDisconnected(r) : q = [p EXCEPT !.graceful = TRUE, !.io = "closed", !.fd = NIL]
    BY <1>2 DEF DisconnectSocket
  <2>2. Same(p, r) BY CallbackEffect
  <2> QED BY <1>2, <2>1, <2>2 DEF Shut, Same, LockOK, ConnRec
<1> QED BY <1>1, <1>2

LEMMA Disconnected ==
  ASSUME NEW r \in ConnRec, r.state = "live", LockOK(r), NEW q \in Disconnect(r)
  PROVE  Shut(q, r) /\ q.io = "none"
<1>1. PICK p \in DisconnectSocket(r) : q = [p EXCEPT !.io = "none", !.fd = NIL]
  BY DEF Disconnect
<1>2. Shut(p, r) BY SocketGone
<1> QED BY <1>1, <1>2 DEF Shut, LockOK, ConnRec

LEMMA WasReset ==
  ASSUME NEW r \in ConnRec, r.state = "live", LockOK(r), NEW q \in Reset(r)
  PROVE  Shut(q, r) /\ q.io = "none"
<1>1. PICK p \in DisconnectSocket(r) : q \in Disconnect(p)
  BY DEF Reset
<1>2. Shut(p, r) BY SocketGone
<1>3. Shut(q, p) /\ q.io = "none" BY <1>1, <1>2, Disconnected DEF Shut
<1> QED BY <1>2, <1>3 DEF Shut

LEMMA FreedIsConn == Freed \in ConnRec /\ LockOK(Freed) /\ Freed.state = "freed"
                     /\ Freed.io = "none" /\ Freed.lock = 0
BY BoundAssumption DEF Freed, Blank, ConnRec, LockOK

LEMMA Swept ==
  ASSUME NEW r \in ConnRec, r.state = "live", LockOK(r), NEW q \in ClearBinding(r)
  PROVE  q = Freed \/ Shut(q, r)
<1>1. PICK p \in Close(r) : q = IF p.autoFree /\ p.lock = 0 THEN Freed ELSE p
  BY DEF ClearBinding
<1>2. Shut(p, r)
  BY Disconnected DEF Close, Shut
<1> QED BY <1>1, <1>2
-----------------------------------------------------------------------------
(* The object part of the invariant, and the changes it survives.           *)

ObjType ==
  /\ handler \in [Handlers -> HandlerRec]
  /\ conn \in [Conns -> ConnRec]
  /\ epoll \in [Fds -> Handlers \cup {NIL}]
  /\ listenFd \in Fds \cup {NIL}
  /\ lost \subseteq Fds

ObjInv ==
  /\ ObjType /\ Registered /\ Bound /\ LockHolds /\ OneOwner /\ WatchedIsOpen /\ Lifecycle
  /\ listenFd \notin lost

LEMMA HeldOK ==
  ASSUME ObjInv, NEW c \in Conns
  PROVE  conn[c] \in ConnRec /\ LockOK(conn[c]) /\ Same(conn[c], conn[c]) /\ Shut(conn[c], conn[c])
<1>1. conn[c] \in ConnRec BY DEF ObjInv, ObjType
<1>2. LockOK(conn[c]) BY DEF ObjInv, LockHolds, LockOK, ConnLive
<1> QED BY <1>1, <1>2 DEF Same, Shut

\* An active handler is registered for a socket.
LEMMA ActiveHasSocket ==
  ASSUME ObjInv, NEW h \in Handlers, handler[h].type \in Active
  PROVE  handler[h].socket \in Fds /\ epoll[handler[h].socket] = h
<1>1. handler[h] \in HandlerRec BY DEF ObjInv, ObjType
<1>2. epoll[handler[h].socket] = h BY DEF ObjInv, Registered
<1>3. CASE handler[h].type = "etAccept"
  BY <1>1, <1>2, <1>3 DEF ObjInv, ObjType, WatchedIsOpen
<1>4. CASE handler[h].type \in {"etConnect", "etIO"} /\ handler[h].binding = NIL
  BY <1>2, <1>4 DEF ObjInv, ObjType, WatchedIsOpen
<1>5. CASE handler[h].type \in {"etConnect", "etIO"} /\ handler[h].binding # NIL
  <2>1. handler[h].binding \in Conns BY <1>1, <1>5 DEF HandlerRec
  <2>2. conn[handler[h].binding].io = "open" /\ conn[handler[h].binding].fd = handler[h].socket
    BY <1>5 DEF ObjInv, WatchedIsOpen
  <2> QED BY <1>2, <2>1, <2>2 DEF ObjInv, OneOwner
<1> QED BY <1>3, <1>4, <1>5 DEF Active

\* What Deleting leaves in the interest list.
LEMMA Unregistered ==
  ASSUME ObjInv, NEW h \in Handlers, NEW ep, ep = Deleting(epoll, h)
  PROVE  /\ ep \in [Fds -> Handlers \cup {NIL}]
         /\ \A s \in Fds : ep[s] = IF epoll[s] = h THEN NIL ELSE epoll[s]
<1>1. CASE handler[h].type \in Active
  <2>1. handler[h].socket \in Fds /\ epoll[handler[h].socket] = h
    BY <1>1, ActiveHasSocket
  <2>2. ep = [epoll EXCEPT ![handler[h].socket] = NIL] BY <1>1 DEF Deleting
  <2>3. \A s \in Fds : epoll[s] = h => s = handler[h].socket
    BY NilAssumption DEF ObjInv, Registered
  <2> QED BY <2>1, <2>2, <2>3 DEF ObjInv, ObjType
<1>2. CASE handler[h].type \notin Active
  <2>1. ep = epoll BY <1>2 DEF Deleting
  <2>2. \A s \in Fds : epoll[s] # h
    BY <1>2, NilAssumption DEF ObjInv, Registered
  <2> QED BY <2>1, <2>2 DEF ObjInv, ObjType
<1> QED BY <1>1, <1>2

\* Locks and clocks change, a connection without a socket is disconnected once more, or one
\* is deleted before it ever had a handler.
LEMMA Edited ==
  ASSUME ObjInv, conn' \in [Conns -> ConnRec],
         \A c \in Conns : \/ Same(conn'[c], conn[c])
                          \/ conn[c].io = "none" /\ Shut(conn'[c], conn[c])
                          \/ conn[c].state = "unborn" /\ conn'[c] = Freed,
         UNCHANGED <<handler, epoll, listenFd, lost>>
  PROVE  ObjInv'
<1>1. ObjType' BY DEF ObjInv, ObjType
<1>2. Registered' BY DEF ObjInv, Registered
<1>3. \A c \in Conns : conn[c].state = "live" \/ conn'[c].state = "live" => Shut(conn'[c], conn[c])
  BY FreedIsConn DEF Same, Shut
<1>4. \A c \in Conns : conn'[c].io = "open" => conn[c].io = "open" /\ conn'[c].fd = conn[c].fd
                                             /\ conn[c].state = "live"
  BY FreedIsConn DEF ObjInv, Lifecycle, ConnLive, Same, Shut
<1>5. \A c \in Conns : conn[c].state = "live" => (Orphan(c)' <=> Orphan(c))
  BY <1>3 DEF Orphan, ConnLive, HandlerLive, Shut
<1>6. \A h \in Handlers : handler[h].binding \in Conns \cup {NIL}
  BY DEF ObjInv, ObjType, HandlerRec
<1>7. Bound' BY <1>3, <1>6 DEF ObjInv, Bound, HandlerLive, ConnLive, Shut
<1>8. LockHolds' BY FreedIsConn DEF LockHolds, Same, Shut, LockOK, ConnLive
<1>9. OneOwner' BY <1>3, <1>4, <1>5 DEF ObjInv, OneOwner, Shut
<1>10. WatchedIsOpen'
  <2>1. \A h \in Handlers : handler[h].type \in {"etConnect", "etIO"} /\ handler[h].binding # NIL
          => Same(conn'[handler[h].binding], conn[handler[h].binding])
    BY <1>6, FreedIsConn DEF ObjInv, Bound, HandlerLive, ConnLive, EventTypes, WatchedIsOpen
  <2> QED BY <2>1 DEF ObjInv, WatchedIsOpen, Same
<1>11. Lifecycle'
  <2>1. \A c \in Conns : ~ConnLive(c)' => conn'[c].io = "none"
    BY FreedIsConn DEF ObjInv, Lifecycle, ConnLive, Same, Shut
  <2>2. \A c \in Conns : ConnLive(c)' =>
          /\ conn'[c].handler \in Handlers /\ handler[conn'[c].handler].type # "unborn"
          /\ ~Orphan(c)' => handler[conn'[c].handler].binding = c
    BY <1>3, <1>5 DEF ObjInv, Lifecycle, ConnLive, Shut
  <2> QED BY <2>1, <2>2 DEF ObjInv, Lifecycle, HandlerLive, ConnLive
<1> QED BY <1>1, <1>2, <1>7, <1>8, <1>9, <1>10, <1>11 DEF ObjInv

\* A handler is stopped; its connection's socket may have gone.
LEMMA Stopped ==
  ASSUME ObjInv, NEW h \in Handlers, HandlerLive(h),
         handler' = Halted(handler, h), epoll' = Deleting(epoll, h),
         conn' \in [Conns -> ConnRec],
         \A c \in Conns : \/ Same(conn'[c], conn[c])
                          \/ c = handler[h].binding /\ Shut(conn'[c], conn[c]),
         UNCHANGED <<listenFd, lost>>
  PROVE  ObjInv'
<1>1. \A g \in Handlers : /\ handler'[g].type = IF g = h THEN "etDelete" ELSE handler[g].type
                          /\ handler'[g].socket = handler[g].socket
                          /\ handler'[g].binding = handler[g].binding
  BY DEF ObjInv, ObjType, HandlerRec, Halted
<1>2. ObjType'
  <2>1. handler' \in [Handlers -> HandlerRec]
    BY DEF ObjInv, ObjType, HandlerRec, Halted, EventTypes
  <2> QED BY <2>1, Unregistered DEF ObjInv, ObjType
<1>3. \A s \in Fds : epoll'[s] = IF epoll[s] = h THEN NIL ELSE epoll[s]
  BY Unregistered
<1>4. \A g \in Handlers : HandlerLive(g)' <=> HandlerLive(g)
  BY <1>1 DEF HandlerLive, EventTypes
<1>5. \A g \in Handlers : handler[g].binding \in Conns \cup {NIL}
  BY DEF ObjInv, ObjType, HandlerRec
<1>6. \A c \in Conns : Shut(conn'[c], conn[c]) BY DEF Same, Shut
<1>7. \A g \in Handlers : handler[g].type \in Active /\ epoll[handler[g].socket] = h => g = h
  BY DEF ObjInv, Registered
<1>8. Registered'
  <2>1. \A s \in Fds : epoll'[s] # NIL => handler'[epoll'[s]].type \in Active
                                            /\ handler'[epoll'[s]].socket = s
    BY <1>1, <1>2, <1>3 DEF ObjInv, ObjType, Registered
  <2>2. \A g \in Handlers : handler'[g].type \in Active => epoll'[handler'[g].socket] = g
    BY <1>1, <1>3, <1>7, ActiveHasSocket DEF Active
  <2> QED BY <2>1, <2>2 DEF Registered
<1>9. Bound'
  BY <1>1, <1>4, <1>5, <1>6 DEF ObjInv, Bound, HandlerLive, ConnLive, Shut
<1>10. LockHolds' BY <1>6 DEF LockHolds, Shut, LockOK, ConnLive
<1>11. \A c \in Conns : ConnLive(c) =>
         conn'[c].handler = conn[c].handler /\ conn[c].handler \in Handlers
         /\ (Orphan(c)' <=> Orphan(c))
  BY <1>4, <1>6 DEF ObjInv, Lifecycle, Orphan, ConnLive, HandlerLive, Shut
<1>12. OneOwner'
  <2>1. \A c \in Conns : conn'[c].io = "open" => conn[c].io = "open" /\ conn'[c].fd = conn[c].fd
                          /\ ConnLive(c)
    BY <1>6 DEF Shut, ObjInv, Lifecycle
  <2> QED BY <1>1, <1>11, <2>1 DEF ObjInv, OneOwner
<1>13. WatchedIsOpen'
  <2> SUFFICES ASSUME NEW g \in Handlers, g # h
               PROVE  /\ handler[g].type = "etAccept" => handler[g].socket = listenFd /\ listenFd # NIL
                      /\ handler[g].type \in {"etConnect", "etIO"} =>
                           IF handler[g].binding = NIL THEN handler[g].socket \in lost
                           ELSE /\ conn'[handler[g].binding].io = "open"
                                /\ conn'[handler[g].binding].fd = handler[g].socket
    BY <1>1 DEF WatchedIsOpen
  <2>1. handler[g].type \in EventTypes /\ handler[g].binding # NIL
          => handler[g].binding # handler[h].binding
    BY DEF ObjInv, Bound, HandlerLive
  <2> QED BY <1>5, <2>1 DEF ObjInv, WatchedIsOpen, Same, EventTypes
<1>14. Lifecycle'
  <2>1. \A g \in Handlers : handler'[g].type # "etNull" /\ (~HandlerLive(g)' => handler'[g].binding = NIL)
    BY <1>1, <1>4 DEF ObjInv, Lifecycle
  <2>2. \A c \in Conns : ~ConnLive(c)' => conn'[c].io = "none"
    BY <1>2, <1>6 DEF ObjInv, ObjType, Lifecycle, ConnLive, Shut, Same, ConnRec
  <2>3. \A c \in Conns : ConnLive(c)' =>
          /\ conn'[c].handler \in Handlers /\ handler'[conn'[c].handler].type # "unborn"
          /\ ~Orphan(c)' => handler'[conn'[c].handler].binding = c
    <3> SUFFICES ASSUME NEW c \in Conns, ConnLive(c)
                 PROVE  /\ conn'[c].handler \in Handlers /\ handler'[conn'[c].handler].type # "unborn"
                        /\ ~Orphan(c)' => handler'[conn'[c].handler].binding = c
      BY <1>6 DEF ConnLive, Shut
    <3> QED BY <1>1, <1>11 DEF ObjInv, Lifecycle
  <2> QED BY <2>1, <2>2, <2>3 DEF Lifecycle, HandlerLive, ConnLive
<1> QED BY <1>2, <1>8, <1>9, <1>10, <1>12, <1>13, <1>14 DEF ObjInv
\* A connect has succeeded: the handler serves its connection from now on.
LEMMA Served ==
  ASSUME ObjInv, NEW h \in Handlers, handler[h].type = "etConnect",
         handler' \in [Handlers -> HandlerRec],
         \A g \in Handlers : /\ handler'[g].type = IF g = h THEN "etIO" ELSE handler[g].type
                            /\ handler'[g].socket = handler[g].socket
                            /\ handler'[g].binding = handler[g].binding,
         conn' \in [Conns -> ConnRec],
         \A c \in Conns : Same(conn'[c], conn[c]),
         UNCHANGED <<epoll, listenFd, lost>>
  PROVE  ObjInv'
<1>1. ObjType' BY DEF ObjInv, ObjType
<1>2. Registered'
  <2>1. \A s \in Fds : epoll[s] \in Handlers \cup {NIL} BY DEF ObjInv, ObjType
  <2> QED BY <2>1 DEF ObjInv, Registered, Active
<1>3. \A g \in Handlers : HandlerLive(g)' <=> HandlerLive(g) BY DEF HandlerLive, EventTypes
<1>4. \A g \in Handlers : handler[g].binding \in Conns \cup {NIL}
  BY DEF ObjInv, ObjType, HandlerRec
<1>5. Bound' BY <1>3, <1>4 DEF ObjInv, Bound, HandlerLive, ConnLive, Same
<1>6. LockHolds' BY DEF LockHolds, Same, LockOK, ConnLive
<1>7. \A c \in Conns : ConnLive(c) => conn[c].handler \in Handlers /\ (Orphan(c)' <=> Orphan(c))
  BY <1>3 DEF ObjInv, Lifecycle, Orphan, ConnLive, HandlerLive, Same
<1>8. OneOwner'
  <2>1. \A c \in Conns : conn'[c].io = "open" => ConnLive(c) BY DEF ObjInv, Lifecycle, Same
  <2> QED BY <1>7, <2>1 DEF ObjInv, OneOwner, Same
<1>9. WatchedIsOpen' BY <1>4 DEF ObjInv, WatchedIsOpen, Same
<1>10. Lifecycle'
  <2>1. \A c \in Conns : ConnLive(c)' =>
          /\ conn'[c].handler \in Handlers /\ handler'[conn'[c].handler].type # "unborn"
          /\ ~Orphan(c)' => handler'[conn'[c].handler].binding = c
    BY <1>7 DEF ObjInv, Lifecycle, ConnLive, Same
  <2>2. \A c \in Conns : ~ConnLive(c)' => conn'[c].io = "none"
    BY DEF ObjInv, Lifecycle, ConnLive, Same
  <2>3. \A g \in Handlers : handler'[g].type # "etNull" /\ (~HandlerLive(g)' => handler'[g].binding = NIL)
    BY <1>3 DEF ObjInv, Lifecycle
  <2> QED BY <2>1, <2>2, <2>3 DEF Lifecycle, HandlerLive, ConnLive
<1> QED BY <1>1, <1>2, <1>5, <1>6, <1>8, <1>9, <1>10 DEF ObjInv

\* A handler is destroyed, and its connection freed or left to outlive it; or it is stopped
\* and unbound because its connection is deleted.
LEMMA Destroyed ==
  ASSUME ObjInv, NEW h \in Handlers, HandlerLive(h), NEW x \in {"freed", "etDelete"},
         handler' \in [Handlers -> HandlerRec],
         \A g \in Handlers \ {h} : handler'[g] = handler[g],
         handler'[h].type = x, handler'[h].binding = NIL,
         x = "etDelete" => handler[h].binding \in Conns /\ conn'[handler[h].binding] = Freed,
         epoll' = Deleting(epoll, h),
         conn' \in [Conns -> ConnRec],
         \A c \in Conns : \/ Same(conn'[c], conn[c])
                          \/ c = handler[h].binding /\ (conn'[c] = Freed \/ Shut(conn'[c], conn[c])),
         UNCHANGED <<listenFd, lost>>
  PROVE  ObjInv'
<1>1. \A g \in Handlers : /\ handler'[g].type = IF g = h THEN x ELSE handler[g].type
                          /\ g # h => handler'[g] = handler[g]
                          /\ handler'[g].binding = IF g = h THEN NIL ELSE handler[g].binding
  OBVIOUS
<1>2. ObjType' BY Unregistered DEF ObjInv, ObjType
<1>3. \A s \in Fds : epoll'[s] = IF epoll[s] = h THEN NIL ELSE epoll[s]
  BY Unregistered
<1>4. \A g \in Handlers : HandlerLive(g)' <=> HandlerLive(g) /\ (g # h \/ x = "etDelete")
  BY <1>1 DEF HandlerLive, EventTypes
<1>5. \A g \in Handlers : handler[g].binding \in Conns \cup {NIL}
  BY DEF ObjInv, ObjType, HandlerRec
<1>6. \A c \in Conns : conn'[c] = Freed \/ Shut(conn'[c], conn[c]) BY DEF Same, Shut
<1>7. \A g \in Handlers : handler[g].type \in Active /\ epoll[handler[g].socket] = h => g = h
  BY DEF ObjInv, Registered
<1>8. Registered'
  <2>1. \A s \in Fds : epoll'[s] # NIL => handler'[epoll'[s]].type \in Active
                                            /\ handler'[epoll'[s]].socket = s
    BY <1>1, <1>2, <1>3 DEF ObjInv, ObjType, Registered
  <2>2. \A g \in Handlers : handler'[g].type \in Active => epoll'[handler'[g].socket] = g
    BY <1>1, <1>3, <1>7, ActiveHasSocket DEF Active
  <2> QED BY <2>1, <2>2 DEF Registered
<1>9. \A g \in Handlers : HandlerLive(g) /\ g # h /\ handler[g].binding # NIL
                           => handler[g].binding # handler[h].binding
  BY DEF ObjInv, Bound
<1>10. Bound'
  <2> SUFFICES ASSUME NEW g \in Handlers, HandlerLive(g), g # h, handler[g].binding # NIL
               PROVE  conn'[handler[g].binding].state = "live" /\ conn'[handler[g].binding].handler = g
    BY <1>1, <1>4 DEF Bound, HandlerLive, ConnLive
  <2> QED BY <1>5, <1>9 DEF ObjInv, Bound, ConnLive, Same
<1>11. LockHolds' BY <1>6, FreedIsConn DEF LockHolds, Shut, LockOK, ConnLive
<1>12. \A c \in Conns : ConnLive(c)' =>
         /\ ConnLive(c) /\ Shut(conn'[c], conn[c])
         /\ conn'[c].handler = conn[c].handler /\ conn[c].handler \in Handlers
         /\ ~Orphan(c)' => ~Orphan(c) /\ conn[c].handler # h
  <2>1. \A c \in Conns : ConnLive(c)' => ConnLive(c) /\ Shut(conn'[c], conn[c])
    BY <1>6, FreedIsConn DEF ConnLive, Shut
  <2>2. ASSUME NEW c \in Conns, ConnLive(c)', ~Orphan(c)'
        PROVE  ~Orphan(c) /\ conn[c].handler # h
    <3>1. conn[c].handler \in Handlers /\ conn'[c].handler = conn[c].handler
      BY <2>1, <2>2 DEF ObjInv, Lifecycle, Shut
    <3>2. ~Orphan(c) BY <1>4, <2>1, <2>2, <3>1 DEF Orphan, ConnLive, HandlerLive
    <3>3. ASSUME conn[c].handler = h PROVE FALSE
      <4>1. handler[h].binding = c BY <2>1, <2>2, <3>2, <3>3 DEF ObjInv, Lifecycle
      <4>2. x = "etDelete" BY <1>4, <2>2, <3>1, <3>3 DEF Orphan, ConnLive, HandlerLive
      <4> QED BY <2>2, <4>1, <4>2, FreedIsConn DEF ConnLive
    <3> QED BY <3>2, <3>3
  <2> QED BY <2>1, <2>2 DEF ObjInv, Lifecycle, Shut
<1>13. OneOwner'
  <2>1. \A c \in Conns : conn'[c].io = "open" => conn[c].io = "open" /\ conn'[c].fd = conn[c].fd
                          /\ ConnLive(c)'
    BY <1>6, FreedIsConn DEF Shut, ObjInv, Lifecycle, ConnLive
  <2> QED BY <1>1, <1>12, <2>1 DEF ObjInv, OneOwner
<1>14. WatchedIsOpen'
  <2> SUFFICES ASSUME NEW g \in Handlers, g # h
               PROVE  /\ handler[g].type = "etAccept" => handler[g].socket = listenFd /\ listenFd # NIL
                      /\ handler[g].type \in {"etConnect", "etIO"} =>
                           IF handler[g].binding = NIL THEN handler[g].socket \in lost
                           ELSE /\ conn'[handler[g].binding].io = "open"
                                /\ conn'[handler[g].binding].fd = handler[g].socket
    BY <1>1 DEF WatchedIsOpen
  <2>1. handler[g].type \in EventTypes /\ handler[g].binding # NIL
          => handler[g].binding # handler[h].binding
    BY <1>9 DEF HandlerLive
  <2> QED BY <1>5, <2>1 DEF ObjInv, WatchedIsOpen, Same, EventTypes
<1>15. Lifecycle'
  <2>1. \A g \in Handlers : handler'[g].type # "etNull" /\ (~HandlerLive(g)' => handler'[g].binding = NIL)
    BY <1>1, <1>4 DEF ObjInv, Lifecycle
  <2>2. \A c \in Conns : ~ConnLive(c)' => conn'[c].io = "none"
    BY <1>6, FreedIsConn DEF ObjInv, ObjType, Lifecycle, ConnLive, Shut
  <2>3. \A c \in Conns : ConnLive(c)' =>
          /\ conn'[c].handler \in Handlers /\ handler'[conn'[c].handler].type # "unborn"
          /\ ~Orphan(c)' => handler'[conn'[c].handler].binding = c
    BY <1>1, <1>12 DEF ObjInv, Lifecycle
  <2> QED BY <2>1, <2>2, <2>3 DEF Lifecycle, HandlerLive, ConnLive
<1> QED BY <1>2, <1>8, <1>10, <1>11, <1>13, <1>14, <1>15 DEF ObjInv
\* A socket the kernel hands out is nobody's.
LEMMA FreeSocket ==
  ASSUME ObjInv, NEW s \in FreeFds
  PROVE  /\ s \in Fds /\ s \notin lost /\ s # listenFd /\ epoll[s] = NIL
         /\ \A c \in Conns : conn[c].io = "open" => conn[c].fd # s
<1>1. s \in Fds /\ s \notin lost /\ s # listenFd
  BY NilAssumption DEF FreeFds, OpenFds
<1>2. \A c \in Conns : conn[c].io = "open" => conn[c].fd # s
  BY DEF FreeFds, OpenFds
<1>3. ASSUME epoll[s] # NIL PROVE FALSE
  <2>1. epoll[s] \in Handlers BY <1>1, <1>3 DEF ObjInv, ObjType
  <2>2. handler[epoll[s]].type \in Active /\ handler[epoll[s]].socket = s
    BY <1>1, <1>3 DEF ObjInv, Registered
  <2>3. handler[epoll[s]].binding \in Conns \cup {NIL}
    BY <2>1 DEF ObjInv, ObjType, HandlerRec
  <2> QED BY <1>1, <1>2, <2>1, <2>2, <2>3 DEF ObjInv, WatchedIsOpen, Active
<1> QED BY <1>1, <1>2, <1>3

\* A connection and its handler come to life together on a fresh socket.
LEMMA Connected ==
  ASSUME ObjInv, NEW h \in Handlers, NEW c \in Conns, NEW s \in FreeFds,
         NEW k \in {"server", "client"}, NEW t \in {"etConnect", "etIO", "etDelete"},
         handler[h] = NoHandler, conn[c] = Unborn,
         handler' = [handler EXCEPT ![h] = [type |-> t, socket |-> s, binding |-> c]],
         conn' \in [Conns -> ConnRec],
         conn'[c] = NewConn(k, h, s),
         \A d \in Conns \ {c} : Same(conn'[d], conn[d]),
         epoll' = IF t = "etDelete" THEN epoll ELSE Adding(epoll, h, s),
         UNCHANGED <<listenFd, lost>>
  PROVE  ObjInv'
<1>1. /\ s \in Fds /\ s \notin lost /\ s # listenFd /\ epoll[s] = NIL
      /\ \A d \in Conns : conn[d].io = "open" => conn[d].fd # s
  BY FreeSocket
<1>2. \A g \in Handlers : /\ g # h => handler'[g] = handler[g]
                          /\ handler'[g].type = IF g = h THEN t ELSE handler[g].type
                          /\ handler'[g].socket = IF g = h THEN s ELSE handler[g].socket
                          /\ handler'[g].binding = IF g = h THEN c ELSE handler[g].binding
  BY DEF ObjInv, ObjType
<1>3. handler[h].type = "unborn" /\ handler[h].binding = NIL /\ ~HandlerLive(h)
  BY DEF NoHandler, HandlerLive, EventTypes
<1>4. conn[c].state = "unborn" /\ conn[c].io = "none" BY DEF Unborn, Blank
<1>5. /\ conn'[c].state = "live" /\ conn'[c].handler = h /\ conn'[c].io = "open" /\ conn'[c].fd = s
      /\ conn'[c].lock = 0
  BY DEF NewConn, Blank
<1>6. \A x \in Fds : epoll'[x] = IF x = s /\ t # "etDelete" THEN h ELSE epoll[x]
  BY <1>1 DEF Adding, ObjInv, ObjType
<1>7. ObjType'
  <2>1. handler' \in [Handlers -> HandlerRec]
    BY <1>1 DEF ObjInv, ObjType, HandlerRec, EventTypes
  <2>2. epoll' \in [Fds -> Handlers \cup {NIL}]
    BY <1>1 DEF ObjInv, ObjType, Adding
  <2> QED BY <2>1, <2>2 DEF ObjInv, ObjType
<1>8. \A g \in Handlers : HandlerLive(g)' <=> HandlerLive(g) \/ g = h
  BY <1>2 DEF HandlerLive, EventTypes
<1>9. \A g \in Handlers : handler[g].binding \in Conns \cup {NIL}
  BY DEF ObjInv, ObjType, HandlerRec
<1>10. \A g \in Handlers : handler[g].binding # c
  BY <1>4, <1>9, NilAssumption DEF ObjInv, Bound, Lifecycle, ConnLive
<1>11. Registered'
  <2>1. \A x \in Fds : epoll[x] # h
    BY <1>3, NilAssumption DEF ObjInv, Registered, Active
  <2>2. \A x \in Fds : epoll'[x] # NIL => handler'[epoll'[x]].type \in Active
                                            /\ handler'[epoll'[x]].socket = x
    BY <1>2, <1>6, <1>7, <2>1 DEF ObjInv, ObjType, Registered, Active
  <2>3. \A g \in Handlers : handler'[g].type \in Active => epoll'[handler'[g].socket] = g
    <3> SUFFICES ASSUME NEW g \in Handlers, handler'[g].type \in Active
                 PROVE  epoll'[handler'[g].socket] = g
      OBVIOUS
    <3>1. CASE g = h BY <1>1, <1>2, <1>6, <3>1 DEF Active
    <3>2. CASE g # h
      <4>1. handler[g].socket \in Fds /\ epoll[handler[g].socket] = g
        BY <1>2, <3>2, ActiveHasSocket
      <4> QED BY <1>1, <1>2, <1>6, <3>2, <4>1, NilAssumption
    <3> QED BY <3>1, <3>2
  <2> QED BY <2>2, <2>3 DEF Registered
<1>12. Bound'
  <2> SUFFICES ASSUME NEW g \in Handlers, HandlerLive(g) \/ g = h, handler'[g].binding # NIL
               PROVE  conn'[handler'[g].binding].state = "live" /\ conn'[handler'[g].binding].handler = g
    BY <1>8 DEF Bound, HandlerLive, ConnLive
  <2>1. CASE g = h BY <1>2, <1>5, <2>1
  <2>2. CASE g # h BY <1>2, <1>9, <1>10, <2>2 DEF ObjInv, Bound, ConnLive, Same
  <2> QED BY <2>1, <2>2
<1>13. LockHolds' BY <1>5 DEF LockHolds, Same, LockOK, ConnLive
<1>14. \A d \in Conns \ {c} : ConnLive(d) =>
         /\ conn'[d].handler = conn[d].handler /\ conn[d].handler \in Handlers
         /\ conn[d].handler # h /\ (Orphan(d)' <=> Orphan(d))
  <2>1. \A d \in Conns \ {c} : ConnLive(d) => conn[d].handler \in Handlers /\ conn[d].handler # h
    BY <1>3 DEF ObjInv, Lifecycle
  <2> QED BY <1>8, <2>1 DEF Orphan, ConnLive, HandlerLive, Same
<1>15. OneOwner'
  <2>1. \A d \in Conns \ {c} : conn'[d].io = "open" => conn[d].io = "open" /\ conn'[d].fd = conn[d].fd
                          /\ ConnLive(d)
    BY DEF Same, ObjInv, Lifecycle
  <2>2. /\ conn'[c].fd \in Fds \ (lost \cup {listenFd})
        /\ \A d \in Conns \ {c} : conn'[d].io = "open" => conn'[d].fd # conn'[c].fd
        /\ handler'[conn'[c].handler].socket = conn'[c].fd
    BY <1>1, <1>2, <1>5, <2>1
  <2>3. ASSUME NEW d \in Conns \ {c}, conn'[d].io = "open"
        PROVE /\ conn'[d].fd \in Fds \ (lost \cup {listenFd})
              /\ \A e \in Conns \ {d} : conn'[e].io = "open" => conn'[e].fd # conn'[d].fd
              /\ ~Orphan(d)' => handler'[conn'[d].handler].socket = conn'[d].fd
    <3>1. conn[d].io = "open" /\ conn'[d].fd = conn[d].fd /\ ConnLive(d) BY <2>1, <2>3
    <3>2. conn'[d].fd \in Fds \ (lost \cup {listenFd}) BY <3>1 DEF ObjInv, OneOwner
    <3>3. \A e \in Conns \ {d} : conn'[e].io = "open" => conn'[e].fd # conn'[d].fd
      BY <1>1, <1>5, <2>1, <3>1 DEF ObjInv, OneOwner
    <3>4. ~Orphan(d)' => handler'[conn'[d].handler].socket = conn'[d].fd
      BY <1>2, <1>14, <3>1 DEF ObjInv, OneOwner
    <3> QED BY <3>2, <3>3, <3>4
  <2> QED BY <2>2, <2>3 DEF OneOwner
<1>16. WatchedIsOpen'
  <2> SUFFICES ASSUME NEW g \in Handlers
               PROVE  /\ handler'[g].type = "etAccept" => handler'[g].socket = listenFd /\ listenFd # NIL
                      /\ handler'[g].type \in {"etConnect", "etIO"} =>
                           IF handler'[g].binding = NIL THEN handler'[g].socket \in lost
                           ELSE /\ conn'[handler'[g].binding].io = "open"
                                /\ conn'[handler'[g].binding].fd = handler'[g].socket
    BY DEF WatchedIsOpen
  <2>1. CASE g = h BY <1>2, <1>5, <2>1, NilAssumption
  <2>2. CASE g # h BY <1>2, <1>9, <1>10, <2>2 DEF ObjInv, WatchedIsOpen, Same
  <2> QED BY <2>1, <2>2
<1>17. Lifecycle'
  <2>1. \A g \in Handlers : handler'[g].type # "etNull" /\ (~HandlerLive(g)' => handler'[g].binding = NIL)
    BY <1>2, <1>8 DEF ObjInv, Lifecycle
  <2>2. \A d \in Conns : ~ConnLive(d)' => conn'[d].io = "none"
    BY <1>5 DEF ObjInv, Lifecycle, ConnLive, Same
  <2>3. \A d \in Conns : ConnLive(d)' =>
          /\ conn'[d].handler \in Handlers /\ handler'[conn'[d].handler].type # "unborn"
          /\ ~Orphan(d)' => handler'[conn'[d].handler].binding = d
    <3> SUFFICES ASSUME NEW d \in Conns, ConnLive(d) \/ d = c
                 PROVE  /\ conn'[d].handler \in Handlers /\ handler'[conn'[d].handler].type # "unborn"
                        /\ ~Orphan(d)' => handler'[conn'[d].handler].binding = d
      BY DEF ConnLive, Same
    <3>1. CASE d = c BY <1>2, <1>5, <3>1
    <3>2. CASE d # c BY <1>2, <1>14, <3>2 DEF ObjInv, Lifecycle
    <3> QED BY <3>1, <3>2
  <2> QED BY <2>1, <2>2, <2>3 DEF Lifecycle, HandlerLive, ConnLive
<1> QED BY <1>1, <1>7, <1>11, <1>12, <1>13, <1>15, <1>16, <1>17 DEF ObjInv
\* A handler without a connection starts: the server's listener, or a connect that threw.
LEMMA Started ==
  ASSUME ObjInv, NEW h \in Handlers, NEW s \in Fds, NEW t \in {"etAccept", "etConnect"},
         handler[h] = NoHandler, epoll[s] = NIL,
         \A d \in Conns : conn[d].io = "open" => conn[d].fd # s,
         handler' = [handler EXCEPT ![h] = [type |-> t, socket |-> s, binding |-> NIL]],
         conn' = conn, epoll' = Adding(epoll, h, s),
         \/ /\ t = "etAccept" /\ listenFd' = s /\ lost' = lost /\ s \notin lost
            /\ \A g \in Handlers : handler[g].type # "etAccept"
         \/ t = "etConnect" /\ listenFd' = listenFd /\ lost' = lost \cup {s} /\ s # listenFd
  PROVE  ObjInv'
<1>1. \A g \in Handlers : /\ g # h => handler'[g] = handler[g]
                          /\ handler'[g].type = IF g = h THEN t ELSE handler[g].type
                          /\ handler'[g].socket = IF g = h THEN s ELSE handler[g].socket
                          /\ handler'[g].binding = IF g = h THEN NIL ELSE handler[g].binding
  BY DEF ObjInv, ObjType
<1>2. handler[h].type = "unborn" /\ handler[h].binding = NIL /\ ~HandlerLive(h)
  BY DEF NoHandler, HandlerLive, EventTypes
<1>3. \A x \in Fds : epoll'[x] = IF x = s THEN h ELSE epoll[x]
  BY DEF Adding, ObjInv, ObjType
<1>4. ObjType'
  <2>1. handler' \in [Handlers -> HandlerRec]
    BY DEF ObjInv, ObjType, HandlerRec, EventTypes
  <2>2. epoll' \in [Fds -> Handlers \cup {NIL}]
    BY DEF ObjInv, ObjType, Adding
  <2> QED BY <2>1, <2>2 DEF ObjInv, ObjType
<1>5. \A g \in Handlers : HandlerLive(g)' <=> HandlerLive(g) \/ g = h
  BY <1>1 DEF HandlerLive, EventTypes
<1>6. Registered'
  <2>1. \A x \in Fds : epoll[x] # h
    BY <1>2, NilAssumption DEF ObjInv, Registered, Active
  <2>2. \A x \in Fds : epoll'[x] # NIL => handler'[epoll'[x]].type \in Active
                                            /\ handler'[epoll'[x]].socket = x
    BY <1>1, <1>3, <1>4, <2>1 DEF ObjInv, ObjType, Registered, Active
  <2>3. \A g \in Handlers : handler'[g].type \in Active => epoll'[handler'[g].socket] = g
    <3> SUFFICES ASSUME NEW g \in Handlers, handler'[g].type \in Active
                 PROVE  epoll'[handler'[g].socket] = g
      OBVIOUS
    <3>1. CASE g = h BY <1>1, <1>3, <3>1
    <3>2. CASE g # h
      <4>1. handler[g].socket \in Fds /\ epoll[handler[g].socket] = g
        BY <1>1, <3>2, ActiveHasSocket
      <4> QED BY <1>1, <1>3, <3>2, <4>1, NilAssumption
    <3> QED BY <3>1, <3>2
  <2> QED BY <2>2, <2>3 DEF Registered
<1>7. Bound' BY <1>1, <1>5 DEF ObjInv, Bound, HandlerLive, ConnLive
<1>8. LockHolds' BY DEF ObjInv, LockHolds, ConnLive
<1>9. \A d \in Conns : ConnLive(d) => conn[d].handler \in Handlers /\ conn[d].handler # h
                                      /\ (Orphan(d)' <=> Orphan(d))
  <2>1. \A d \in Conns : ConnLive(d) => conn[d].handler \in Handlers /\ conn[d].handler # h
    BY <1>2 DEF ObjInv, Lifecycle
  <2> QED BY <1>5, <2>1 DEF Orphan, ConnLive, HandlerLive
<1>10. OneOwner'
  <2>1. \A d \in Conns : conn[d].io = "open" => ConnLive(d) /\ conn[d].fd # s
    BY DEF ObjInv, Lifecycle
  <2> QED BY <1>1, <1>9, <2>1 DEF ObjInv, OneOwner
<1>11. WatchedIsOpen' BY <1>1, NilAssumption DEF ObjInv, WatchedIsOpen
<1>12. Lifecycle'
  <2>1. \A g \in Handlers : handler'[g].type # "etNull" /\ (~HandlerLive(g)' => handler'[g].binding = NIL)
    BY <1>1, <1>5 DEF ObjInv, Lifecycle
  <2>2. \A d \in Conns : ConnLive(d) =>
          /\ conn[d].handler \in Handlers /\ handler'[conn[d].handler].type # "unborn"
          /\ ~Orphan(d)' => handler'[conn[d].handler].binding = d
    BY <1>1, <1>9 DEF ObjInv, Lifecycle
  <2> QED BY <2>1, <2>2 DEF ObjInv, Lifecycle, HandlerLive, ConnLive
<1>13. (listenFd \notin lost)' BY NilAssumption DEF ObjInv, ObjType
<1> QED BY <1>4, <1>6, <1>7, <1>8, <1>10, <1>11, <1>12, <1>13 DEF ObjInv

\* The server binds a socket, or lets its socket go, while nothing listens.
LEMMA Rebound ==
  ASSUME ObjInv, listenFd' \in (Fds \ lost) \cup {NIL},
         \A c \in Conns : conn[c].io = "open" => conn[c].fd # listenFd',
         \A h \in Handlers : handler[h].type # "etAccept",
         UNCHANGED <<handler, conn, epoll, lost>>
  PROVE  ObjInv'
<1>1. ObjType' BY DEF ObjInv, ObjType
<1>2. Registered' /\ Bound' /\ LockHolds'
  BY DEF ObjInv, Registered, Bound, LockHolds, ConnLive, HandlerLive
<1>3. OneOwner' BY DEF ObjInv, OneOwner, Orphan, ConnLive, HandlerLive
<1>4. WatchedIsOpen' BY DEF ObjInv, WatchedIsOpen
<1>5. Lifecycle' BY DEF ObjInv, Lifecycle, Orphan, ConnLive, HandlerLive
<1>6. (listenFd \notin lost)' BY NilAssumption DEF ObjInv, ObjType
<1> QED BY <1>1, <1>2, <1>3, <1>4, <1>5, <1>6 DEF ObjInv
-----------------------------------------------------------------------------
(* The loop part of the invariant.                                          *)

LoopType ==
  /\ level \in Levels
  /\ pc \in {"wait", "dispatch", "callback", "write", "pack", "clear", "undefined"}
  /\ batch \subseteq Event
  /\ cb \in Callback
  /\ toPack \subseteq Handlers

Levelled ==
  /\ level = "alShutDown" => listenFd = NIL
  /\ level # "alActive" => \A h \in Handlers : handler[h].type # "etAccept"

LoopInv == LoopType /\ Levelled /\ BatchLive /\ NoStaleEvent /\ Window

LEMMA Parts == IndInv <=> ObjInv /\ LoopInv
BY DEF IndInv, ObjInv, ObjType, LoopInv, LoopType, Levelled, TypeOK, Listening

LEMMA PartsPrimed == IndInv' <=> ObjInv' /\ LoopInv'
BY DEF IndInv, ObjInv, ObjType, LoopInv, LoopType, Levelled, TypeOK, Listening

\* Nothing dies, nothing is bound anew, and nothing new listens.
Gentle ==
  /\ \A g \in Handlers : handler[g].type \in EventTypes =>
       /\ handler'[g].type \in EventTypes
       /\ handler'[g].binding = handler[g].binding
       /\ handler[g].type \in {"etIO", "etDelete"} => handler'[g].type \in {"etIO", "etDelete"}
  /\ \A c \in Conns : conn[c].state = "live" => conn'[c].state = "live"

NoNewListener ==
  /\ \A g \in Handlers : handler'[g].type = "etAccept" => handler[g].type = "etAccept"
  /\ level' = level /\ listenFd' = listenFd

LEMMA LevelKept == ASSUME Levelled, NoNewListener PROVE Levelled'
BY DEF Levelled, NoNewListener

\* A step that leaves the loop's own variables alone.
LEMMA LoopKept ==
  ASSUME LoopInv, Gentle, UNCHANGED loop, level' \in Levels, pc # "clear", Levelled'
  PROVE  LoopInv'
<1> USE DEF loop
<1>1. LoopType' BY DEF LoopInv, LoopType
<1>2. BatchLive'
  BY DEF LoopInv, LoopType, Event, BatchLive, Window, Gentle, HandlerLive
<1>3. NoStaleEvent' BY DEF LoopInv, NoStaleEvent, Window, Gentle, ConnLive
<1>4. Window'
  BY DEF LoopInv, LoopType, Event, Window, Gentle, BatchLive, HandlerLive
<1> QED BY <1>1, <1>2, <1>3, <1>4 DEF LoopInv
LEMMA GentleEdit ==
  ASSUME UNCHANGED <<handler, level, listenFd>>,
         \A c \in Conns : conn[c].state = "live" => conn'[c].state = "live"
  PROVE  Gentle /\ NoNewListener
BY DEF Gentle, NoNewListener

LEMMA GentleStop ==
  ASSUME ObjInv, NEW h \in Handlers, handler' = Halted(handler, h),
         \A c \in Conns : conn[c].state = "live" => conn'[c].state = "live",
         UNCHANGED <<level, listenFd>>
  PROVE  Gentle /\ NoNewListener
<1>1. \A g \in Handlers : /\ handler'[g].type = IF g = h THEN "etDelete" ELSE handler[g].type
                          /\ handler'[g].binding = handler[g].binding
  BY DEF ObjInv, ObjType, HandlerRec, Halted
<1> QED BY <1>1 DEF Gentle, NoNewListener, EventTypes

LEMMA GentleStart ==
  ASSUME ObjInv, NEW h \in Handlers, handler[h] = NoHandler,
         NEW t, NEW s, NEW b, t # "etAccept",
         handler' = [handler EXCEPT ![h] = [type |-> t, socket |-> s, binding |-> b]],
         \A c \in Conns : conn[c].state = "live" => conn'[c].state = "live",
         UNCHANGED <<level, listenFd>>
  PROVE  Gentle /\ NoNewListener
<1>1. handler[h].type \notin EventTypes BY DEF NoHandler, EventTypes
<1>2. \A g \in Handlers : /\ g # h => handler'[g] = handler[g]
                          /\ g = h => handler'[g].type = t
  BY DEF ObjInv, ObjType
<1> QED BY <1>1, <1>2 DEF Gentle, NoNewListener

LEMMA NewConnection ==
  ASSUME NEW h \in Handlers, NEW s \in Fds, NEW k \in {"server", "client"}
  PROVE  NewConn(k, h, s) \in ConnRec
<1>1. Blank("live") \in ConnRec BY BoundAssumption DEF Blank, ConnRec
<1> QED BY <1>1 DEF NewConn, ConnRec

LEMMA Touched ==
  ASSUME ObjInv, NEW h \in Handlers
  PROVE  Touch(h) \in [Conns -> ConnRec] /\ \A c \in Conns : Same(Touch(h)[c], conn[c])
<1>1. handler[h].binding \in Conns \cup {NIL} BY DEF ObjInv, ObjType, HandlerRec
<1>2. conn \in [Conns -> ConnRec] BY DEF ObjInv, ObjType
<1>3. \A c \in Conns : Same(conn[c], conn[c]) /\ Same(UpdateTimeOut(conn[c]), conn[c])
  BY HeldOK, LockMethods
<1>4. \A c \in Conns : UpdateTimeOut(conn[c]) \in ConnRec BY <1>3 DEF Same
<1> QED BY <1>1, <1>2, <1>3, <1>4 DEF Touch

LEMMA AgedSame ==
  ASSUME ObjInv
  PROVE  Aged \in [Conns -> ConnRec] /\ \A c \in Conns : Same(Aged[c], conn[c])
<1>1. SUFFICES ASSUME NEW c \in Conns PROVE Aged[c] \in ConnRec /\ Same(Aged[c], conn[c])
  BY DEF Aged
<1>2. CASE conn[c].timeout = "fresh"
  <2>1. Aged[c] = [conn[c] EXCEPT !.timeout = "stale"] BY <1>2 DEF Aged
  <2>2. conn[c] \in ConnRec /\ LockOK(conn[c]) BY HeldOK
  <2> QED BY <1>2, <2>1, <2>2 DEF Same, LockOK, ConnRec
<1>3. CASE conn[c].timeout # "fresh" BY <1>3, HeldOK DEF Aged
<1> QED BY <1>2, <1>3

LEMMA ConnectionShut ==
  ASSUME ObjInv, NEW c \in Conns, ConnLive(c), ~Orphan(c), NEW r, Shut(r, conn[c]),
         conn' = [conn EXCEPT ![c] = r], ClosePoll(c), UNCHANGED server
  PROVE  ObjInv' /\ Gentle /\ NoNewListener
<1> USE DEF server
<1>1. conn \in [Conns -> ConnRec] /\ \A d \in Conns : Same(conn[d], conn[d])
  BY HeldOK DEF ObjInv, ObjType
<1>2. PICK h \in Handlers : h = conn[c].handler /\ HandlerLive(h) /\ handler[h].binding = c
  BY DEF ObjInv, Lifecycle, Orphan
<1>3. handler' = Halted(handler, h) /\ epoll' = Deleting(epoll, h) BY <1>2 DEF ClosePoll
<1>4. conn' \in [Conns -> ConnRec] BY <1>1 DEF Shut
<1>5. \A d \in Conns : Same(conn'[d], conn[d])
                      \/ (d = handler[h].binding /\ Shut(conn'[d], conn[d]))
  BY <1>1, <1>2
<1>6. UNCHANGED <<listenFd, lost>> OBVIOUS
<1>7. ObjInv' BY <1>2, <1>3, <1>4, <1>5, <1>6, Stopped
<1>8. Gentle /\ NoNewListener BY <1>3, <1>5, GentleStop DEF Same, Shut
<1> QED BY <1>7, <1>8

-----------------------------------------------------------------------------
(* Every step preserves both parts.                                         *)

LEMMA UndefinedStep == ASSUME ObjInv, LoopInv, Undefined PROVE ObjInv' /\ LoopInv'
<1> USE DEF Undefined, objects, server
<1>1. ObjInv'
  <2>1. conn \in [Conns -> ConnRec] /\ \A c \in Conns : Same(conn[c], conn[c])
    BY HeldOK DEF ObjInv, ObjType
  <2> QED BY <2>1, Edited
<1>2. LoopInv'
  BY DEF LoopInv, LoopType, Levelled, BatchLive, NoStaleEvent, Window, HandlerLive
<1> QED BY <1>1, <1>2

LEMMA AppSteps ==
  ASSUME ObjInv, LoopInv, AppStep
  PROVE  ObjInv' /\ LoopInv'
<1> USE DEF server
<1>0. PICK c \in Conns :
        AppLock(c) \/ AppUnlock(c) \/ AppDisconnect(c) \/ AppDisconnectOrphan(c)
  BY DEF AppStep
<1>1. conn \in [Conns -> ConnRec] /\ conn[c] \in ConnRec /\ LockOK(conn[c])
      /\ \A d \in Conns : Same(conn[d], conn[d])
  BY HeldOK DEF ObjInv, ObjType
<1>2. AppRuns => pc # "clear" /\ level \in Levels BY DEF AppRuns, LoopInv, LoopType
<1>3. ASSUME NEW q, Same(q, conn[c]), conn' = [conn EXCEPT ![c] = q], AppRuns,
             UNCHANGED <<handler, epoll, server, loop>>
      PROVE  ObjInv' /\ LoopInv'
  <2>1. conn' \in [Conns -> ConnRec] /\ \A d \in Conns : Same(conn'[d], conn[d])
    BY <1>1, <1>3 DEF Same
  <2>2. ObjInv' BY <1>3, <2>1, Edited
  <2>3. Gentle /\ NoNewListener BY <1>3, <2>1, GentleEdit DEF Same
  <2> QED BY <1>2, <1>3, <2>2, <2>3, LoopKept, LevelKept DEF LoopInv
<1>4. CASE AppLock(c)
  <2>1. Same(IncLock(conn[c]), conn[c]) BY <1>1, <1>4, LockMethods DEF AppLock, ConnLive
  <2> QED BY <1>1, <1>3, <1>4, <2>1 DEF AppLock
<1>5. CASE AppUnlock(c)
  <2>1. Same(DecLock(conn[c]), conn[c]) BY <1>1, <1>5, LockMethods DEF AppUnlock
  <2> QED BY <1>1, <1>3, <1>5, <2>1 DEF AppUnlock
<1>6. CASE AppDisconnect(c)
  <2> USE <1>6 DEF AppDisconnect
  <2>1. PICK r \in Disconnect(conn[c]) : conn' = [conn EXCEPT ![c] = r] OBVIOUS
  <2>2. Shut(r, conn[c]) BY <1>1, Disconnected DEF ConnLive
  <2>3. ObjInv' /\ Gentle /\ NoNewListener BY <2>1, <2>2, ConnectionShut
  <2> QED BY <1>2, <2>3, LoopKept, LevelKept DEF LoopInv
<1>7. CASE AppDisconnectOrphan(c)
  BY <1>7, UndefinedStep DEF AppDisconnectOrphan
<1> QED BY <1>0, <1>4, <1>5, <1>6, <1>7
LEMMA ServerSteps ==
  ASSUME ObjInv, LoopInv, ServerStep
  PROVE  ObjInv' /\ LoopInv'
<1>1. ObjType /\ LoopType BY DEF ObjInv, LoopInv
<1>2. CASE Bind
  <2> USE <1>2 DEF Bind, objects
  <2>1. PICK s \in FreeFds : listenFd' = s OBVIOUS
  <2>2. s \in Fds /\ s \notin lost /\ \A c \in Conns : conn[c].io = "open" => conn[c].fd # s
    BY FreeSocket
  <2>3. \A h \in Handlers : handler[h].type # "etAccept" BY DEF LoopInv, Levelled
  <2>4. ObjInv' BY <2>1, <2>2, <2>3, Rebound
  <2>5. Gentle BY DEF Gentle
  <2>6. Levelled' BY <2>3 DEF Levelled
  <2> QED BY <2>4, <2>5, <2>6, LoopKept DEF Levels
<1>3. CASE Activate
  <2> USE <1>3 DEF Activate
  <2>1. PICK h \in Handlers, s \in Fds :
          /\ handler[h] = NoHandler
          /\ s = listenFd \/ (listenFd = NIL /\ s \in FreeFds)
          /\ listenFd' = s
          /\ handler' = [handler EXCEPT ![h] = [type |-> "etAccept", socket |-> s, binding |-> NIL]]
          /\ epoll' = Adding(epoll, h, s)
    OBVIOUS
  <2>2. \A g \in Handlers : handler[g].type # "etAccept" BY DEF LoopInv, Levelled
  <2>3. s \notin lost /\ \A c \in Conns : conn[c].io = "open" => conn[c].fd # s
    BY <2>1, FreeSocket DEF ObjInv, OneOwner
  <2>4. epoll[s] = NIL
    <3>1. CASE s \in FreeFds BY <3>1, FreeSocket
    <3>2. ASSUME s = listenFd, epoll[s] # NIL PROVE FALSE
      <4>1. epoll[s] \in Handlers BY <1>1, <3>2 DEF ObjType
      <4>2. handler[epoll[s]].type \in Active /\ handler[epoll[s]].socket = s
        BY <3>2 DEF ObjInv, Registered
      <4>3. handler[epoll[s]].binding \in Conns \cup {NIL}
        BY <1>1, <4>1 DEF ObjType, HandlerRec
      <4> QED BY <2>2, <2>3, <4>1, <4>2, <4>3 DEF ObjInv, WatchedIsOpen, Active
    <3> QED BY <2>1, <3>1, <3>2
  <2>5. ObjInv' BY <2>1, <2>2, <2>3, <2>4, Started
  <2>6. handler[h].type \notin EventTypes BY <2>1 DEF NoHandler, EventTypes
  <2>7. \A g \in Handlers : g # h => handler'[g] = handler[g] BY <1>1, <2>1 DEF ObjType
  <2>8. Gentle BY <2>6, <2>7 DEF Gentle
  <2>9. Levelled' BY DEF Levelled
  <2> QED BY <2>5, <2>8, <2>9, LoopKept DEF Levels
<1>4. CASE Deactivate
  <2> USE <1>4 DEF Deactivate, objects, server
  <2>1. conn \in [Conns -> ConnRec] /\ \A c \in Conns : Same(conn[c], conn[c])
    BY <1>1, HeldOK DEF ObjType
  <2>2. ObjInv' BY <2>1, Edited
  <2>3. LoopInv'
    BY <1>1 DEF LoopInv, LoopType, Levelled, BatchLive, NoStaleEvent, Window, HandlerLive
  <2> QED BY <2>2, <2>3
<1> QED BY <1>2, <1>3, <1>4 DEF ServerStep

LEMMA ClientSteps ==
  ASSUME ObjInv, LoopInv, ClientStep
  PROVE  ObjInv' /\ LoopInv'
<1> USE DEF server
<1>1. ObjType /\ LoopType BY DEF ObjInv, LoopInv
<1>2. ASSUME NEW t \in {"etConnect", "etIO", "etDelete"}, ClientConnects(t)
      PROVE  ObjInv' /\ LoopInv'
  <2> USE <1>2 DEF ClientConnects
  <2>1. PICK h \in Handlers, c \in Conns, s \in FreeFds :
          /\ handler[h] = NoHandler /\ conn[c] = Unborn
          /\ handler' = [handler EXCEPT ![h] = [type |-> t, socket |-> s, binding |-> c]]
          /\ conn' = [conn EXCEPT ![c] = NewConn("client", h, s)]
          /\ epoll' = IF t = "etDelete" THEN epoll ELSE Adding(epoll, h, s)
    OBVIOUS
  <2>2. NewConn("client", h, s) \in ConnRec BY FreeSocket, NewConnection
  <2>3. conn' \in [Conns -> ConnRec] /\ conn'[c] = NewConn("client", h, s)
        /\ \A d \in Conns \ {c} : conn'[d] = conn[d]
    BY <1>1, <2>1, <2>2 DEF ObjType
  <2>4. \A d \in Conns \ {c} : Same(conn'[d], conn[d]) BY <2>3, HeldOK
  <2>5. ObjInv' BY <2>1, <2>3, <2>4, Connected
  <2>6. \A d \in Conns : conn[d].state = "live" => conn'[d].state = "live"
    BY <2>1, <2>3 DEF Unborn, Blank
  <2>7. Gentle /\ NoNewListener BY <2>1, <2>6, GentleStart
  <2> QED BY <1>1, <2>5, <2>7, LoopKept, LevelKept DEF LoopInv, LoopType
<1>3. CASE ConnectThrows
  <2> USE <1>3 DEF ConnectThrows
  <2>1. PICK h \in Handlers, s \in FreeFds :
          /\ handler[h] = NoHandler
          /\ handler' = [handler EXCEPT ![h] = [type |-> "etConnect", socket |-> s, binding |-> NIL]]
          /\ epoll' = Adding(epoll, h, s)
          /\ lost' = lost \cup {s}
    OBVIOUS
  <2>2. ObjInv' BY <2>1, FreeSocket, Started
  <2>3. Gentle /\ NoNewListener BY <2>1, GentleStart
  <2> QED BY <1>1, <2>2, <2>3, LoopKept, LevelKept DEF LoopInv, LoopType
<1> QED BY <1>2, <1>3 DEF ClientStep, ConnectStart, ConnectAtOnce, ConnectAtOnceThrows

LEMMA WaitSteps ==
  ASSUME ObjInv, LoopInv, WaitStep
  PROVE  ObjInv' /\ LoopInv'
<1> USE DEF server
<1>1. ObjType /\ LoopType BY DEF ObjInv, LoopInv
<1>2. pc = "wait" /\ conn' = Aged /\ UNCHANGED <<handler, epoll, level, listenFd, lost, cb>>
  BY DEF WaitStep, Wait, WaitTimeOut
<1>3. conn' \in [Conns -> ConnRec] /\ \A c \in Conns : Same(conn'[c], conn[c])
  BY <1>2, AgedSame
<1>4. ObjInv' BY <1>2, <1>3, Edited
<1>5. Levelled' BY <1>2 DEF LoopInv, Levelled
<1>6. batch = {} BY <1>2 DEF LoopInv, Window
<1>7. CASE Wait
  <2> USE <1>7 DEF Wait
  <2>1. PICK ready \in SUBSET {s \in Fds : epoll[s] # NIL} :
          batch' = {[handler |-> epoll[s], from |-> handler[epoll[s]].binding] : s \in ready}
    OBVIOUS
  <2>2. \A s \in ready : /\ epoll[s] \in Handlers /\ handler[epoll[s]].type \in Active
                         /\ handler[epoll[s]].binding \in Conns \cup {NIL}
    BY <1>1 DEF ObjType, HandlerRec, ObjInv, Registered
  <2>3. \A e \in batch' : /\ e \in Event /\ handler[e.handler].type \in EventTypes
                          /\ e.from = handler[e.handler].binding
    BY <2>1, <2>2 DEF Event, Active, EventTypes
  <2>4. LoopType' BY <1>1, <1>2, <2>3 DEF LoopType
  <2>5. BatchLive' BY <1>2, <2>3 DEF LoopInv, BatchLive, HandlerLive
  <2>6. NoStaleEvent' /\ Window' BY <1>2, <2>3 DEF NoStaleEvent, Window
  <2> QED BY <1>4, <1>5, <2>4, <2>5, <2>6 DEF LoopInv
<1>8. CASE WaitTimeOut
  <2> USE <1>8 DEF WaitTimeOut
  <2>1. LoopType' BY <1>1, <1>2 DEF LoopType
  <2>2. BatchLive' BY <1>2, <1>6 DEF BatchLive, HandlerLive
  <2>3. NoStaleEvent' /\ Window' BY <1>2, <1>6 DEF NoStaleEvent, Window
  <2> QED BY <1>4, <1>5, <2>1, <2>2, <2>3 DEF LoopInv
<1> QED BY <1>7, <1>8 DEF WaitStep
\* Taking an event off the batch: what is left still stands for live, bound handlers.
LEMMA LessBatch ==
  ASSUME ObjInv, LoopInv, NEW e \in batch, Take(e), Gentle
  PROVE  /\ e \in Event /\ e.handler \in Handlers /\ handler[e.handler].type \in EventTypes
         /\ handler[e.handler].binding \in {e.from, NIL}
         /\ batch' \subseteq Event
         /\ \A x \in batch' : /\ handler'[x.handler].type \in EventTypes
                              /\ handler'[x.handler].binding \in {x.from, NIL}
<1>1. \A x \in batch : /\ x \in Event /\ x.handler \in Handlers
                       /\ handler[x.handler].type \in EventTypes
                       /\ handler[x.handler].binding \in {x.from, NIL}
  BY DEF LoopInv, LoopType, BatchLive, Window, HandlerLive, Event
<1> QED BY <1>1 DEF Take, Gentle

LEMMA DispatchSteps ==
  ASSUME ObjInv, LoopInv, DispatchStep
  PROVE  ObjInv' /\ LoopInv'
<1> USE DEF server, Take
<1>1. ObjType /\ LoopType BY DEF ObjInv, LoopInv
<1>2. \A h \in Handlers : handler[h].binding \in Conns \cup {NIL}
  BY <1>1 DEF ObjType, HandlerRec
<1>3. conn \in [Conns -> ConnRec] /\ \A c \in Conns : Same(conn[c], conn[c])
  BY <1>1, HeldOK DEF ObjType
<1>4. CASE EndOfBatch
  <2> USE <1>4 DEF EndOfBatch, objects
  <2>1. ObjInv' BY <1>3, Edited
  <2>2. LoopInv'
    BY <1>1 DEF LoopInv, LoopType, Levelled, BatchLive, NoStaleEvent, Window, HandlerLive
  <2> QED BY <2>1, <2>2
<1>5. ASSUME NEW e \in batch,
             \/ DispatchNothing(e) \/ DispatchAccept(e) \/ DispatchAcceptFails(e)
             \/ DispatchConnect(e) \/ DispatchRead(e) \/ DispatchWrite(e)
      PROVE  ObjInv' /\ LoopInv'
  <2> DEFINE h == e.handler
  <2>1. e \in Event /\ h \in Handlers /\ HandlerLive(h) /\ handler[h].binding \in {e.from, NIL}
    BY DEF LoopInv, LoopType, Event, BatchLive, Window
  <2>2. pc = "dispatch" /\ batch' = batch \ {e} /\ toPack' = toPack /\ UNCHANGED server
    BY <1>5 DEF DispatchNothing, DispatchAccept, DispatchAcceptFails, DispatchConnect,
                DispatchRead, DispatchWrite
  <2>3. Touch(h) \in [Conns -> ConnRec] /\ \A c \in Conns : Same(Touch(h)[c], conn[c])
    BY <2>1, Touched
  <2>4. ASSUME conn' = Touch(h), UNCHANGED <<handler, epoll>>
        PROVE  ObjInv' /\ Gentle /\ NoNewListener
    <3>1. conn' \in [Conns -> ConnRec] /\ \A c \in Conns : Same(conn'[c], conn[c])
      BY <2>3, <2>4
    <3>2. ObjInv' BY <2>2, <2>4, <3>1, Edited
    <3> QED BY <2>2, <2>4, <3>1, <3>2, GentleEdit DEF Same
  <2>5. ASSUME Gentle
        PROVE  /\ batch' \subseteq Event
               /\ \A x \in batch' : /\ handler'[x.handler].type \in EventTypes
                                    /\ handler'[x.handler].binding \in {x.from, NIL}
               /\ \A g \in toPack' : handler'[g].type \in EventTypes
               /\ toPack' \subseteq Handlers
    <3>1. \A g \in toPack : g \in Handlers /\ handler[g].type \in EventTypes
      BY DEF LoopInv, LoopType, BatchLive, HandlerLive
    <3> QED BY <2>2, <2>5, <3>1, LessBatch DEF Gentle
  <2>6. ASSUME Gentle, NoNewListener, UNCHANGED <<pc, cb>>
        PROVE  LoopInv'
    <3>1. LoopType' BY <1>1, <2>2, <2>5, <2>6 DEF LoopType
    <3>2. BatchLive' BY <2>2, <2>5, <2>6 DEF BatchLive, HandlerLive
    <3>3. NoStaleEvent' /\ Window' BY <2>2, <2>5, <2>6 DEF NoStaleEvent, Window
    <3> QED BY <2>6, <3>1, <3>2, <3>3, LevelKept DEF LoopInv
  <2>7. CASE DispatchNothing(e)
    BY <2>4, <2>6, <2>7 DEF DispatchNothing
  <2>8. CASE DispatchAccept(e)
    <3> USE <2>8 DEF DispatchAccept
    <3>1. PICK g \in Handlers, c \in Conns, s \in FreeFds :
            /\ handler[g] = NoHandler /\ conn[c] = Unborn
            /\ handler' = [handler EXCEPT ![g] = [type |-> "etIO", socket |-> s, binding |-> c]]
            /\ conn' = [Touch(h) EXCEPT ![c] = NewConn("server", g, s)]
            /\ epoll' = Adding(epoll, g, s)
            /\ cb' = [kind |-> "accept", handler |-> g, conn |-> c, from |-> c, out |-> FALSE]
      OBVIOUS
    <3>2. NewConn("server", g, s) \in ConnRec BY FreeSocket, NewConnection
    <3>3. /\ conn' \in [Conns -> ConnRec] /\ conn'[c] = NewConn("server", g, s)
          /\ \A d \in Conns \ {c} : conn'[d] = Touch(h)[d]
      BY <2>3, <3>1, <3>2
    <3>4. \A d \in Conns \ {c} : Same(conn'[d], conn[d]) BY <2>3, <3>3
    <3>5. ObjInv' BY <2>2, <3>1, <3>3, <3>4, Connected
    <3>6. \A d \in Conns : conn[d].state = "live" => conn'[d].state = "live"
      BY <3>1, <3>4 DEF Unborn, Blank, Same
    <3>7. Gentle /\ NoNewListener BY <2>2, <3>1, <3>6, GentleStart
    <3>8. handler'[g].type = "etIO" /\ handler'[g].binding = c
      BY <1>1, <3>1 DEF ObjType
    <3>9. LoopType' BY <1>1, <2>2, <2>5, <3>1, <3>7 DEF LoopType, Callback
    <3>10. BatchLive' BY <2>2, <2>5, <3>1, <3>7, <3>8 DEF BatchLive, HandlerLive, EventTypes
    <3>11. NoStaleEvent' /\ Window' BY <2>2, <2>5, <3>1, <3>7, <3>8 DEF NoStaleEvent, Window
    <3> QED BY <3>5, <3>7, <3>9, <3>10, <3>11, LevelKept DEF LoopInv
  <2>9. CASE DispatchAcceptFails(e)
    <3> USE <2>9 DEF DispatchAcceptFails
    <3>1. PICK c \in Conns : conn[c] = Unborn /\ conn' = [Touch(h) EXCEPT ![c] = Freed]
      OBVIOUS
    <3>2. conn[c].state = "unborn" BY <3>1 DEF Unborn, Blank
    <3>3. conn' \in [Conns -> ConnRec] BY <2>3, <3>1, FreedIsConn
    <3>4. \A d \in Conns : \/ Same(conn'[d], conn[d])
                           \/ conn[d].state = "unborn" /\ conn'[d] = Freed
      BY <2>3, <3>1, <3>2
    <3>5. ObjInv' BY <2>2, <3>3, <3>4, Edited
    <3>6. Gentle /\ NoNewListener BY <2>2, <3>4, GentleEdit DEF Same
    <3> QED BY <2>6, <3>5, <3>6
  <2>10. CASE DispatchConnect(e)
    <3> USE <2>10 DEF DispatchConnect
    <3>1. handler[h].type = "etConnect" /\ conn' = Touch(h) OBVIOUS
    <3>2. /\ conn' \in [Conns -> ConnRec] /\ \A c \in Conns : Same(conn'[c], conn[c])
          /\ \A c \in Conns : conn[c].state = "live" => conn'[c].state = "live"
      BY <2>3, <3>1 DEF Same
    <3> DEFINE c == handler[h].binding
    <3>3. CASE /\ c # NIL
               /\ handler' = [handler EXCEPT ![h].type = "etIO"]
               /\ UNCHANGED epoll
               /\ cb' = [kind |-> "connect", handler |-> h, conn |-> c, from |-> e.from, out |-> FALSE]
               /\ pc' = "callback"
      <4>1. \A g \in Handlers : /\ handler'[g].type = IF g = h THEN "etIO" ELSE handler[g].type
                                /\ handler'[g].socket = handler[g].socket
                                /\ handler'[g].binding = handler[g].binding
        BY <1>1, <3>3 DEF ObjType, HandlerRec
      <4>2. handler' \in [Handlers -> HandlerRec]
        BY ZenonT(40), <1>1, <3>3 DEF ObjType, HandlerRec, EventTypes
      <4>3. ObjInv' BY <2>1, <2>2, <3>1, <3>2, <3>3, <4>1, <4>2, Served
      <4>4. Gentle /\ NoNewListener
        BY <2>2, <3>1, <3>2, <4>1 DEF Gentle, NoNewListener, EventTypes
      <4>5. c \in Conns /\ c = e.from BY <1>2, <2>1, <3>3
      <4>6. LoopType' BY <1>1, <2>1, <2>2, <2>5, <3>3, <4>4, <4>5 DEF LoopType, Callback, Event
      <4>7. BatchLive' BY <2>1, <2>2, <2>5, <3>3, <4>1, <4>4 DEF BatchLive, HandlerLive, EventTypes
      <4>8. ConnLive(c)'
        BY <2>1, <3>2, <3>3, <4>5 DEF ObjInv, Bound, ConnLive
      <4>9. NoStaleEvent' /\ Window'
        BY <2>1, <2>2, <2>5, <3>3, <4>1, <4>4, <4>5, <4>8 DEF NoStaleEvent, Window, ConnLive
      <4> QED BY <4>3, <4>4, <4>6, <4>7, <4>9, LevelKept DEF LoopInv
    <3>4. CASE /\ handler' = Halted(handler, h)
               /\ epoll' = Deleting(epoll, h)
               /\ UNCHANGED <<cb, pc>>
      <4>1. ObjInv' BY <2>1, <2>2, <3>2, <3>4, Stopped
      <4>2. Gentle /\ NoNewListener BY <2>1, <2>2, <3>2, <3>4, GentleStop
      <4> QED BY <2>6, <3>4, <4>1, <4>2
    <3> QED BY <3>3, <3>4
  <2>11. CASE DispatchRead(e)
    <3> USE <2>11 DEF DispatchRead
    <3>1. PICK o \in BOOLEAN :
            cb' = [kind |-> "read", handler |-> h, conn |-> handler[h].binding,
                   from |-> e.from, out |-> o]
      OBVIOUS
    <3>2. /\ handler[h].type = "etIO" /\ handler[h].binding # NIL /\ pc' = "callback"
          /\ conn' = Touch(h) /\ UNCHANGED <<handler, epoll>>
      OBVIOUS
    <3>3. ObjInv' /\ Gentle /\ NoNewListener BY <2>4, <3>2
    <3>4. handler[h].binding \in Conns /\ handler[h].binding = e.from BY <1>2, <2>1, <3>2
    <3>5. LoopType' BY <1>1, <2>1, <2>2, <2>5, <3>1, <3>2, <3>3, <3>4 DEF LoopType, Callback, Event
    <3>6. BatchLive' BY <2>1, <2>2, <2>5, <3>1, <3>2, <3>3 DEF BatchLive, HandlerLive
    <3>7. conn'[handler[h].binding].state = "live"
      BY <2>1, <3>2, <3>3, <3>4 DEF ObjInv, Bound, ConnLive, Gentle
    <3>8. NoStaleEvent' /\ Window'
      BY <2>1, <2>2, <2>5, <3>1, <3>2, <3>3, <3>4, <3>7 DEF NoStaleEvent, Window, ConnLive
    <3> QED BY <3>3, <3>5, <3>6, <3>8, LevelKept DEF LoopInv
  <2>12. CASE DispatchWrite(e)
    <3> USE <2>12 DEF DispatchWrite
    <3>1. /\ handler[h].type = "etIO" /\ handler[h].binding # NIL /\ pc' = "write"
          /\ conn' = Touch(h) /\ UNCHANGED <<handler, epoll>>
          /\ cb' = [NoCallback EXCEPT !.handler = h, !.from = e.from]
      OBVIOUS
    <3>2. ObjInv' /\ Gentle /\ NoNewListener BY <2>4, <3>1
    <3>3. cb' \in Callback /\ cb'.handler = h
      BY <2>1, <3>1 DEF NoCallback, Callback, Event
    <3>4. LoopType' BY <1>1, <2>2, <2>5, <3>1, <3>2, <3>3 DEF LoopType
    <3>5. BatchLive' BY <2>1, <2>2, <2>5, <3>1, <3>2, <3>3 DEF BatchLive, HandlerLive
    <3>6. NoStaleEvent' /\ Window'
      BY <2>1, <2>2, <2>5, <3>1, <3>2, <3>3 DEF NoStaleEvent, Window
    <3> QED BY <3>2, <3>4, <3>5, <3>6, LevelKept DEF LoopInv
  <2> QED BY <1>5, <2>7, <2>8, <2>9, <2>10, <2>11, <2>12
<1> QED BY <1>4, <1>5 DEF DispatchStep
\* The connection of the callback in progress is alive and its handler is its own.
LEMMA InCallback ==
  ASSUME ObjInv, LoopInv, pc = "callback"
  PROVE  /\ cb.handler \in Handlers /\ HandlerLive(cb.handler) /\ cb.conn \in Conns
         /\ handler[cb.handler].binding = cb.conn
         /\ ConnLive(cb.conn) /\ conn[cb.conn].handler = cb.handler /\ ~Orphan(cb.conn)
<1>1. /\ cb.handler \in Handlers /\ HandlerLive(cb.handler) /\ cb.conn \in Conns
      /\ handler[cb.handler].binding = cb.conn
  BY DEF LoopInv, BatchLive, Window
<1>2. ConnLive(cb.conn) /\ conn[cb.conn].handler = cb.handler
  BY <1>1, NilAssumption DEF ObjInv, Bound
<1> QED BY <1>1, <1>2 DEF Orphan

LEMMA InWrite ==
  ASSUME ObjInv, LoopInv, pc = "write"
  PROVE  LET c == handler[cb.handler].binding
         IN c \in Conns /\ ConnLive(c) /\ ~Orphan(c)
<1>1. cb.handler \in Handlers /\ HandlerLive(cb.handler) /\ handler[cb.handler].binding # NIL
  BY DEF LoopInv, BatchLive, Window
<1>2. handler[cb.handler].binding \in Conns BY <1>1 DEF ObjInv, ObjType, HandlerRec
<1> QED BY <1>1, <1>2 DEF ObjInv, Bound, Orphan

\* The loop goes on to the next event of the batch.
LEMMA Resumed ==
  ASSUME LoopInv, Resume, NoNewListener,
         \A g \in Handlers : handler[g].type \in EventTypes =>
           handler'[g].type \in EventTypes /\ handler'[g].binding \in {handler[g].binding, NIL}
  PROVE  LoopInv'
<1> USE DEF Resume, server
<1>1. NoCallback \in Callback BY DEF NoCallback, Callback
<1>2. LoopType' BY <1>1 DEF LoopInv, LoopType
<1>3. BatchLive' BY DEF LoopInv, LoopType, Event, BatchLive, HandlerLive
<1>4. NoStaleEvent' BY DEF NoStaleEvent
<1>5. Window' BY DEF LoopInv, LoopType, Event, Window, BatchLive, HandlerLive
<1> QED BY <1>2, <1>3, <1>4, <1>5, LevelKept DEF LoopInv

LEMMA PeerSteps ==
  ASSUME ObjInv, LoopInv, PeerStep
  PROVE  ObjInv' /\ LoopInv'
<1> USE DEF server
<1> DEFINE c == cb.conn
<1>1. pc = "callback" /\ UNCHANGED loop /\ UNCHANGED server BY DEF PeerStep, ReadEof, ReadReset
<1>2. c \in Conns /\ ConnLive(c) /\ ~Orphan(c) BY <1>1, InCallback
<1>3. conn \in [Conns -> ConnRec] /\ \A d \in Conns : LockOK(conn[d]) /\ Same(conn[d], conn[d])
  BY HeldOK DEF ObjInv, ObjType
<1>4. CASE ReadEof
  <2> USE <1>4 DEF ReadEof
  <2> DEFINE q == [conn[c] EXCEPT !.graceful = TRUE]
  <2>1. Same(q, conn[c])
    <3> HIDE <1>4
    <3>1. conn[c] \in ConnRec /\ LockOK(conn[c]) BY <1>2, <1>3
    <3>2. TRUE \in BOOLEAN OBVIOUS
    <3> QED BY <3>1, <3>2, Marked, Zenon
  <2>2. conn' = [conn EXCEPT ![c] = q] OBVIOUS
  <2> HIDE DEF q
  <2>3. conn' \in [Conns -> ConnRec] /\ \A d \in Conns : Same(conn'[d], conn[d])
    BY <1>2, <1>3, <2>1, <2>2 DEF Same
  <2>4. ObjInv' BY <2>3, Edited
  <2>5. Gentle /\ NoNewListener BY <2>3, GentleEdit DEF Same
  <2> QED BY <1>1, <2>4, <2>5, LoopKept, LevelKept DEF LoopInv, LoopType
<1>5. CASE ReadReset
  <2> USE <1>5 DEF ReadReset
  <2>1. PICK r \in DisconnectSocket(conn[c]) : conn' = [conn EXCEPT ![c] = r] OBVIOUS
  <2>2. Shut(r, conn[c]) BY <1>2, <1>3, SocketGone DEF ConnLive
  <2>3. ObjInv' /\ Gentle /\ NoNewListener BY <1>2, <2>1, <2>2, ConnectionShut
  <2> QED BY <1>1, <2>3, LoopKept, LevelKept DEF LoopInv, LoopType
<1> QED BY <1>4, <1>5 DEF PeerStep

LEMMA ReturnSteps ==
  ASSUME ObjInv, LoopInv, ReturnStep
  PROVE  ObjInv' /\ LoopInv'
<1> USE DEF server
<1>1. conn \in [Conns -> ConnRec]
      /\ \A d \in Conns : LockOK(conn[d]) /\ Same(conn[d], conn[d]) /\ Shut(conn[d], conn[d])
  BY HeldOK DEF ObjInv, ObjType
<1>2. ASSUME UNCHANGED objects, Resume PROVE ObjInv' /\ LoopInv'
  <2> USE <1>2 DEF objects, Resume
  <2>1. ObjInv' BY <1>1, Edited
  <2>2. NoNewListener BY DEF NoNewListener
  <2> QED BY <2>1, <2>2, Resumed
<1>3. ASSUME NEW c \in Conns, ConnLive(c), ~Orphan(c), NEW r, Shut(r, conn[c]),
             conn' = [conn EXCEPT ![c] = r], ClosePoll(c), Resume
      PROVE  ObjInv' /\ LoopInv'
  <2>1. UNCHANGED server BY <1>3 DEF Resume
  <2>2. ObjInv' /\ Gentle /\ NoNewListener BY <1>3, <2>1, ConnectionShut
  <2> QED BY <1>3, <2>2, Resumed DEF Gentle
<1>4. CASE CallbackReturns BY <1>2, <1>4 DEF CallbackReturns
<1>5. CASE ReadReturnsToWrite
  <2> USE <1>5 DEF ReadReturnsToWrite, objects
  <2>1. ObjInv' BY <1>1, Edited
  <2>2. LoopType' /\ Levelled' BY DEF LoopInv, LoopType, Levelled
  <2>3. BatchLive' /\ NoStaleEvent' BY DEF LoopInv, BatchLive, NoStaleEvent, HandlerLive
  <2>4. Window' BY InCallback, NilAssumption DEF LoopInv, Window
  <2> QED BY <2>1, <2>2, <2>3, <2>4 DEF LoopInv
<1>6. CASE AcceptThrows
  <2> USE <1>6 DEF AcceptThrows
  <2> DEFINE h == cb.handler
  <2>1. h \in Handlers /\ HandlerLive(h) /\ cb.conn \in Conns /\ handler[h].binding = cb.conn
    BY InCallback
  <2>2. \A g \in Handlers : /\ g # h => handler'[g] = handler[g]
                            /\ handler'[g].type = IF g = h THEN "etDelete" ELSE handler[g].type
                            /\ handler'[g].binding = IF g = h THEN NIL ELSE handler[g].binding
    BY DEF ObjInv, ObjType, HandlerRec
  <2>3. handler' \in [Handlers -> HandlerRec]
    BY <2>1 DEF ObjInv, ObjType, HandlerRec, EventTypes
  <2>4. conn' \in [Conns -> ConnRec] /\ conn'[cb.conn] = Freed
        /\ \A d \in Conns : \/ Same(conn'[d], conn[d])
                            \/ d = handler[h].binding /\ (conn'[d] = Freed \/ Shut(conn'[d], conn[d]))
    BY <1>1, <2>1, FreedIsConn
  <2>5. UNCHANGED <<level, listenFd, lost>> BY DEF Resume
  <2>6. ObjInv' BY <2>1, <2>2, <2>3, <2>4, <2>5, Destroyed
  <2>7. NoNewListener BY ONLY <2>2, <2>5 DEF NoNewListener
  <2> QED BY <2>2, <2>6, <2>7, Resumed DEF EventTypes
<1>7. CASE ConnectCallbackThrows
  <2> USE <1>7 DEF ConnectCallbackThrows
  <2>1. cb.handler \in Handlers /\ HandlerLive(cb.handler) BY InCallback
  <2>2. UNCHANGED <<level, listenFd, lost>> BY DEF Resume
  <2>3. ObjInv' BY <1>1, <2>1, <2>2, Stopped
  <2>4. Gentle /\ NoNewListener BY <2>1, <2>2, GentleStop
  <2> QED BY <2>3, <2>4, Resumed DEF Gentle
<1>8. CASE ReadThrows
  <2> USE <1>8 DEF ReadThrows
  <2> DEFINE c == cb.conn
  <2>1. c \in Conns /\ ConnLive(c) /\ ~Orphan(c) BY InCallback
  <2>2. PICK r \in Disconnect(conn[c]) : conn' = [conn EXCEPT ![c] = r] OBVIOUS
  <2>3. Shut(r, conn[c]) BY <1>1, <2>1, Disconnected DEF ConnLive
  <2>4. CASE conn[c].io = "none"
    <3>1. UNCHANGED <<handler, epoll, level, listenFd, lost>> BY <2>4 DEF Resume
    <3>2. conn' \in [Conns -> ConnRec]
          /\ \A d \in Conns : Same(conn'[d], conn[d]) \/ (d = c /\ Shut(conn'[d], conn[d]))
      BY <1>1, <2>2, <2>3 DEF Shut
    <3>3. ObjInv' BY <2>4, <3>1, <3>2, Edited
    <3>4. Gentle /\ NoNewListener BY <3>1, <3>2, GentleEdit DEF Same, Shut
    <3> QED BY <3>3, <3>4, Resumed DEF Gentle
  <2>5. CASE conn[c].io # "none" BY <1>3, <2>1, <2>2, <2>3, <2>5
  <2> QED BY <2>4, <2>5
<1>9. CASE WriteSkipped BY <1>2, <1>9 DEF WriteSkipped
<1>10. CASE WriteDone BY <1>2, <1>10 DEF WriteDone
<1>11. CASE WriteFails
  <2> USE <1>11 DEF WriteFails
  <2> DEFINE c == handler[cb.handler].binding
  <2>1. c \in Conns /\ ConnLive(c) /\ ~Orphan(c) BY InWrite
  <2>2. PICK r \in IF conn[c].graceful /\ conn[c].kind = "server"
                   THEN DisconnectSocket(conn[c]) ELSE Reset(conn[c]) :
          conn' = [conn EXCEPT ![c] = r]
    OBVIOUS
  <2>3. Shut(r, conn[c]) BY <1>1, <2>1, <2>2, SocketGone, WasReset DEF ConnLive
  <2> QED BY <1>3, <2>1, <2>2, <2>3
<1> QED BY <1>4, <1>5, <1>6, <1>7, <1>8, <1>9, <1>10, <1>11 DEF ReturnStep
\* What ~CPollEventHandler does, whoever calls it.
LEMMA HandlerDestroyed ==
  ASSUME ObjInv, NEW h \in Handlers, HandlerLive(h), UNCHANGED server,
         handler' = [handler EXCEPT ![h] = GoneHandler], epoll' = Deleting(epoll, h),
         \/ handler[h].binding = NIL /\ conn' = conn
         \/ /\ handler[h].binding \in Conns
            /\ \E r : /\ r = Freed \/ Shut(r, conn[handler[h].binding])
                     /\ conn' = [conn EXCEPT ![handler[h].binding] = r]
  PROVE  /\ ObjInv' /\ NoNewListener
         /\ \A g \in Handlers : handler'[g].type \in EventTypes
                                <=> handler[g].type \in EventTypes /\ g # h
<1> USE DEF server
<1>1. conn \in [Conns -> ConnRec] /\ \A d \in Conns : Same(conn[d], conn[d])
  BY HeldOK DEF ObjInv, ObjType
<1>2. handler' \in [Handlers -> HandlerRec] /\ \A g \in Handlers \ {h} : handler'[g] = handler[g]
  BY DEF ObjInv, ObjType, HandlerRec, GoneHandler, EventTypes
<1>3. handler'[h].type = "freed" /\ handler'[h].binding = NIL
  BY DEF ObjInv, ObjType, GoneHandler
<1>4. /\ conn' \in [Conns -> ConnRec]
      /\ \A d \in Conns : \/ Same(conn'[d], conn[d])
                          \/ d = handler[h].binding /\ (conn'[d] = Freed \/ Shut(conn'[d], conn[d]))
  BY <1>1, FreedIsConn DEF Shut
<1>5. UNCHANGED <<listenFd, lost>> OBVIOUS
<1>6. ObjInv' BY <1>2, <1>3, <1>4, <1>5, Destroyed
<1>7. NoNewListener BY <1>2, <1>3 DEF NoNewListener
<1> QED BY <1>2, <1>3, <1>6, <1>7 DEF EventTypes

LEMMA DestroySteps ==
  ASSUME ObjInv, NEW h \in Handlers, HandlerLive(h), UNCHANGED server, Destroy(h)
  PROVE  /\ ObjInv' /\ NoNewListener
         /\ \A g \in Handlers : handler'[g].type \in EventTypes
                                <=> handler[g].type \in EventTypes /\ g # h
<1> USE DEF Destroy
<1>1. handler[h].binding \in Conns \cup {NIL} BY DEF ObjInv, ObjType, HandlerRec
<1>2. CASE handler[h].binding = NIL BY <1>2, HandlerDestroyed
<1>3. CASE handler[h].binding # NIL
  <2> DEFINE c == handler[h].binding
  <2>1. PICK r \in ClearBinding(conn[c]) : conn' = [conn EXCEPT ![c] = r] BY <1>3
  <2>2. c \in Conns /\ ConnLive(c) BY <1>1, <1>3 DEF ObjInv, Bound
  <2>3. conn[c] \in ConnRec /\ LockOK(conn[c]) BY <2>2, HeldOK
  <2>4. r = Freed \/ Shut(r, conn[c]) BY <2>1, <2>2, <2>3, Swept DEF ConnLive
  <2> QED BY <2>1, <2>2, <2>4, HandlerDestroyed
<1> QED BY <1>2, <1>3

\* The loop part after a handler was destroyed by the pack or by Clear.
LEMMA Visited ==
  ASSUME LoopInv, NEW h \in toPack, pc \in {"pack", "clear"}, NoNewListener,
         toPack' = toPack \ {h}, UNCHANGED <<pc, batch, cb>>,
         \A g \in Handlers : handler'[g].type \in EventTypes
                            => handler[g].type \in EventTypes /\ (pc = "clear" => g # h),
         \A g \in Handlers : handler[g].type \in EventTypes /\ g # h
                            => handler'[g].type \in EventTypes
  PROVE  LoopInv'
<1>1. batch = {} BY DEF LoopInv, Window
<1>2. LoopType' BY DEF LoopInv, LoopType, NoNewListener
<1>3. BatchLive' BY <1>1 DEF LoopInv, LoopType, BatchLive, HandlerLive
<1>4. NoStaleEvent' /\ Window' BY <1>1 DEF LoopInv, NoStaleEvent, Window, HandlerLive
<1> QED BY <1>2, <1>3, <1>4, LevelKept DEF LoopInv

LEMMA PackSteps ==
  ASSUME ObjInv, LoopInv, PackStep
  PROVE  ObjInv' /\ LoopInv'
<1> USE DEF server
<1>1. conn \in [Conns -> ConnRec] /\ \A d \in Conns : LockOK(conn[d]) /\ Same(conn[d], conn[d])
  BY HeldOK DEF ObjInv, ObjType
<1>2. \A h \in toPack : h \in Handlers /\ HandlerLive(h)
  BY DEF LoopInv, LoopType, BatchLive
<1>3. CASE PackEnd
  <2> USE <1>3 DEF PackEnd, objects
  <2>1. ObjInv' BY <1>1, Edited
  <2>2. LoopInv'
    BY DEF LoopInv, LoopType, Levelled, BatchLive, NoStaleEvent, Window, HandlerLive
  <2> QED BY <2>1, <2>2
<1>4. ASSUME NEW h \in toPack, PackKeeps(h) PROVE ObjInv' /\ LoopInv'
  <2> USE <1>4 DEF PackKeeps, Visit, objects
  <2>1. ObjInv' BY <1>1, Edited
  <2>2. NoNewListener BY DEF NoNewListener
  <2> QED BY <2>1, <2>2, Visited
<1>5. ASSUME NEW h \in toPack, PackDeletes(h) PROVE ObjInv' /\ LoopInv'
  <2> USE <1>5 DEF PackDeletes, Visit
  <2>1. /\ ObjInv' /\ NoNewListener
        /\ \A g \in Handlers : handler'[g].type \in EventTypes
                               <=> handler[g].type \in EventTypes /\ g # h
    BY <1>2, DestroySteps
  <2> QED BY <2>1, Visited
<1>6. ASSUME NEW h \in toPack, PackTimesOut(h) PROVE ObjInv' /\ LoopInv'
  <2> USE <1>6 DEF PackTimesOut, Visit, TimesOut
  <2> DEFINE c == handler[h].binding
  <2>0. PICK q \in Disconnect(conn[c]) :
          \E r \in ClearBinding(UpdateTimeOut(q)) : conn' = [conn EXCEPT ![c] = r]
    OBVIOUS
  <2>1. PICK r \in ClearBinding(UpdateTimeOut(q)) : conn' = [conn EXCEPT ![c] = r]
    BY <2>0
  <2>2. c \in Conns /\ ConnLive(c)
    BY <1>2 DEF ObjInv, ObjType, HandlerRec, Bound
  <2>3. Shut(q, conn[c]) /\ q.state = "live"
    BY <1>1, <2>0, <2>2, Disconnected DEF ConnLive, Shut
  <2>4. Same(UpdateTimeOut(q), q) BY <2>3, LockMethods DEF Shut
  <2>5. r = Freed \/ Shut(r, UpdateTimeOut(q)) BY <2>1, <2>3, <2>4, Swept DEF Same
  <2>6. r = Freed \/ Shut(r, conn[c]) BY <2>3, <2>4, <2>5 DEF Same, Shut
  <2>7. /\ ObjInv' /\ NoNewListener
        /\ \A g \in Handlers : handler'[g].type \in EventTypes
                               <=> handler[g].type \in EventTypes /\ g # h
    BY <1>2, <2>1, <2>2, <2>6, HandlerDestroyed
  <2> QED BY <2>7, Visited
<1> QED BY <1>3, <1>4, <1>5, <1>6 DEF PackStep

LEMMA ClearSteps ==
  ASSUME ObjInv, LoopInv, ClearStep
  PROVE  ObjInv' /\ LoopInv'
<1>1. ASSUME NEW h \in toPack, ClearHandler(h) PROVE ObjInv' /\ LoopInv'
  <2> USE <1>1 DEF ClearHandler
  <2>1. h \in Handlers /\ HandlerLive(h) BY DEF LoopInv, LoopType, BatchLive
  <2>2. /\ ObjInv' /\ NoNewListener
        /\ \A g \in Handlers : handler'[g].type \in EventTypes
                               <=> handler[g].type \in EventTypes /\ g # h
    BY <2>1, DestroySteps
  <2> QED BY <2>2, Visited
<1>2. CASE ClearEnd
  <2> USE <1>2 DEF ClearEnd, objects
  <2>1. \A g \in Handlers : handler[g].type \notin EventTypes
    BY DEF LoopInv, Window, HandlerLive
  <2>2. PICK v \in {"alShutDown", "alBinding"} :
          level' = v /\ listenFd' = IF v = "alShutDown" THEN NIL ELSE listenFd
    OBVIOUS
  <2>3. /\ listenFd' \in (Fds \ lost) \cup {NIL}
        /\ \A c \in Conns : conn[c].io = "open" => conn[c].fd # listenFd'
        /\ \A h \in Handlers : handler[h].type # "etAccept"
    BY <2>1, <2>2, NilAssumption DEF ObjInv, ObjType, OneOwner, EventTypes
  <2>4. ObjInv' BY <2>3, Rebound
  <2>5. Levelled' BY <2>2, <2>3 DEF Levelled
  <2>6. LoopType' BY <2>2 DEF LoopInv, LoopType, Levels
  <2>7. BatchLive' /\ NoStaleEvent' /\ Window'
    BY DEF LoopInv, BatchLive, NoStaleEvent, Window, HandlerLive
  <2> QED BY <2>4, <2>5, <2>6, <2>7 DEF LoopInv
<1>3. CASE ClearEndHeld BY <1>3, UndefinedStep DEF ClearEndHeld
<1> QED BY <1>1, <1>2, <1>3 DEF ClearStep

-----------------------------------------------------------------------------
(* The invariant holds, and with it the safety properties.                  *)

LEMMA InitInv == Init => IndInv
<1> SUFFICES ASSUME Init PROVE ObjInv /\ LoopInv
  BY Parts
<1> USE DEF Init
<1>1. \A h \in Handlers : handler[h] = NoHandler /\ ~HandlerLive(h)
  BY DEF NoHandler, HandlerLive, EventTypes
<1>2. \A c \in Conns : conn[c] = Unborn /\ ~ConnLive(c)
  BY DEF Unborn, Blank, ConnLive
<1>3. NoHandler \in HandlerRec /\ Unborn \in ConnRec /\ NoCallback \in Callback
  BY BoundAssumption DEF NoHandler, HandlerRec, Unborn, Blank, ConnRec, NoCallback, Callback
<1>4. ObjType BY <1>3 DEF ObjType
<1>5. Registered BY <1>1, NilAssumption DEF Registered, Active, HandlerLive, EventTypes
<1>6. Bound BY <1>1 DEF Bound
<1>7. LockHolds /\ OneOwner BY <1>2 DEF LockHolds, OneOwner, Unborn, Blank
<1>8. WatchedIsOpen BY <1>1 DEF WatchedIsOpen, NoHandler
<1>9. Lifecycle BY <1>1, <1>2 DEF Lifecycle, NoHandler, Unborn, Blank
<1>10. LoopInv
  BY <1>1, <1>3 DEF LoopInv, LoopType, Levels, Levelled, BatchLive, NoStaleEvent, Window, NoHandler
<1> QED BY <1>4, <1>5, <1>6, <1>7, <1>8, <1>9, <1>10 DEF ObjInv

LEMMA NextInv == IndInv /\ [Next]_vars => IndInv'
<1> SUFFICES ASSUME ObjInv, LoopInv, [Next]_vars PROVE ObjInv' /\ LoopInv'
  BY Parts, PartsPrimed
<1>1. CASE UNCHANGED vars
  <2> USE <1>1 DEF vars
  <2>1. conn \in [Conns -> ConnRec] /\ \A c \in Conns : Same(conn[c], conn[c])
    BY HeldOK DEF ObjInv, ObjType
  <2>2. ObjInv' BY <2>1, Edited
  <2>3. LoopInv'
    BY DEF LoopInv, LoopType, Levelled, BatchLive, NoStaleEvent, Window, HandlerLive, ConnLive
  <2> QED BY <2>2, <2>3
<1>2. CASE Next
  BY <1>2, ServerSteps, ClientSteps, AppSteps, WaitSteps, DispatchSteps, PeerSteps,
     ReturnSteps, PackSteps, ClearSteps DEF Next
<1> QED BY <1>1, <1>2

\* The loop's invariant: every clause below follows from it, at every number of handlers,
\* connections and sockets and every time-out.
THEOREM InvariantHolds == Spec => []IndInv
BY InitInv, NextInv, PTL DEF Spec

\* The records of handlers and connections, and where the loop's thread is, stay well formed
\* whatever the order of events, callbacks, locks and packs.
THEOREM TypeCorrect == Spec => []TypeOK
<1>1. IndInv => TypeOK BY DEF IndInv
<1> QED BY <1>1, InvariantHolds, PTL

\* CEPoll::Wait never dispatches to, packs or returns into a destroyed handler.
THEOREM NoDestroyedHandler == Spec => []BatchLive
<1>1. IndInv => BatchLive BY DEF IndInv
<1> QED BY <1>1, InvariantHolds, PTL

\* The kernel's interest list names exactly the active handlers, at their sockets.
THEOREM InterestListAgrees == Spec => []Registered
<1>1. IndInv => Registered BY DEF IndInv
<1> QED BY <1>1, InvariantHolds, PTL

\* A handler's binding is alive and points back at it.
THEOREM BindingsAgree == Spec => []Bound
<1>1. IndInv => Bound BY DEF IndInv
<1> QED BY <1>1, InvariantHolds, PTL

\* Lock suspends the time-out and the ownership of the handler until the last Unlock.
THEOREM LocksHold == Spec => []LockHolds
<1>1. IndInv => LockHolds BY DEF IndInv
<1> QED BY <1>1, InvariantHolds, PTL

\* An open socket has one owner, and its handler watches it.
THEOREM SocketsHaveOneOwner == Spec => []OneOwner
<1>1. IndInv => OneOwner BY DEF IndInv
<1> QED BY <1>1, InvariantHolds, PTL

\* An event only ever reaches the connection it was reported for.
THEOREM EventsReachTheirConnection == Spec => []NoStaleEvent
<1>1. IndInv => NoStaleEvent BY DEF IndInv
<1> QED BY <1>1, InvariantHolds, PTL

-----------------------------------------------------------------------------
(* What a step may never do: from the invariant, action by action.          *)

LEMMA StoppedStep ==
  ASSUME IndInv, Next, NEW h \in Handlers, handler[h].type = "etDelete"
  PROVE  handler'[h].type \in {"etDelete", "freed"}
<1>0. handler \in [Handlers -> HandlerRec] /\ handler[h] \in HandlerRec
  BY DEF IndInv, TypeOK
<1>1. ASSUME NEW g, handler' = Halted(handler, g)
      PROVE  handler'[h].type = "etDelete"
  BY <1>0, <1>1 DEF Halted, HandlerRec
<1>2. ASSUME NEW g \in Handlers, handler' = [handler EXCEPT ![g] = GoneHandler]
      PROVE  handler'[h].type \in {"etDelete", "freed"}
  BY <1>0, <1>2 DEF GoneHandler
<1>3. ASSUME NEW g \in Handlers, handler[g] = NoHandler, NEW r,
             handler' = [handler EXCEPT ![g] = r]
      PROVE  handler'[h] = handler[h]
  BY <1>0, <1>3 DEF NoHandler
<1>4. CASE ServerStep
  BY <1>3, <1>4 DEF ServerStep, Bind, Activate, Deactivate, objects
<1>5. CASE ClientStep
  BY <1>3, <1>5 DEF ClientStep, ConnectStart, ConnectAtOnce, ConnectAtOnceThrows,
                    ClientConnects, ConnectThrows
<1>6. CASE AppStep
  BY <1>1, <1>6 DEF AppStep, AppLock, AppUnlock, AppDisconnect, AppDisconnectOrphan, ClosePoll,
                    Undefined, objects
<1>7. CASE WaitStep
  BY <1>7 DEF WaitStep, Wait, WaitTimeOut
<1>8. CASE DispatchStep
  <2>1. ASSUME NEW e \in batch, DispatchConnect(e) PROVE handler'[h].type = "etDelete"
    <3>1. CASE handler' = Halted(handler, e.handler) BY <1>1, <3>1
    <3>2. CASE /\ handler[e.handler].type = "etConnect"
               /\ handler' = [handler EXCEPT ![e.handler].type = "etIO"]
      BY <1>0, <3>2
    <3> QED BY <2>1, <3>1, <3>2 DEF DispatchConnect
  <2>2. ASSUME NEW e \in batch, DispatchAccept(e) PROVE handler'[h].type = "etDelete"
    BY <1>3, <2>2 DEF DispatchAccept
  <2> QED BY <1>8, <2>1, <2>2 DEF DispatchStep, DispatchNothing, DispatchAcceptFails,
                                  DispatchRead, DispatchWrite, EndOfBatch, objects
<1>9. CASE PeerStep
  BY <1>1, <1>9 DEF PeerStep, ReadEof, ReadReset, ClosePoll
<1>10. CASE ReturnStep
  <2>1. CASE AcceptThrows
    BY <1>0, <2>1 DEF AcceptThrows, HandlerRec
  <2>2. CASE ConnectCallbackThrows \/ ReadThrows \/ WriteFails
    BY <1>1, <2>2 DEF ConnectCallbackThrows, ReadThrows, WriteFails, ClosePoll
  <2> QED BY <1>10, <2>1, <2>2 DEF ReturnStep, CallbackReturns, ReadReturnsToWrite,
                                   WriteSkipped, WriteDone, objects
<1>11. CASE PackStep
  BY <1>2, <1>11 DEF PackStep, PackKeeps, PackDeletes, PackTimesOut, PackEnd, Destroy, objects,
                     IndInv, TypeOK
<1>12. CASE ClearStep
  BY <1>2, <1>12 DEF ClearStep, ClearHandler, ClearEnd, ClearEndHeld, Destroy, Undefined, objects,
                     IndInv, TypeOK
<1> QED BY <1>4, <1>5, <1>6, <1>7, <1>8, <1>9, <1>10, <1>11, <1>12 DEF Next

\* Stop is final: no order of events, callbacks, connects and packs starts a stopped handler
\* again; the next thing that happens to it is its destruction.
THEOREM StopIsFinal == Spec => StoppedStaysStopped
<1>1. IndInv /\ [Next]_vars =>
        [\A h \in Handlers :
           handler[h].type = "etDelete" => handler'[h].type \in {"etDelete", "freed"}]_vars
  BY StoppedStep
<1> QED BY <1>1, InvariantHolds, PTL DEF Spec, StoppedStaysStopped

LEMMA LockedStep ==
  ASSUME IndInv, Next, pc = "pack", NEW c \in Conns,
         conn[c].lock > 0, handler[conn[c].handler].type # "etDelete"
  PROVE  conn'[c] = conn[c] /\ handler'[conn[c].handler] = handler[conn[c].handler]
<1> DEFINE h == conn[c].handler
<1>0. /\ handler \in [Handlers -> HandlerRec] /\ conn \in [Conns -> ConnRec]
      /\ toPack \subseteq Handlers /\ h \in Handlers
      /\ \A g \in toPack : HandlerLive(g)
  BY DEF IndInv, TypeOK, LockHolds, Lifecycle, BatchLive
<1>1. conn[c].timeout = "infinite"
  BY DEF IndInv, LockHolds
\* Another handler's binding is another connection.
<1>2. \A g \in toPack : handler[g].binding = c => g = h
  BY <1>0, NilAssumption DEF IndInv, Bound
<1>3. PackStep
  BY DEF Next, ServerStep, Bind, Activate, Deactivate, ClientStep, ConnectStart, ConnectAtOnce,
         ConnectAtOnceThrows, ClientConnects, ConnectThrows, AppStep, AppLock, AppUnlock,
         AppDisconnect, AppDisconnectOrphan, AppRuns, WaitStep, Wait, WaitTimeOut, DispatchStep,
         Take, DispatchNothing, DispatchAccept, DispatchAcceptFails, DispatchConnect,
         DispatchRead, DispatchWrite, EndOfBatch, PeerStep, ReadEof, ReadReset, ReturnStep,
         CallbackReturns, ReadReturnsToWrite, AcceptThrows, ConnectCallbackThrows, ReadThrows,
         WriteSkipped, WriteDone, WriteFails, ClearStep, ClearHandler, ClearEnd, ClearEndHeld
<1>4. ASSUME NEW g \in toPack, g # h, handler' = [handler EXCEPT ![g] = GoneHandler],
             \/ conn' = conn
             \/ \E r : conn' = [conn EXCEPT ![handler[g].binding] = r]
      PROVE  conn'[c] = conn[c] /\ handler'[h] = handler[h]
  <2>1. handler[g].binding # c BY <1>2, <1>4
  <2> QED BY <1>0, <1>4, <2>1
<1>5. ASSUME NEW g \in toPack, PackDeletes(g) PROVE conn'[c] = conn[c] /\ handler'[h] = handler[h]
  <2>1. g # h BY <1>5 DEF PackDeletes
  <2> QED BY <1>4, <1>5, <2>1 DEF PackDeletes, Destroy
\* A connection under Lock has not expired.
<1>6. ASSUME NEW g \in toPack, PackTimesOut(g) PROVE conn'[c] = conn[c] /\ handler'[h] = handler[h]
  <2>1. ~Expired(conn[c]) BY <1>1 DEF Expired
  <2>2. HandlerLive(h) /\ handler[h].binding # NIL => handler[h].binding = c
    BY <1>0 DEF IndInv, Lifecycle, LockHolds, Orphan
  <2>3. g # h BY <1>0, <1>6, <2>1, <2>2 DEF PackTimesOut, TimesOut
  <2> QED BY <1>4, <1>6, <2>3 DEF PackTimesOut
<1> QED BY <1>3, <1>5, <1>6 DEF PackStep, PackKeeps, PackEnd, objects

\* For every poll time-out, the default INFINITE among them: PackEventHandlers neither times out
\* nor changes a connection under Lock whose handler was not stopped.
THEOREM LockedConnectionsStay == Spec => LockedNotTimedOut
<1>1. IndInv /\ [Next]_vars =>
        [pc = "pack" =>
           \A c \in Conns :
             conn[c].lock > 0 /\ handler[conn[c].handler].type # "etDelete" =>
               conn'[c] = conn[c] /\ handler'[conn[c].handler] = handler[conn[c].handler]]_vars
  BY LockedStep
<1> QED BY <1>1, InvariantHolds, PTL DEF Spec, LockedNotTimedOut
=============================================================================
