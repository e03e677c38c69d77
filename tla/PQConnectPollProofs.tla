------------------------ MODULE PQConnectPollProofs ------------------------
(***************************************************************************)
(* Proofs about PQConnectPoll, for every set of connections, handlers,      *)
(* queries and sockets, every pool size and every number of faults.         *)
(*                                                                         *)
(* The first part of the invariant needs no assumption: the objects are     *)
(* wired to each other (Wired), the calls in progress nest as they should   *)
(* (Frames), the event being dispatched is that of a connection that is     *)
(* there (Cursor), and a query is in one place (Once).  The second part     *)
(* (Busy, Told) says when a connection may have a query and what the        *)
(* application knows of it; it needs a pool that keeps a connection, as     *)
(* without one PackConnections throws and Wait ends before it packs.        *)
(* The last part (Quiet) is for a pool with which nothing goes wrong.       *)
(***************************************************************************)
EXTENDS PQConnectPoll, ListLemmas, FiniteSetTheorems

\* A registered handler is that of a connection with this socket, or of the timer.
Watches(w, h, s) ==
  \/ w.handler[h].binding \in Conns /\ w.conn[w.handler[h].binding].fd = s
  \/ w.handler[h].binding = TIMER /\ w.handler[h].socket = s

\* The objects point to each other as the kernel, the collections and the destructors need it.
Wired(w) ==
  /\ NoDuplicates(w.list) /\ NoDuplicates(w.pool)
  /\ \A h \in Handlers : h \in Members(w.list) <=> w.handler[h].type # "none"
  /\ \A h \in Handlers : w.handler[h].type = "none" => w.handler[h].binding = NIL
  /\ \A h \in Handlers : w.handler[h].binding \in Conns => w.handler[h].binding \in Members(w.pool)
  /\ \A s \in Fds : w.epoll[s] # DANGLING /\ (w.epoll[s] \in Handlers => Watches(w, w.epoll[s], s))
  /\ \A c \in Conns : w.conn[c].handler \in Handlers => w.handler[w.conn[c].handler].binding = c
  /\ \A c \in Conns : c \notin Members(w.pool) => w.conn[c] = Blank /\ w.work[c] = NIL
  /\ \A c \in Conns : w.conn[c].pq = "none" => w.conn[c].fd = NIL

\* Frames in which the application may start another query
Callbacks == {"newfail", "failing"}

\* There is a connection left for each one that Start still has to make.
RoomFor(f) == f.at <= SizeMin /\ Cardinality(FreeConns) >= SizeMin - f.at

FrameOK(f) ==
  /\ f.query = NIL => f.step = "open" \/ (f.new /\ f.step \in {"start", "poll", "newfail"})
  /\ f.step = "open" => f.query = NIL
  /\ f.step = "scan" => ~f.new /\ f.at > 0
  /\ f.step = "newfail" => f.new
  /\ f.step \in {"start", "poll", "newfail"} => f.conn # NIL
  /\ f.step \in {"start", "poll"} => Connecting(f.conn)
  /\ f.step = "start" => conn[f.conn].fd = NIL
  /\ f.conn # NIL => f.conn \in Members(pool)
  /\ f.query = NIL /\ f.step # "newfail" => RoomFor(f)

\* A connection that NewConnection is still responsible for
Making(f, c) == f.new /\ f.conn = c /\ f.step \in {"start", "poll", "newfail"}

\* The calls nest in callbacks only, and nobody else has a connection that one of them is making.
Frames ==
  /\ \A i \in DOMAIN calls :
       /\ FrameOK(calls[i])
       /\ i > 1 => calls[i].step \in Callbacks
       /\ calls[i].query = NIL => i = Len(calls)
  /\ \A i, j \in DOMAIN calls : \A c \in Conns :
       Making(calls[i], c) /\ calls[j].step \in Callbacks /\ calls[j].conn = c => i = j
  /\ \A i \in DOMAIN calls : \A c \in Conns :
       Making(calls[i], c) => Connecting(c) /\ work[c] = NIL

\* The event that is being dispatched belongs to a connection that is there, and to no other event
\* of the batch.
Dispatching == pc \in {"write", "executed", "notify", "fault"}

Cursor ==
  /\ Dispatching =>
       /\ cur.conn \in Conns /\ cur.handler \in Handlers
       /\ handler[cur.handler].binding = cur.conn
       /\ \A h \in batch : handler[h].binding # cur.conn
       /\ \A i \in DOMAIN calls : Making(calls[i], cur.conn) => FALSE
       /\ \A i \in DOMAIN calls : calls[i].step = "failing" => calls[i].conn # cur.conn
  /\ pc \in {"executed", "notify", "fault"} =>
       conn[cur.conn].status # "qsReady" \/ conn[cur.conn].pq = "bad"
  /\ pc \in {"executed", "notify"} => cur.saved # "qsWait"
  /\ pc = "shrink" => at \in SizeMin .. Len(pool)
  /\ pc = "pack" => at <= Len(list)
  /\ pc \in {"write", "shrink", "pack", "clear", "undefined"} => calls = <<>>
  /\ pc \in {"wait", "pack", "clear"} => batch = {}
  /\ \A h \in batch : handler[h].type # "none"
  /\ \A h, k \in batch : handler[h].binding \in Conns /\ handler[h].binding = handler[k].binding => h = k

\* A query is queued once, on one connection, or in one call that has not failed.
Asked(i, q) == calls[i].query = q /\ calls[i].step # "failing"

Once ==
  /\ NoDuplicates(queue)
  /\ \A c, d \in InFlight : work[c] = work[d] => c = d
  /\ \A c \in InFlight : work[c] \notin Members(queue)
  /\ \A i \in DOMAIN calls : \A q \in Queries : Asked(i, q) =>
       /\ q \notin Members(queue)
       /\ \A c \in Conns : work[c] # q
       /\ \A j \in DOMAIN calls : calls[j].query = q => i = j
  /\ \A q \in Queries : fate[q] = "new" =>
       /\ q \notin Members(queue)
       /\ \A c \in Conns : work[c] # q
       /\ \A i \in DOMAIN calls : calls[i].query # q

Inv == TypeOK /\ Wired(World) /\ Frames /\ Cursor /\ WaitHasWork /\ Once

-----------------------------------------------------------------------------
\* OnException is being told that the query failed which this connection was given.
Failing(c) == \E i \in DOMAIN calls : calls[i].step = "failing" /\ calls[i].conn = c

\* PackEventHandlers is going to free the connection with its handler, before anything else uses it.
Doomed(c) ==
  /\ pc \notin {"wait", "clear"}
  /\ \E i \in DOMAIN list : /\ handler[list[i]].type = "etDelete" /\ handler[list[i]].binding = c
                            /\ pc = "pack" => i <= at
  /\ \A h \in batch : handler[h].binding # c
  /\ Dispatching => cur.conn # c

\* A connection that works on a query waits for its answer, or is on its way out.
Busy ==
  /\ \A c \in InFlight :
       \/ conn[c].status = "qsWait" /\ conn[c].pq = "ok"
       \/ Failing(c)
       \/ conn[c].status # "qsReady" /\ ((pc \in {"executed", "fault"} /\ cur.conn = c) \/ Doomed(c))
  /\ pc = "notify" => work[cur.conn] = NIL

\* What the application was told of a query fits where the query is.
Told ==
  /\ \A q \in Members(queue) : fate[q] = "pending"
  /\ \A i \in DOMAIN calls : calls[i].query # NIL =>
       fate[calls[i].query] = IF calls[i].step = "failing" THEN "failed" ELSE "pending"
  /\ \A c \in InFlight :
       \/ fate[work[c]] = "pending" /\ conn[c].status # "qsReady"
       \/ fate[work[c]] = "executed" /\ pc = "executed" /\ cur.conn = c
       \/ fate[work[c]] = "failed" /\ Failing(c)

FullInv == Inv /\ Busy /\ Told

-----------------------------------------------------------------------------
(* The methods on the objects.                                              *)

Worlds ==
  [handler : [Handlers -> HandlerRec], list : Seq(Handlers), conn : [Conns -> ConnRec],
   pool : Seq(Conns), epoll : [Fds -> Handlers \cup {NIL, DANGLING}],
   work : [Conns -> Queries \cup {NIL}]]

LEMMA Distinct ==
  /\ NIL # DANGLING /\ NIL # TIMER /\ DANGLING # TIMER
  /\ NIL \notin Conns /\ NIL \notin Handlers /\ NIL \notin Queries /\ NIL \notin Fds
  /\ DANGLING \notin Conns /\ DANGLING \notin Handlers
  /\ TIMER \notin Conns
<1>1. Cardinality({NIL, DANGLING, TIMER}) = 3 BY DistinctAssumption
<1>2. ~(NIL = DANGLING /\ NIL # TIMER) /\ ~(NIL = TIMER) /\ ~(DANGLING = TIMER) /\ ~(NIL = DANGLING)
  <2>1. ASSUME NEW a, NEW b, {NIL, DANGLING, TIMER} = {a, b} PROVE FALSE
    <3>1. Cardinality({a}) = 1 /\ IsFiniteSet({a}) BY FS_Singleton
    <3>2. Cardinality({a} \cup {b}) \in {1, 2}
      BY <3>1, FS_AddElement
    <3>3. {a, b} = {a} \cup {b} OBVIOUS
    <3> QED BY <1>1, <2>1, <3>2, <3>3
  <2>2. ASSUME NIL = DANGLING PROVE {NIL, DANGLING, TIMER} = {NIL, TIMER} BY <2>2
  <2>3. ASSUME NIL = TIMER PROVE {NIL, DANGLING, TIMER} = {NIL, DANGLING} BY <2>3
  <2>4. ASSUME DANGLING = TIMER PROVE {NIL, DANGLING, TIMER} = {NIL, DANGLING} BY <2>4
  <2> QED BY <2>1, <2>2, <2>3, <2>4
<1> QED BY <1>2, DistinctAssumption

LEMMA HandlerSet ==
  ASSUME NEW w \in Worlds, NEW h \in Handlers, NEW r, NEW v, v = SetHandler(w, h, r)
  PROVE  /\ v.handler = [w.handler EXCEPT ![h] = r]
         /\ v.list = w.list /\ v.pool = w.pool /\ v.epoll = w.epoll /\ v.work = w.work
         /\ v.conn = w.conn
         /\ r \in HandlerRec => v \in Worlds
BY DEF Worlds, SetHandler

LEMMA ConnSet ==
  ASSUME NEW w \in Worlds, NEW c \in Conns, NEW r \in ConnRec, NEW v, v = SetConn(w, c, r)
  PROVE  /\ v \in Worlds /\ v.conn = [w.conn EXCEPT ![c] = r]
         /\ v.handler = w.handler /\ v.list = w.list /\ v.pool = w.pool /\ v.epoll = w.epoll
         /\ v.work = w.work
BY DEF Worlds, SetConn

LEMMA WorkSet ==
  ASSUME NEW w \in Worlds, NEW c \in Conns, NEW q \in Queries \cup {NIL}, NEW v, v = SetWork(w, c, q)
  PROVE  /\ v \in Worlds /\ v.work = [w.work EXCEPT ![c] = q]
         /\ v.handler = w.handler /\ v.list = w.list /\ v.pool = w.pool /\ v.epoll = w.epoll
         /\ v.conn = w.conn
BY DEF Worlds, SetWork

LEMMA FdClosed ==
  ASSUME NEW w \in Worlds, NEW s \in Fds \cup {NIL}, NEW v, v = CloseFd(w, s)
  PROVE  /\ v \in Worlds
         /\ v.handler = w.handler /\ v.list = w.list /\ v.pool = w.pool /\ v.work = w.work
         /\ v.conn = w.conn
         /\ \A f \in Fds : v.epoll[f] = IF f = s THEN NIL ELSE w.epoll[f]
<1>1. CASE s = NIL BY <1>1, Distinct DEF CloseFd
<1>2. CASE s # NIL BY <1>2 DEF CloseFd, Worlds
<1> QED BY <1>1, <1>2

\* A handler that is stopped.
LEMMA HandlerStopped ==
  ASSUME NEW w \in Worlds, NEW h \in Handlers, NEW v, v = Stop(w, h)
  PROVE  /\ v \in Worlds
         /\ v.handler = [w.handler EXCEPT ![h] = [@ EXCEPT !.type = "etDelete"]]
         /\ v.list = w.list /\ v.pool = w.pool /\ v.work = w.work /\ v.conn = w.conn
         /\ \A f \in Fds : v.epoll[f] \in {w.epoll[f], NIL}
<1> DEFINE u == SetHandler(w, h, [w.handler[h] EXCEPT !.type = "etDelete"])
<1>1. /\ u \in Worlds
      /\ u.handler = [w.handler EXCEPT ![h] = [@ EXCEPT !.type = "etDelete"]]
      /\ u.list = w.list /\ u.pool = w.pool /\ u.work = w.work /\ u.conn = w.conn
      /\ u.epoll = w.epoll
  <2>1. w.handler[h] \in HandlerRec BY DEF Worlds
  <2>2. [w.handler[h] EXCEPT !.type = "etDelete"] \in HandlerRec BY <2>1 DEF HandlerRec
  <2> QED BY <2>2, HandlerSet
<1>2. w.handler[h].socket \in Fds \cup {NIL} BY DEF Worlds, HandlerRec
<1>3. v = u \/ v = CloseFd(u, w.handler[h].socket)
  BY DEF Stop
<1> HIDE DEF u
<1> QED BY <1>1, <1>2, <1>3, FdClosed

\* What a handler is after it was stopped.
LEMMA StoppedRecord ==
  ASSUME NEW f \in [Handlers -> HandlerRec], NEW h \in Handlers,
         NEW g, g = [f EXCEPT ![h] = [@ EXCEPT !.type = "etDelete"]]
  PROVE  \A k \in Handlers :
           /\ g[k].type = IF k = h THEN "etDelete" ELSE f[k].type
           /\ g[k].binding = f[k].binding /\ g[k].socket = f[k].socket
BY DEF HandlerRec

\* What serving connection c may do: c's own record, new handlers, and old ones stopped.
Keeps(w, v, c) ==
  /\ v.pool = w.pool /\ v.work = w.work
  /\ \A d \in Conns \ {c} : v.conn[d] = w.conn[d]
  /\ \A h \in Handlers : w.handler[h].type # "none" =>
       /\ v.handler[h].type # "none" /\ v.handler[h].binding = w.handler[h].binding
       /\ w.handler[h].type = "etDelete" => v.handler[h].type = "etDelete"
  /\ \A i \in DOMAIN w.list : i \in DOMAIN v.list /\ v.list[i] = w.list[i]

Serves(w, v, c) == v \in Worlds /\ Wired(v) /\ Keeps(w, v, c)

LEMMA ServesTwice ==
  ASSUME NEW w, NEW v, NEW u, NEW c, Serves(w, v, c), Serves(v, u, c)
  PROVE  Serves(w, u, c)
BY DEF Serves, Keeps

\* The record of a connection changes; the kernel knows its socket, if any.
LEMMA RecordSet ==
  ASSUME NEW w \in Worlds, Wired(w), NEW c \in Conns, c \in Members(w.pool), NEW r \in ConnRec,
         r.pq = "none" => r.fd = NIL,
         \A s \in Fds : w.epoll[s] \in Handlers /\ w.handler[w.epoll[s]].binding = c => r.fd = s,
         r.handler \in Handlers => w.handler[r.handler].binding = c,
         NEW v, v = SetConn(w, c, r)
  PROVE  Serves(w, v, c) /\ v.conn[c] = r /\ v.handler = w.handler /\ v.epoll = w.epoll
<1>1. /\ v \in Worlds /\ v.conn = [w.conn EXCEPT ![c] = r]
      /\ v.handler = w.handler /\ v.list = w.list /\ v.pool = w.pool /\ v.epoll = w.epoll
      /\ v.work = w.work
  BY ConnSet
<1>2. w.conn \in [Conns -> ConnRec] BY DEF Worlds
<1>3. v.conn[c] = r /\ \A d \in Conns \ {c} : v.conn[d] = w.conn[d] BY <1>1, <1>2
<1>4. Wired(v) BY <1>1, <1>3, Distinct DEF Wired, Watches
<1>5. Keeps(w, v, c) BY <1>1, <1>3 DEF Keeps
<1> QED BY <1>1, <1>3, <1>4, <1>5 DEF Serves

\* The same, when the socket stays.
LEMMA RecordEdited ==
  ASSUME NEW w \in Worlds, Wired(w), NEW c \in Conns, c \in Members(w.pool), NEW r \in ConnRec,
         r.fd = w.conn[c].fd, r.handler = w.conn[c].handler, r.pq = "none" => w.conn[c].pq = "none",
         NEW v, v = SetConn(w, c, r)
  PROVE  Serves(w, v, c) /\ v.conn[c] = r /\ v.handler = w.handler /\ v.epoll = w.epoll
BY RecordSet, Distinct DEF Wired, Watches

\* libpq closes the socket and goes on with another one, or none.
LEMMA SocketMoved ==
  ASSUME NEW w \in Worlds, Wired(w), NEW c \in Conns, c \in Members(w.pool),
         NEW st \in {"started", "late", "ok", "bad"}, NEW s \in Fds \cup {NIL},
         NEW v, v = Moves(w, c, st, s)
  PROVE  /\ Serves(w, v, c) /\ v.handler = w.handler
         /\ v.conn[c].status = w.conn[c].status /\ v.conn[c].pq = st /\ v.conn[c].fd = s
         /\ v.conn[c].polling = w.conn[c].polling /\ v.conn[c].socket = w.conn[c].socket
<1> DEFINE u == CloseFd(w, w.conn[c].fd)
           r == [w.conn[c] EXCEPT !.pq = st, !.fd = s]
<1>1. w.conn[c] \in ConnRec /\ w.epoll \in [Fds -> Handlers \cup {NIL, DANGLING}] BY DEF Worlds
<1>2. /\ r \in ConnRec /\ r.pq = st /\ r.handler = w.conn[c].handler /\ r.status = w.conn[c].status
      /\ r.fd = s /\ r.polling = w.conn[c].polling /\ r.socket = w.conn[c].socket
  BY <1>1 DEF ConnRec
<1>3. w.conn[c].fd \in Fds \cup {NIL} BY <1>1 DEF ConnRec
<1>4. /\ u \in Worlds /\ u.handler = w.handler /\ u.list = w.list /\ u.pool = w.pool
      /\ u.work = w.work /\ u.conn = w.conn
      /\ \A f \in Fds : u.epoll[f] = IF f = w.conn[c].fd THEN NIL ELSE w.epoll[f]
  BY <1>3, FdClosed
<1>5. v = SetConn(u, c, r) BY DEF Moves
<1> HIDE DEF u, r
<1>6. Wired(u) /\ Keeps(w, u, c)
  <2>1. Wired(u) BY <1>4, Distinct DEF Wired, Watches
  <2> QED BY <1>4, <2>1 DEF Keeps
<1>7. \A f \in Fds : u.epoll[f] \in Handlers => u.handler[u.epoll[f]].binding # c
  BY <1>4, Distinct DEF Wired, Watches
<1>8. Serves(u, v, c) /\ v.conn[c] = r /\ v.handler = u.handler
  BY <1>2, <1>4, <1>5, <1>6, <1>7, RecordSet DEF Wired
<1> QED BY <1>2, <1>4, <1>6, <1>8, ServesTwice DEF Serves

\* A handler of the list is stopped.
LEMMA StoppedServes ==
  ASSUME NEW w \in Worlds, Wired(w), NEW c, NEW h \in Members(w.list), h \in Handlers,
         NEW v \in Worlds,
         v.handler = [w.handler EXCEPT ![h] = [@ EXCEPT !.type = "etDelete"]],
         v.list = w.list, v.pool = w.pool, v.work = w.work, v.conn = w.conn,
         \A f \in Fds : v.epoll[f] \in {w.epoll[f], NIL}
  PROVE  Serves(w, v, c)
<1>1. w.handler \in [Handlers -> HandlerRec] BY DEF Worlds
<1>2. \A k \in Handlers : /\ v.handler[k].type = IF k = h THEN "etDelete" ELSE w.handler[k].type
                          /\ v.handler[k].binding = w.handler[k].binding
                          /\ v.handler[k].socket = w.handler[k].socket
  BY <1>1, StoppedRecord
<1>3. w.handler[h].type # "none" BY DEF Wired
<1>4. Wired(v) BY <1>2, <1>3, Distinct DEF Wired, Watches
<1>5. Keeps(w, v, c) BY <1>2, <1>3 DEF Keeps
<1> QED BY <1>4, <1>5 DEF Serves

LEMMA FirstOrLast ==
  ASSUME NEW w \in Worlds, Wired(w), NEW s, NEW h, h = FindHandlerBySocket(w, s)
  PROVE  h = NIL \/ (h \in Members(w.list) /\ h \in Handlers)
<1> DEFINE I == {i \in 1 .. Len(w.list) : w.handler[w.list[i]].socket = s}
           i == SelectInSeq(w.list, LAMBDA g : w.handler[g].socket = s)
<1>1. w.list \in Seq(Handlers) /\ Len(w.list) \in Nat /\ \A k \in 1 .. Len(w.list) : w.list[k] \in Handlers
  BY DEF Worlds
<1>2. i = IF I # {} THEN Min(I) ELSE 0 BY DEF SelectInSeq
<1>3. I # {} => Min(I) \in I
  <2>1. I \subseteq Nat OBVIOUS
  <2> QED BY <2>1, LeastIndex
<1>4. CASE i # 0
  <2>1. i \in 1 .. Len(w.list) BY <1>2, <1>3, <1>4
  <2>2. h = w.list[i] BY <1>4 DEF FindHandlerBySocket
  <2> HIDE DEF i
  <2> QED BY <1>1, <2>1, <2>2 DEF Members
<1>5. CASE i = 0 /\ w.list # <<>>
  <2>1. Len(w.list) \in 1 .. Len(w.list) BY <1>1, <1>5
  <2>2. h = w.list[Len(w.list)] BY <1>5 DEF FindHandlerBySocket, Last
  <2> QED BY <1>1, <2>1, <2>2 DEF Members
<1>6. CASE i = 0 /\ w.list = <<>> BY <1>6 DEF FindHandlerBySocket
<1> QED BY <1>4, <1>5, <1>6

\* A new handler for the socket of a connection that has none.
LEMMA HandlerMade ==
  ASSUME NEW w \in Worlds, Wired(w), NEW c \in Conns, c \in Members(w.pool),
         w.conn[c].socket \in Fds, w.conn[c].fd = w.conn[c].socket,
         \E g \in Handlers : w.handler[g].type = "none",
         NEW v, v = NewEventHandler(w, c)
  PROVE  /\ Serves(w, v, c)
         /\ \E h \in Handlers : v.conn[c] = [w.conn[c] EXCEPT !.handler = h]
<1> DEFINE h == CHOOSE g \in Handlers : w.handler[g].type = "none"
           s == w.conn[c].socket
           r == [type |-> "etIO", socket |-> s, binding |-> c]
           q == [w.conn[c] EXCEPT !.handler = h]
<1>1. h \in Handlers /\ w.handler[h].type = "none" OBVIOUS
<1> DEFINE x == SetHandler(w, h, r)
           u == SetConn(x, c, q)
<1>2. v = [u EXCEPT !.list = Append(w.list, h),
                    !.epoll = [w.epoll EXCEPT ![s] = IF @ = NIL THEN h ELSE @]]
  BY DEF NewEventHandler
<1> HIDE DEF h
<1>3. r \in HandlerRec BY DEF HandlerRec
<1>4. /\ w.conn \in [Conns -> ConnRec] /\ w.handler \in [Handlers -> HandlerRec]
      /\ w.epoll \in [Fds -> Handlers \cup {NIL, DANGLING}] /\ w.list \in Seq(Handlers)
  BY DEF Worlds
<1>5. q \in ConnRec /\ q.fd = w.conn[c].fd /\ q.pq = w.conn[c].pq
  <2>1. w.conn[c] \in ConnRec BY <1>4
  <2> QED BY <1>1, <2>1 DEF ConnRec
<1>6. /\ v.handler = [w.handler EXCEPT ![h] = r] /\ v.list = Append(w.list, h)
      /\ v.conn = [w.conn EXCEPT ![c] = q]
      /\ v.epoll = [w.epoll EXCEPT ![s] = IF @ = NIL THEN h ELSE @]
      /\ v.pool = w.pool /\ v.work = w.work
      /\ v \in Worlds
  <2> HIDE DEF r, q
  <2>1. x \in Worlds /\ x.handler = [w.handler EXCEPT ![h] = r] /\ x.conn = w.conn
        /\ x.pool = w.pool /\ x.work = w.work
    BY <1>1, <1>3, HandlerSet
  <2> HIDE DEF x
  <2>2. u \in Worlds /\ u.handler = [w.handler EXCEPT ![h] = r] /\ u.conn = [w.conn EXCEPT ![c] = q]
        /\ u.pool = w.pool /\ u.work = w.work
    BY <1>5, <2>1, ConnSet
  <2>3. Append(w.list, h) \in Seq(Handlers) BY <1>1, <1>4
  <2> DEFINE es == [w.epoll EXCEPT ![s] = IF @ = NIL THEN h ELSE @]
  <2>4. es \in [Fds -> Handlers \cup {NIL, DANGLING}] BY <1>1, <1>4
  <2> HIDE DEF u, es, s
  <2> QED BY <1>2, <2>2, <2>3, <2>4 DEF Worlds, es
<1> HIDE DEF x, u
<1> HIDE DEF r, q
<1>8. /\ v.handler[h] = r /\ \A g \in Handlers \ {h} : v.handler[g] = w.handler[g]
      /\ v.conn[c] = q /\ \A d \in Conns \ {c} : v.conn[d] = w.conn[d]
      /\ v.epoll[s] \in {h, w.epoll[s]} /\ \A f \in Fds \ {s} : v.epoll[f] = w.epoll[f]
  BY <1>1, <1>4, <1>6
<1>9. h \notin Members(w.list) BY <1>1 DEF Wired
<1>10. Members(v.list) = Members(w.list) \cup {h} /\ NoDuplicates(v.list)
  BY <1>1, <1>4, <1>6, <1>9, Appended DEF Wired
<1>11. Wired(v)
  <2>1. r.type = "etIO" /\ r.binding = c BY DEF r
  <2>2. \A g \in Handlers : g \in Members(v.list) <=> v.handler[g].type # "none"
    BY <1>8, <1>10, <2>1 DEF Wired
  <2>3. \A g \in Handlers : /\ v.handler[g].type = "none" => v.handler[g].binding = NIL
                            /\ v.handler[g].binding \in Conns => v.handler[g].binding \in Members(v.pool)
    BY <1>6, <1>8, <2>1 DEF Wired
  <2>4. ASSUME NEW f \in Fds, v.epoll[f] \in Handlers
        PROVE  Watches(v, v.epoll[f], f)
    <3>1. \A d \in Conns : v.conn[d].fd = w.conn[d].fd BY <1>5, <1>8
    <3>2. CASE v.epoll[f] = h
      <4>1. f = s
        BY <1>1, <1>8, <2>4, <3>2, Distinct DEF Wired, Watches
      <4> QED BY <1>8, <2>1, <3>1, <3>2, <4>1 DEF Watches
    <3>3. CASE v.epoll[f] # h
      <4>1. v.epoll[f] = w.epoll[f] BY <1>8, <3>3
      <4> QED BY SMTT(30), <1>8, <2>4, <3>1, <3>3, <4>1 DEF Wired, Watches
    <3> QED BY <3>2, <3>3
  <2>5. \A d \in Conns : /\ d \notin Members(v.pool) => v.conn[d] = Blank /\ v.work[d] = NIL
                         /\ v.conn[d].pq = "none" => v.conn[d].fd = NIL
    BY <1>5, <1>6, <1>8 DEF Wired
  <2>6. \A d \in Conns : v.conn[d].handler \in Handlers => v.handler[v.conn[d].handler].binding = d
    <3>1. q.handler = h
      <4>1. w.conn[c] \in ConnRec BY <1>4
      <4> QED BY <4>1 DEF ConnRec, q
    <3>2. \A g \in Handlers : w.handler[g].binding \in Conns => g # h BY <1>1, Distinct DEF Wired
    <3> QED BY <1>8, <2>1, <3>1, <3>2 DEF Wired
  <2>7. \A f \in Fds : v.epoll[f] # DANGLING BY <1>1, <1>8, Distinct DEF Wired
  <2> QED BY <1>6, <1>10, <2>2, <2>3, <2>4, <2>5, <2>6, <2>7 DEF Wired
<1>12. Keeps(w, v, c)
  <2>1. \A g \in Handlers : w.handler[g].type # "none" => v.handler[g] = w.handler[g]
    BY <1>1, <1>8
  <2>2. \A i \in DOMAIN w.list : i \in DOMAIN v.list /\ v.list[i] = w.list[i]
    BY <1>1, <1>4, <1>6, AppendProperties
  <2> QED BY <1>6, <1>8, <2>1, <2>2 DEF Keeps
<1> QED BY <1>1, <1>6, <1>8, <1>11, <1>12 DEF Serves, q

\* OnChangeSocket: the handler is stopped, but stays registered.
LEMMA NulledAndStopped ==
  ASSUME NEW w \in Worlds, NEW h \in Handlers, NEW v,
         v = Stop(SetHandler(w, h, [w.handler[h] EXCEPT !.type = "etNull"]), h)
  PROVE  /\ v \in Worlds
         /\ v.handler = [w.handler EXCEPT ![h] = [@ EXCEPT !.type = "etDelete"]]
         /\ v.list = w.list /\ v.pool = w.pool /\ v.work = w.work /\ v.conn = w.conn
         /\ v.epoll = w.epoll
<1>1. w.handler \in [Handlers -> HandlerRec] /\ w.handler[h] \in HandlerRec BY DEF Worlds
<1>2. PICK n : n = [w.handler[h] EXCEPT !.type = "etNull"] OBVIOUS
<1>3. PICK u : u = SetHandler(w, h, n) OBVIOUS
<1>4. PICK r : r = [n EXCEPT !.type = "etDelete"] OBVIOUS
<1>5. n.type = "etNull" /\ r = [w.handler[h] EXCEPT !.type = "etDelete"] /\ r \in HandlerRec
  BY <1>1, <1>2, <1>4 DEF HandlerRec
<1>6. u.handler = [w.handler EXCEPT ![h] = n] /\ u.handler[h] = n
  <2>1. u.handler = [w.handler EXCEPT ![h] = n] BY <1>3 DEF SetHandler, Worlds
  <2> QED BY <1>1, <2>1
<1>7. v = SetHandler(u, h, r) BY <1>2, <1>3, <1>4, <1>5, <1>6 DEF Stop
<1>8. SetHandler(u, h, r) = SetHandler(w, h, r)
  <2>1. [u.handler EXCEPT ![h] = r] = [w.handler EXCEPT ![h] = r] BY <1>1, <1>6
  <2> QED BY <1>3, <2>1 DEF SetHandler, Worlds
<1> QED BY <1>5, <1>7, <1>8, HandlerSet

\* CheckSocket changes what the connection remembers of its socket and its handler.
LEMMA SocketChecked ==
  ASSUME NEW w \in Worlds, Wired(w), NEW c \in Conns, c \in Members(w.pool),
         \/ w.conn[c].socket # NIL \/ w.conn[c].fd = NIL
         \/ \E g \in Handlers : w.handler[g].type = "none",
         NEW v, v = CheckSocket(w, c)
  PROVE  /\ Serves(w, v, c)
         /\ v.conn[c].status = w.conn[c].status /\ v.conn[c].pq = w.conn[c].pq
         /\ v.conn[c].fd = w.conn[c].fd /\ v.conn[c].polling = w.conn[c].polling
<1> DEFINE r == [w.conn[c] EXCEPT !.socket = w.conn[c].fd]
           u == SetConn(w, c, r)
           h == FindHandlerBySocket(u, w.conn[c].socket)
<1>1. w.conn[c] \in ConnRec BY DEF Worlds
<1>2. /\ r \in ConnRec /\ r.handler = w.conn[c].handler /\ r.fd = w.conn[c].fd /\ r.pq = w.conn[c].pq /\ r.socket = w.conn[c].fd
      /\ r.status = w.conn[c].status /\ r.polling = w.conn[c].polling
      /\ w.conn[c].fd \in Fds \cup {NIL}
  BY <1>1 DEF ConnRec
<1> HIDE DEF r
<1>3. Serves(w, u, c) /\ u.conn[c] = r /\ u.handler = w.handler
  BY <1>2, RecordEdited
<1>4. u \in Worlds /\ Wired(u) /\ c \in Members(u.pool) BY <1>3 DEF Serves, Keeps
<1> HIDE DEF u
<1>5. CASE w.conn[c].fd = w.conn[c].socket
  <2>1. v = w BY <1>5 DEF CheckSocket
  <2> QED BY <2>1 DEF Serves, Keeps
<1>6. CASE w.conn[c].fd # w.conn[c].socket /\ w.conn[c].socket = NIL
  <2>1. v = NewEventHandler(u, c) BY <1>6 DEF CheckSocket, u, r
  <2>2. u.conn[c].socket \in Fds /\ u.conn[c].fd = u.conn[c].socket BY <1>2, <1>3, <1>6
  <2>3. \E g \in Handlers : u.handler[g].type = "none" BY <1>2, <1>3, <1>6
  <2> HIDE DEF h
  <2>4. Serves(u, v, c) /\ \E g \in Handlers : v.conn[c] = [u.conn[c] EXCEPT !.handler = g]
    BY <1>4, <2>1, <2>2, <2>3, HandlerMade, SMTT(60)
  <2>5. /\ v.conn[c].status = r.status /\ v.conn[c].pq = r.pq
        /\ v.conn[c].fd = r.fd /\ v.conn[c].polling = r.polling
    BY <1>2, <1>3, <2>4 DEF ConnRec
  <2> QED BY <1>2, <1>3, <2>4, <2>5, ServesTwice
<1>7. CASE w.conn[c].fd # w.conn[c].socket /\ w.conn[c].socket # NIL
  <2>1. v = IF h = NIL THEN u
            ELSE Stop(SetHandler(u, h, [u.handler[h] EXCEPT !.type = "etNull"]), h)
    BY <1>7 DEF CheckSocket, u, r
  <2>2. h = NIL \/ (h \in Members(u.list) /\ h \in Handlers) BY <1>4, FirstOrLast
  <2> HIDE DEF h
  <2>3. CASE h = NIL BY <1>2, <1>3, <2>1, <2>3
  <2>4. CASE h # NIL
    <3>8. /\ v \in Worlds
          /\ v.handler = [u.handler EXCEPT ![h] = [@ EXCEPT !.type = "etDelete"]]
          /\ v.list = u.list /\ v.pool = u.pool /\ v.work = u.work /\ v.conn = u.conn
          /\ v.epoll = u.epoll
      BY <1>4, <2>1, <2>2, <2>4, NulledAndStopped
    <3>9. Serves(u, v, c) BY <1>4, <2>2, <2>4, <3>8, StoppedServes
    <3> QED BY <1>2, <1>3, <3>8, <3>9, ServesTwice
  <2> QED BY <2>3, <2>4
<1> QED BY <1>5, <1>6, <1>7

\* libpq's answers to a poll.  What a broken connection or a finished one says of itself stays.
LEMMA PollingSet ==
  ASSUME NEW w \in Worlds, Wired(w), NEW c \in Conns, c \in Members(w.pool),
         NEW p \in {"writing", "reading", "ok", "failed"}, NEW v, v = Polling(w, c, p)
  PROVE  /\ Serves(w, v, c) /\ v.handler = w.handler
         /\ v.conn[c].status = w.conn[c].status /\ v.conn[c].pq = w.conn[c].pq
         /\ v.conn[c].fd = w.conn[c].fd /\ v.conn[c].polling = p
<1> DEFINE r == [w.conn[c] EXCEPT !.polling = p, !.fresh = @ \/ p = "writing"]
<1>1. w.conn[c] \in ConnRec BY DEF Worlds
<1>2. /\ r.status = w.conn[c].status /\ r.pq = w.conn[c].pq
      /\ r.fd = w.conn[c].fd /\ r.polling = p /\ r.handler = w.conn[c].handler
  BY <1>1 DEF ConnRec
<1>3. r \in ConnRec
  <2>1. (w.conn[c].fresh \/ p = "writing") \in BOOLEAN OBVIOUS
  <2>2. PICK b \in BOOLEAN : r = [w.conn[c] EXCEPT !.polling = p, !.fresh = b] BY <2>1
  <2> QED BY <1>1, <2>2 DEF ConnRec
<1>4. v = SetConn(w, c, r) BY DEF Polling
<1> HIDE DEF r
<1> QED BY <1>2, <1>3, <1>4, RecordEdited

LEMMA PolledServes ==
  ASSUME NEW w \in Worlds, Wired(w), NEW c \in Conns, c \in Members(w.pool),
         SocketsFor(c) \subseteq Fds, NEW o \in Polled(w, c)
  PROVE  /\ Serves(w, o.world, c) /\ o.world.handler = w.handler /\ o.cost \in {0, 1}
         /\ o.world.conn[c].status = w.conn[c].status
         /\ w.conn[c].pq = "bad" => o.world.conn[c].pq = "bad"
<1> DEFINE Fine(u) == /\ Serves(w, u, c) /\ u.handler = w.handler
                      /\ u.conn[c].status = w.conn[c].status
<1>1. ASSUME NEW u, Fine(u), NEW p \in {"writing", "reading", "ok", "failed"}
      PROVE  Fine(Polling(u, c, p)) /\ Polling(u, c, p).conn[c].pq = u.conn[c].pq
  <2>1. u \in Worlds /\ Wired(u) /\ c \in Members(u.pool) BY <1>1 DEF Serves, Keeps
  <2>2. PICK v : v = Polling(u, c, p) OBVIOUS
  <2>3. /\ Serves(u, v, c) /\ v.handler = u.handler
        /\ v.conn[c].status = u.conn[c].status /\ v.conn[c].pq = u.conn[c].pq
    BY <2>1, <2>2, PollingSet
  <2> QED BY <1>1, <2>2, <2>3, ServesTwice
<1>2. ASSUME NEW st \in {"late", "ok", "bad"} PROVE Fine(Goes(w, c, st))
  <2> DEFINE r == [w.conn[c] EXCEPT !.pq = st]
  <2>1. w.conn[c] \in ConnRec BY DEF Worlds
  <2>2. /\ r \in ConnRec /\ r.fd = w.conn[c].fd /\ r.handler = w.conn[c].handler /\ r.pq = st
        /\ r.status = w.conn[c].status
    BY <2>1 DEF ConnRec
  <2>3. PICK v : v = SetConn(w, c, r) OBVIOUS
  <2>4. Goes(w, c, st) = v BY <2>3 DEF Goes
  <2> HIDE DEF r
  <2> QED BY <2>2, <2>3, <2>4, RecordEdited
<1>3. ASSUME NEW st \in {"started", "bad"}, NEW s \in Fds \cup {NIL} PROVE Fine(Moves(w, c, st, s))
  <2>1. PICK v : v = Moves(w, c, st, s) OBVIOUS
  <2> QED BY <2>1, SocketMoved
<1>4. Fine(w) BY DEF Serves, Keeps
<1> HIDE DEF Fine
<1>5. \A u, n : Outcome(u, n).world = u /\ Outcome(u, n).cost = n BY DEF Outcome
<1>6. w.conn[c].pq \in {"none", "started", "late", "ok", "bad"}
  <2>1. w.conn[c] \in ConnRec BY DEF Worlds
  <2> QED BY <2>1 DEF ConnRec
<1>7. CASE w.conn[c].pq \in {"none", "bad"}
  <2>1. o = Outcome(Polling(w, c, "failed"), 0) BY <1>7 DEF Polled
  <2>2. o.world = Polling(w, c, "failed") /\ o.cost = 0 BY <1>5, <2>1
  <2>3. Fine(o.world) /\ o.world.conn[c].pq = w.conn[c].pq BY <1>1, <1>4, <2>2
  <2> QED BY <2>2, <2>3 DEF Fine
<1>8. CASE w.conn[c].pq = "ok"
  <2>1. o = Outcome(Polling(w, c, "ok"), 0) BY <1>8 DEF Polled
  <2>2. o.world = Polling(w, c, "ok") /\ o.cost = 0 BY <1>5, <2>1
  <2>3. Fine(o.world) BY <1>1, <1>4, <2>2
  <2> QED BY <1>8, <2>2, <2>3 DEF Fine
<1>9. CASE w.conn[c].pq \in {"started", "late"}
  <2>1. \E u, p, n : /\ o = Outcome(Polling(u, c, p), n) /\ n \in {0, 1}
                     /\ p \in {"writing", "reading", "ok", "failed"} /\ Fine(u)
    <3>1. \/ o = Outcome(Polling(Goes(w, c, "late"), c, "reading"), 0)
          \/ o = Outcome(Polling(Goes(w, c, "ok"), c, "ok"), 0)
          \/ o = Outcome(Polling(Goes(w, c, "bad"), c, "failed"), 1)
          \/ o = Outcome(Polling(Moves(w, c, "bad", NIL), c, "failed"), 1)
          \/ \E s \in SocketsFor(c) : o = Outcome(Polling(Moves(w, c, "started", s), c, "writing"), 1)
          \/ o = Outcome(Polling(w, c, "writing"), 0)
      BY <1>9 DEF Polled
    <3>2. \A s \in SocketsFor(c) : Fine(Moves(w, c, "started", s)) BY <1>3
    <3>3. Fine(Moves(w, c, "bad", NIL)) BY <1>3
    <3>4. Fine(Goes(w, c, "late")) /\ Fine(Goes(w, c, "ok")) /\ Fine(Goes(w, c, "bad")) BY <1>2
    <3> QED BY <1>4, <3>1, <3>2, <3>3, <3>4
  <2>2. PICK u, p, n : /\ o = Outcome(Polling(u, c, p), n) /\ n \in {0, 1}
                       /\ p \in {"writing", "reading", "ok", "failed"} /\ Fine(u)
    BY <2>1
  <2>3. o.world = Polling(u, c, p) /\ o.cost = n BY <1>5, <2>2
  <2>4. Fine(o.world) BY <1>1, <2>2, <2>3
  <2> QED BY <1>9, <2>2, <2>3, <2>4 DEF Fine
<1> QED BY <1>6, <1>7, <1>8, <1>9

\* What the kernel no longer watches breaks nothing.
LEMMA Unwatched ==
  ASSUME NEW u, NEW x, NEW f, Wired(u),
         x.handler = u.handler, x.list = u.list, x.pool = u.pool, x.work = u.work, x.conn = u.conn,
         \A s \in Fds : x.epoll[s] = IF s = f THEN NIL ELSE u.epoll[s]
  PROVE  Wired(x)
<1>1. \A s \in Fds : x.epoll[s] # DANGLING /\ (x.epoll[s] \in Handlers => Watches(x, x.epoll[s], s))
  <2> TAKE s \in Fds
  <2>1. CASE s = f
    <3>1. x.epoll[s] = NIL BY <2>1
    <3> QED BY <3>1, Distinct
  <2>2. CASE s # f
    <3>1. PICK h : h = u.epoll[s] OBVIOUS
    <3>2. h # DANGLING /\ (h \in Handlers => Watches(u, h, s)) BY <3>1 DEF Wired
    <3>3. x.epoll[s] = h BY <2>2, <3>1
    <3>4. Watches(u, h, s) => Watches(x, h, s) BY DEF Watches
    <3> QED BY <3>2, <3>3, <3>4
  <2> QED BY <2>1, <2>2
<1> QED BY <1>1 DEF Wired

\* A connection is disconnected: its handler is stopped and its socket closed.
LEMMA Disconnects ==
  ASSUME NEW w \in Worlds, Wired(w), NEW c \in Conns, c \in Members(w.pool),
         NEW v, v = Disconnect(w, c)
  PROVE  /\ Serves(w, v, c) /\ v.conn[c].fd = NIL /\ v.conn[c].pq = "none"
         /\ v.conn[c].status = w.conn[c].status /\ v.list = w.list
         /\ v.conn[c].handler = w.conn[c].handler
         /\ \A h \in Handlers : v.handler[h].socket = w.handler[h].socket
<1> DEFINE r == w.conn[c]
           q == [Blank EXCEPT !.status = r.status, !.handler = r.handler]
<1>1. r \in ConnRec BY DEF Worlds
<1>2. /\ q \in ConnRec /\ q.fd = NIL /\ q.pq = "none" /\ q.status = r.status /\ q.handler = r.handler
      /\ r.fd \in Fds \cup {NIL} /\ r.handler \in Handlers \cup {NIL}
  BY <1>1 DEF ConnRec, Blank, Statuses
<1>3. CASE r.pq = "none"
  <2>1. v = w BY <1>3 DEF Disconnect
  <2> QED BY <1>3, <2>1 DEF Wired, Serves, Keeps
<1>4. CASE r.pq # "none"
  <2>1. PICK u : u = IF r.fd # NIL /\ r.handler # NIL THEN Stop(w, r.handler) ELSE w OBVIOUS
  <2>2. PICK x : x = CloseFd(u, r.fd) OBVIOUS
  <2>3. v = SetConn(x, c, q) BY <1>4, <2>1, <2>2 DEF Disconnect
  <2>4. /\ Serves(w, u, c) /\ u.conn = w.conn /\ u.list = w.list
        /\ \A h \in Handlers : u.handler[h].socket = w.handler[h].socket
    <3>1. CASE r.fd # NIL /\ r.handler # NIL
      <4>1. PICK g \in Handlers : g = r.handler BY <1>2, <3>1
      <4>2. g \in Members(w.list) BY <4>1, Distinct DEF Wired
      <4>3. u = Stop(w, g) BY <2>1, <3>1, <4>1
      <4> HIDE DEF r, q
      <4>4. /\ u \in Worlds
            /\ u.handler = [w.handler EXCEPT ![g] = [@ EXCEPT !.type = "etDelete"]]
            /\ u.list = w.list /\ u.pool = w.pool /\ u.work = w.work /\ u.conn = w.conn
            /\ \A f \in Fds : u.epoll[f] \in {w.epoll[f], NIL}
        BY <4>3, HandlerStopped
      <4>5. w.handler \in [Handlers -> HandlerRec] BY DEF Worlds
      <4>6. \A h \in Handlers : u.handler[h].socket = w.handler[h].socket
        BY <4>4, <4>5, StoppedRecord
      <4> QED BY <4>2, <4>4, <4>6, StoppedServes
    <3>2. CASE ~(r.fd # NIL /\ r.handler # NIL)
      <4>1. u = w BY <2>1, <3>2
      <4> QED BY <4>1 DEF Serves, Keeps
    <3> QED BY <3>1, <3>2
  <2>5. u \in Worlds /\ Wired(u) /\ c \in Members(u.pool) BY <2>4 DEF Serves, Keeps
  <2>6. /\ x \in Worlds /\ x.handler = u.handler /\ x.list = u.list /\ x.pool = u.pool
        /\ x.work = u.work /\ x.conn = u.conn
        /\ \A f \in Fds : x.epoll[f] = IF f = r.fd THEN NIL ELSE u.epoll[f]
    BY <1>2, <2>2, <2>5, FdClosed
  <2> HIDE DEF r, q
  <2>7. Wired(x) BY <2>5, <2>6, Unwatched
  <2>8. Serves(u, x, c) BY <2>6, <2>7 DEF Serves, Keeps
  <2>9. \A s \in Fds : x.epoll[s] \in Handlers => x.handler[x.epoll[s]].binding # c
    BY <2>4, <2>5, <2>6, Distinct DEF Wired, Watches, r
  <2>10. q.handler \in Handlers => x.handler[q.handler].binding = c
    BY <1>2, <2>4, <2>5, <2>6 DEF Wired, r
  <2>11. Serves(x, v, c) /\ v.conn[c] = q
    BY <1>2, <2>3, <2>5, <2>6, <2>7, <2>9, <2>10, RecordSet
  <2>12. v.list = x.list /\ v.handler = x.handler
    <3>1. v = [x EXCEPT !.conn = [x.conn EXCEPT ![c] = q]] BY <2>3 DEF SetConn
    <3> QED BY <2>6, <3>1 DEF Worlds
  <2> QED BY <1>2, <2>4, <2>6, <2>8, <2>11, <2>12, ServesTwice DEF r
<1> QED BY <1>3, <1>4

\* What is left of the handlers when their connection is freed.
LEMMA HandlersUnbound ==
  ASSUME NEW f \in [Handlers -> HandlerRec], NEW c, NEW told, NEW g, g = Unbound(f, c, told)
  PROVE  /\ g \in [Handlers -> HandlerRec]
         /\ \A h \in Handlers :
              /\ g[h].type = f[h].type /\ g[h].socket = f[h].socket
              /\ f[h].binding # c => g[h].binding = f[h].binding
              /\ f[h].binding = c => g[h].binding \in {NIL, DANGLING}
<1>1. ASSUME NEW h \in Handlers
      PROVE  /\ g[h] \in HandlerRec
             /\ g[h].type = f[h].type /\ g[h].socket = f[h].socket
             /\ f[h].binding # c => g[h].binding = f[h].binding
             /\ f[h].binding = c => g[h].binding \in {NIL, DANGLING}
  <2>1. f[h] \in HandlerRec OBVIOUS
  <2>2. PICK b \in {NIL, DANGLING} : b = IF h \in told THEN NIL ELSE DANGLING OBVIOUS
  <2>3. g[h] = IF f[h].binding # c THEN f[h] ELSE [f[h] EXCEPT !.binding = b]
    BY <2>2 DEF Unbound
  <2> QED BY <2>1, <2>2, <2>3 DEF HandlerRec
<1>2. g = [h \in Handlers |-> g[h]] BY DEF Unbound
<1> QED BY <1>1, <1>2

LEMMA BlankRecord ==
  /\ Blank \in ConnRec /\ Blank.handler = NIL /\ Blank.fd = NIL /\ Blank.pq = "none"
  /\ Blank.status = "qsConnect" /\ Blank.polling = "writing"
BY DEF Blank, ConnRec, Statuses

\* A connection is freed.
LEMMA Deleted ==
  ASSUME NEW w \in Worlds, Wired(w), NEW c \in Conns, c \in Members(w.pool), NEW v, v = Delete(w, c)
  PROVE  /\ v \in Worlds /\ Wired(v)
         /\ v.pool = RemoveFirst(w.pool, c) /\ Members(v.pool) = Members(w.pool) \ {c}
         /\ v.list = w.list
         /\ v.conn[c] = Blank /\ v.work[c] = NIL
         /\ \A d \in Conns \ {c} : v.conn[d] = w.conn[d] /\ v.work[d] = w.work[d]
         /\ \A h \in Handlers :
              /\ w.handler[h].binding # c => v.handler[h].binding = w.handler[h].binding
              /\ w.handler[h].binding = c => v.handler[h].binding \in {NIL, DANGLING}
              /\ w.handler[h].type = "etDelete" => v.handler[h].type = "etDelete"
              /\ v.handler[h].socket = w.handler[h].socket
<1>1. PICK u : u = Disconnect(w, c) OBVIOUS
<1>2. /\ Serves(w, u, c) /\ u.conn[c].fd = NIL /\ u.list = w.list
      /\ \A h \in Handlers : u.handler[h].socket = w.handler[h].socket
  BY <1>1, Disconnects
<1>3. u \in Worlds /\ Wired(u) /\ c \in Members(u.pool) /\ u.pool = w.pool BY <1>2 DEF Serves, Keeps
<1>4. PICK x : x = SetConn(u, c, Blank) OBVIOUS
<1>5. PICK y : y = SetWork(x, c, NIL) OBVIOUS
<1>6. PICK f, told, g : f = y.handler /\ told = {u.conn[c].handler} /\ g = Unbound(f, c, told) OBVIOUS
<1>7. v = [y EXCEPT !.pool = RemoveFirst(y.pool, c), !.handler = g]
  BY <1>1, <1>4, <1>5, <1>6 DEF Delete
<1>8. /\ x \in Worlds /\ x.conn = [u.conn EXCEPT ![c] = Blank] /\ x.list = u.list
      /\ x.epoll = u.epoll /\ x.work = u.work /\ x.handler = u.handler /\ x.pool = u.pool
  BY <1>3, <1>4, BlankRecord, ConnSet
<1>9. /\ y \in Worlds /\ y.work = [u.work EXCEPT ![c] = NIL] /\ y.list = u.list
      /\ y.epoll = u.epoll /\ y.conn = [u.conn EXCEPT ![c] = Blank]
      /\ y.handler = u.handler /\ y.pool = u.pool
  BY <1>5, <1>8, WorkSet
<1>10. /\ g \in [Handlers -> HandlerRec]
       /\ \A h \in Handlers :
            /\ g[h].type = u.handler[h].type /\ g[h].socket = u.handler[h].socket
            /\ u.handler[h].binding # c => g[h].binding = u.handler[h].binding
            /\ u.handler[h].binding = c => g[h].binding \in {NIL, DANGLING}
  <2>1. f = u.handler /\ f \in [Handlers -> HandlerRec] BY <1>6, <1>9 DEF Worlds
  <2> QED BY <1>6, <2>1, HandlersUnbound
<1>11. u.pool \in Seq(Conns) /\ u.conn \in [Conns -> ConnRec] /\ u.work \in [Conns -> Queries \cup {NIL}]
  BY <1>3 DEF Worlds
<1>12. PICK p : p = RemoveFirst(u.pool, c) OBVIOUS
<1>13. p \in Seq(Conns) /\ NoDuplicates(p) /\ Members(p) = Members(u.pool) \ {c}
  BY <1>3, <1>11, <1>12, RemovedFirst DEF Wired
<1>14. /\ v \in Worlds /\ v.pool = p /\ v.handler = g /\ v.list = u.list /\ v.epoll = u.epoll
       /\ v.conn = [u.conn EXCEPT ![c] = Blank] /\ v.work = [u.work EXCEPT ![c] = NIL]
  BY ZenonT(40), <1>7, <1>9, <1>10, <1>12, <1>13 DEF Worlds
<1>15. /\ v.conn[c] = Blank /\ v.work[c] = NIL
       /\ \A d \in Conns \ {c} : v.conn[d] = u.conn[d] /\ v.work[d] = u.work[d]
  BY <1>11, <1>14
<1>16. \A h \in Handlers : v.handler[h].type = "none" <=> w.handler[h].type = "none"
  BY <1>2, <1>3, <1>10, <1>14 DEF Wired
<1>17. Wired(v)
  <2>1. \A h \in Handlers : h \in Members(v.list) <=> v.handler[h].type # "none"
    BY <1>3, <1>10, <1>14 DEF Wired
  <2>2. \A h \in Handlers : /\ v.handler[h].type = "none" => v.handler[h].binding = NIL
                            /\ v.handler[h].binding \in Conns => v.handler[h].binding \in Members(v.pool)
    BY <1>3, <1>10, <1>13, <1>14, Distinct DEF Wired
  <2>3. ASSUME NEW s \in Fds
        PROVE  v.epoll[s] # DANGLING /\ (v.epoll[s] \in Handlers => Watches(v, v.epoll[s], s))
    <3>1. v.epoll[s] = u.epoll[s] BY <1>14
    <3>2. u.epoll[s] # DANGLING /\ (u.epoll[s] \in Handlers => Watches(u, u.epoll[s], s))
      BY <1>3 DEF Wired
    <3>3. ASSUME NEW h \in Handlers, Watches(u, h, s) PROVE Watches(v, h, s)
      <4>1. u.handler[h].binding # c BY <1>2, <3>3, Distinct DEF Watches
      <4>2. v.handler[h].binding = u.handler[h].binding /\ v.handler[h].socket = u.handler[h].socket
        BY <1>10, <1>14, <4>1
      <4> QED BY <1>15, <3>3, <4>1, <4>2 DEF Watches
    <3> QED BY <3>1, <3>2, <3>3
  <2>4. \A d \in Conns : v.conn[d].handler \in Handlers => v.handler[v.conn[d].handler].binding = d
    BY <1>3, <1>10, <1>14, <1>15, BlankRecord, Distinct DEF Wired
  <2>5. \A d \in Conns : /\ d \notin Members(v.pool) => v.conn[d] = Blank /\ v.work[d] = NIL
                         /\ v.conn[d].pq = "none" => v.conn[d].fd = NIL
    BY <1>3, <1>13, <1>14, <1>15, BlankRecord DEF Wired
  <2>6. NoDuplicates(v.list) /\ NoDuplicates(v.pool) BY <1>3, <1>13, <1>14 DEF Wired
  <2> QED BY <2>1, <2>2, <2>3, <2>4, <2>5, <2>6 DEF Wired
<1>18. \A h \in Handlers :
         /\ w.handler[h].binding # c => v.handler[h].binding = w.handler[h].binding
         /\ w.handler[h].binding = c => v.handler[h].binding \in {NIL, DANGLING}
         /\ w.handler[h].type = "etDelete" => v.handler[h].type = "etDelete"
         /\ v.handler[h].socket = w.handler[h].socket
  <2> TAKE h \in Handlers
  <2>1. CASE w.handler[h].type # "none"
    BY <1>2, <1>10, <1>14, <2>1 DEF Serves, Keeps
  <2>2. CASE w.handler[h].type = "none"
    BY <1>2, <1>10, <1>14, <1>16, <1>17, <2>2, Distinct DEF Wired
  <2> QED BY <2>1, <2>2
<1>19. \A d \in Conns \ {c} : v.conn[d] = w.conn[d] /\ v.work[d] = w.work[d]
  BY <1>2, <1>15 DEF Serves, Keeps
<1> QED BY <1>2, <1>3, <1>12, <1>13, <1>14, <1>15, <1>17, <1>18, <1>19

\* A handler without a connection, which the kernel does not know, is freed.
LEMMA Forgotten ==
  ASSUME NEW w \in Worlds, Wired(w), NEW h \in Handlers,
         w.handler[h].binding \notin Conns, \A s \in Fds : w.epoll[s] # h,
         NEW v, v = Forget(w, h)
  PROVE  /\ v \in Worlds /\ Wired(v)
         /\ v.list = RemoveFirst(w.list, h) /\ Members(v.list) = Members(w.list) \ {h}
         /\ v.conn = w.conn /\ v.work = w.work /\ v.pool = w.pool
         /\ v.handler[h] = NoHandler /\ \A k \in Handlers \ {h} : v.handler[k] = w.handler[k]
<1>1. PICK u : u = SetHandler(w, h, NoHandler) OBVIOUS
<1>2. NoHandler \in HandlerRec /\ NoHandler.type = "none" /\ NoHandler.binding = NIL
  BY DEF NoHandler, HandlerRec
<1>3. /\ u \in Worlds /\ u.handler = [w.handler EXCEPT ![h] = NoHandler]
      /\ u.conn = w.conn /\ u.work = w.work /\ u.pool = w.pool
      /\ u.list = w.list /\ u.epoll = w.epoll
  BY <1>1, <1>2, HandlerSet
<1>4. /\ w.handler \in [Handlers -> HandlerRec] /\ w.list \in Seq(Handlers)
      /\ w.epoll \in [Fds -> Handlers \cup {NIL, DANGLING}]
  BY DEF Worlds
<1>5. PICK l : l = RemoveFirst(u.list, h) OBVIOUS
<1>6. l \in Seq(Handlers) /\ NoDuplicates(l) /\ Members(l) = Members(w.list) \ {h}
  BY <1>3, <1>4, <1>5, RemovedFirst DEF Wired
<1>7. PICK e : e = [s \in Fds |-> IF u.epoll[s] = h THEN DANGLING ELSE u.epoll[s]] OBVIOUS
<1>8. e \in [Fds -> Handlers \cup {NIL, DANGLING}] /\ \A s \in Fds : e[s] = w.epoll[s]
  BY <1>3, <1>4, <1>7
<1>9. v = [u EXCEPT !.list = l, !.epoll = e] BY <1>1, <1>5, <1>7 DEF Forget
<1>10. /\ v \in Worlds /\ v.list = l /\ v.epoll = e /\ v.handler = [w.handler EXCEPT ![h] = NoHandler]
       /\ v.conn = w.conn /\ v.work = w.work /\ v.pool = w.pool
  BY <1>3, <1>6, <1>8, <1>9 DEF Worlds
<1>11. v.handler[h] = NoHandler /\ \A k \in Handlers \ {h} : v.handler[k] = w.handler[k]
  BY <1>4, <1>10
<1>12. Wired(v)
  <2>1. \A k \in Handlers : k \in Members(v.list) <=> v.handler[k].type # "none"
    BY <1>2, <1>6, <1>10, <1>11 DEF Wired
  <2>2. \A k \in Handlers : /\ v.handler[k].type = "none" => v.handler[k].binding = NIL
                            /\ v.handler[k].binding \in Conns => v.handler[k].binding \in Members(v.pool)
    BY <1>2, <1>10, <1>11, Distinct DEF Wired
  <2>3. \A s \in Fds : v.epoll[s] # DANGLING /\ (v.epoll[s] \in Handlers => Watches(v, v.epoll[s], s))
    BY <1>8, <1>10, <1>11 DEF Wired, Watches
  <2>4. \A d \in Conns : v.conn[d].handler \in Handlers => v.handler[v.conn[d].handler].binding = d
    BY <1>10, <1>11 DEF Wired
  <2> QED BY <1>6, <1>10, <2>1, <2>2, <2>3, <2>4 DEF Wired
<1> QED BY <1>3, <1>5, <1>6, <1>10, <1>11, <1>12

\* A handler is freed, and with it the connection it is bound to.
LEMMA Destroyed ==
  ASSUME NEW w \in Worlds, Wired(w), NEW h \in Handlers, h \in Members(w.list),
         w.handler[h].binding # DANGLING, NEW v, v = Destroy(w, h)
  PROVE  /\ v \in Worlds /\ Wired(v)
         /\ v.list = RemoveFirst(w.list, h) /\ v.handler[h].type = "none"
         /\ \A k \in Handlers \ {h} :
              /\ w.handler[k].type # "none" => v.handler[k].type # "none"
              /\ w.handler[k].type = "etDelete" => v.handler[k].type = "etDelete"
              /\ \/ v.handler[k].binding = w.handler[k].binding
                 \/ /\ w.handler[k].binding = w.handler[h].binding
                    /\ v.handler[k].binding \in {NIL, DANGLING}
         /\ \A c \in Conns : IF c = w.handler[h].binding
                             THEN v.conn[c] = Blank /\ v.work[c] = NIL
                             ELSE v.conn[c] = w.conn[c] /\ v.work[c] = w.work[c]
         /\ Members(v.pool) = Members(w.pool) \ {w.handler[h].binding}
<1>1. PICK b : b = w.handler[h].binding OBVIOUS
<1>2. PICK x : x = Stop(w, h) OBVIOUS
<1>3. PICK u : u = CASE b \in Conns -> Delete(x, b)
                     [] b = TIMER   -> CloseFd(x, w.handler[h].socket)
                     [] OTHER       -> x
  OBVIOUS
<1>4. v = Forget(u, h) BY <1>1, <1>2, <1>3 DEF Destroy
<1>5. w.handler \in [Handlers -> HandlerRec] /\ b \in Conns \cup {NIL, TIMER}
      /\ w.handler[h].socket \in Fds \cup {NIL}
  BY <1>1 DEF Worlds, HandlerRec
<1>6. /\ x \in Worlds /\ x.handler = [w.handler EXCEPT ![h] = [@ EXCEPT !.type = "etDelete"]]
      /\ x.list = w.list /\ x.pool = w.pool /\ x.work = w.work /\ x.conn = w.conn
      /\ \A f \in Fds : x.epoll[f] \in {w.epoll[f], NIL}
  BY <1>2, HandlerStopped
<1>7. \A k \in Handlers : /\ x.handler[k].type = IF k = h THEN "etDelete" ELSE w.handler[k].type
                          /\ x.handler[k].binding = w.handler[k].binding
                          /\ x.handler[k].socket = w.handler[k].socket
  BY <1>5, <1>6, StoppedRecord
<1>8. Wired(x)
  <2>1. Serves(w, x, b) BY <1>6, StoppedServes
  <2> QED BY <2>1 DEF Serves
<1>9. /\ u \in Worlds /\ Wired(u) /\ u.list = w.list
      /\ u.handler[h].binding \notin Conns /\ \A s \in Fds : u.epoll[s] # h
      /\ \A k \in Handlers \ {h} :
           /\ w.handler[k].type = "etDelete" => u.handler[k].type = "etDelete"
           /\ u.handler[k].binding = w.handler[k].binding
              \/ (w.handler[k].binding = b /\ u.handler[k].binding \in {NIL, DANGLING})
      /\ \A c \in Conns : IF c = b THEN u.conn[c] = Blank /\ u.work[c] = NIL
                          ELSE u.conn[c] = w.conn[c] /\ u.work[c] = w.work[c]
      /\ Members(u.pool) = Members(w.pool) \ {b}
  <2>1. CASE b \in Conns
    <3>1. u = Delete(x, b) BY <1>3, <2>1, Distinct
    <3>2. b \in Members(x.pool) BY <1>1, <1>6, <2>1 DEF Wired
    <3>3. /\ u \in Worlds /\ Wired(u)
          /\ u.pool = RemoveFirst(x.pool, b) /\ Members(u.pool) = Members(x.pool) \ {b}
          /\ u.list = x.list
          /\ u.conn[b] = Blank /\ u.work[b] = NIL
          /\ \A d \in Conns \ {b} : u.conn[d] = x.conn[d] /\ u.work[d] = x.work[d]
          /\ \A k \in Handlers :
               /\ x.handler[k].binding # b => u.handler[k].binding = x.handler[k].binding
               /\ x.handler[k].binding = b => u.handler[k].binding \in {NIL, DANGLING}
               /\ x.handler[k].type = "etDelete" => u.handler[k].type = "etDelete"
               /\ u.handler[k].socket = x.handler[k].socket
      <4>1. x \in Worlds BY <1>6
      <4>2. b \in Conns /\ b \in Members(x.pool) /\ Wired(x) /\ u = Delete(x, b) BY <1>8, <2>1, <3>1, <3>2
      <4> QED BY ONLY SMTT(40), <4>1, <4>2, Deleted
    <3>4. u.handler[h].binding \in {NIL, DANGLING} BY <1>1, <1>7, <3>3
    <3>5. \A s \in Fds : u.epoll[s] # h BY <3>3, <3>4, Distinct DEF Wired, Watches
    <3> QED BY <1>6, <1>7, <3>3, <3>4, <3>5, Distinct
  <2>2. CASE b = TIMER
    <3>1. u = CloseFd(x, w.handler[h].socket) BY <1>3, <2>2, Distinct
    <3>2. /\ u \in Worlds
          /\ u.handler = x.handler /\ u.list = x.list /\ u.pool = x.pool /\ u.work = x.work
          /\ u.conn = x.conn
          /\ \A f \in Fds : u.epoll[f] = IF f = w.handler[h].socket THEN NIL ELSE x.epoll[f]
      BY <1>5, <1>6, <3>1, FdClosed
    <3>3. Wired(u)
      <4>1. PICK g : g = w.handler[h].socket OBVIOUS
      <4>2. /\ u.handler = x.handler /\ u.list = x.list /\ u.pool = x.pool /\ u.work = x.work
            /\ u.conn = x.conn
            /\ \A s \in Fds : u.epoll[s] = IF s = g THEN NIL ELSE x.epoll[s]
        BY <3>2, <4>1
      <4>3. Wired(x) BY <1>8
      <4> QED BY ONLY <4>2, <4>3, Unwatched
    <3>4. u.handler[h].binding = TIMER /\ u.handler[h].socket = w.handler[h].socket
      BY <1>1, <1>7, <2>2, <3>2
    <3>5. ASSUME NEW s \in Fds, u.epoll[s] = h PROVE FALSE
      <4>1. Watches(u, h, s) BY <3>3, <3>5 DEF Wired
      <4>2. s = w.handler[h].socket BY <3>4, <4>1, Distinct DEF Watches
      <4> QED BY <3>2, <3>5, <4>2, Distinct
    <3>6. TIMER \notin Members(w.pool)
      <4>1. w.pool \in Seq(Conns) BY DEF Worlds
      <4> QED BY <4>1, Distinct DEF Members
    <3> QED BY <1>6, <1>7, <2>2, <3>2, <3>3, <3>4, <3>5, <3>6, Distinct
  <2>3. CASE b = NIL
    <3>1. u = x BY <1>3, <2>3, Distinct
    <3>2. u.handler[h].binding = NIL BY <1>1, <1>7, <2>3, <3>1
    <3>3. \A s \in Fds : u.epoll[s] # h BY <1>8, <3>1, <3>2, Distinct DEF Wired, Watches
    <3>4. NIL \notin Members(w.pool)
      <4>1. w.pool \in Seq(Conns) BY DEF Worlds
      <4> QED BY <4>1, Distinct DEF Members
    <3> QED BY <1>6, <1>7, <1>8, <2>3, <3>1, <3>2, <3>3, <3>4, Distinct
  <2> QED BY <1>5, <2>1, <2>2, <2>3
<1>10. /\ v \in Worlds /\ Wired(v)
       /\ v.list = RemoveFirst(u.list, h) /\ Members(v.list) = Members(u.list) \ {h}
       /\ v.conn = u.conn /\ v.work = u.work /\ v.pool = u.pool
       /\ v.handler[h] = NoHandler /\ \A k \in Handlers \ {h} : v.handler[k] = u.handler[k]
  <2>1. u \in Worlds /\ Wired(u) /\ u.handler[h].binding \notin Conns /\ \A s \in Fds : u.epoll[s] # h
    BY <1>9
  <2> QED BY <1>4, <2>1, Forgotten
<1>11. v.handler[h].type = "none" BY <1>10 DEF NoHandler
<1>12. \A k \in Handlers \ {h} : w.handler[k].type # "none" => v.handler[k].type # "none"
  BY <1>9, <1>10 DEF Wired
<1> QED BY <1>1, <1>9, <1>10, <1>11, <1>12

-----------------------------------------------------------------------------
(* From the objects as one value to the variables.                          *)

ObjectsOK ==
  /\ handler \in [Handlers -> HandlerRec]
  /\ list \in Seq(Handlers)
  /\ conn \in [Conns -> ConnRec]
  /\ pool \in Seq(Conns)
  /\ epoll \in [Fds -> Handlers \cup {NIL, DANGLING}]
  /\ work \in [Conns -> Queries \cup {NIL}]

LEMMA WorldOK == ObjectsOK => World \in Worlds
BY DEF ObjectsOK, World, Worlds

LEMMA Became ==
  ASSUME NEW v \in Worlds, Wired(v), Become(v)
  PROVE  ObjectsOK' /\ Wired(World)'
<1>1. ObjectsOK' BY DEF ObjectsOK, Worlds, Become
<1>2. Wired(World)' BY DEF Wired, Watches, World, Become
<1> QED BY <1>1, <1>2

LEMMA Stays ==
  ASSUME ObjectsOK, Wired(World), UNCHANGED objects
  PROVE  ObjectsOK' /\ Wired(World)'
<1>1. ObjectsOK' BY DEF ObjectsOK, objects
<1>2. Wired(World)' BY DEF Wired, Watches, World, objects
<1> QED BY <1>1, <1>2

\* The handlers and the collections after a step in which connection x may have been freed.
Gentle(x) ==
  /\ ObjectsOK' /\ Wired(World)'
  /\ Members(pool) \ {x} \subseteq Members(pool')
  /\ \A h \in Handlers : handler[h].type # "none" =>
       /\ handler'[h].type # "none"
       /\ handler[h].type = "etDelete" => handler'[h].type = "etDelete"
       /\ \/ handler'[h].binding = handler[h].binding
          \/ handler[h].binding = x /\ handler'[h].binding \in {NIL, DANGLING}
  /\ \A i \in DOMAIN list : i \in DOMAIN list' /\ list'[i] = list[i]

LEMMA GentlyServed ==
  ASSUME ObjectsOK, NEW c, NEW v, Serves(World, v, c), Become(v)
  PROVE  /\ Gentle(NIL) /\ pool' = pool /\ work' = work /\ handler' = v.handler
         /\ \A d \in Conns \ {c} : conn'[d] = conn[d]
         /\ conn' = v.conn
<1>1. World \in Worlds /\ v \in Worlds /\ Wired(v) BY WorldOK DEF Serves
<1>2. ObjectsOK' /\ Wired(World)' BY <1>1, Became
<1>3. /\ pool' = pool /\ work' = work /\ handler' = v.handler /\ list' = v.list /\ conn' = v.conn
  BY DEF Serves, Keeps, World, Become
<1>4. /\ \A d \in Conns \ {c} : conn'[d] = conn[d]
      /\ \A i \in DOMAIN list : i \in DOMAIN list' /\ list'[i] = list[i]
      /\ \A h \in Handlers : handler[h].type # "none" =>
           /\ handler'[h].type # "none" /\ handler'[h].binding = handler[h].binding
           /\ handler[h].type = "etDelete" => handler'[h].type = "etDelete"
  BY <1>3 DEF Serves, Keeps, World
<1> QED BY <1>2, <1>3, <1>4 DEF Gentle

LEMMA GentlyUnchanged ==
  ASSUME ObjectsOK, Wired(World), UNCHANGED objects
  PROVE  Gentle(NIL)
BY Stays DEF Gentle, objects

LEMMA GentlyDeleted ==
  ASSUME ObjectsOK, Wired(World), NEW c \in Conns, c \in Members(pool), Become(Delete(World, c))
  PROVE  /\ Gentle(c) /\ pool' = RemoveFirst(pool, c) /\ Members(pool') = Members(pool) \ {c}
         /\ list' = list /\ conn'[c] = Blank /\ work'[c] = NIL
         /\ \A d \in Conns \ {c} : conn'[d] = conn[d] /\ work'[d] = work[d]
         /\ \A h \in Handlers : handler[h].binding = c => handler'[h].binding \in {NIL, DANGLING}
<1>1. World \in Worlds BY WorldOK
<1>2. PICK v : v = Delete(World, c) OBVIOUS
<1>3. c \in Members(World.pool) BY DEF World
<1>4. /\ v \in Worlds /\ Wired(v)
      /\ v.pool = RemoveFirst(World.pool, c) /\ Members(v.pool) = Members(World.pool) \ {c}
      /\ v.list = World.list
      /\ v.conn[c] = Blank /\ v.work[c] = NIL
      /\ \A d \in Conns \ {c} : v.conn[d] = World.conn[d] /\ v.work[d] = World.work[d]
      /\ \A h \in Handlers :
           /\ World.handler[h].binding # c => v.handler[h].binding = World.handler[h].binding
           /\ World.handler[h].binding = c => v.handler[h].binding \in {NIL, DANGLING}
           /\ World.handler[h].type = "etDelete" => v.handler[h].type = "etDelete"
  BY <1>1, <1>2, <1>3, Deleted
<1>5. Become(v) BY <1>2
<1>6. ObjectsOK' /\ Wired(World)' BY <1>4, <1>5, Became
<1>7. /\ pool' = RemoveFirst(pool, c) /\ Members(pool') = Members(pool) \ {c}
      /\ list' = list /\ conn'[c] = Blank /\ work'[c] = NIL
      /\ \A d \in Conns \ {c} : conn'[d] = conn[d] /\ work'[d] = work[d]
      /\ \A h \in Handlers :
           /\ handler[h].binding # c => handler'[h].binding = handler[h].binding
           /\ handler[h].binding = c => handler'[h].binding \in {NIL, DANGLING}
           /\ handler[h].type = "etDelete" => handler'[h].type = "etDelete"
  BY <1>4, <1>5 DEF World, Become
<1>8. \A h \in Handlers : handler[h].type # "none" => handler'[h].type # "none"
  BY <1>6, <1>7 DEF Wired, World
<1> QED BY <1>6, <1>7, <1>8 DEF Gentle

-----------------------------------------------------------------------------
(* The calls in progress.                                                   *)

LEMMA FirstReplaced ==
  ASSUME NEW S, NEW s \in Seq(S), s # <<>>, NEW e \in S, NEW t, t = <<e>> \o Tail(s)
  PROVE  /\ t \in Seq(S) /\ Len(t) = Len(s) /\ DOMAIN t = DOMAIN s /\ 1 \in DOMAIN s /\ t[1] = e
         /\ \A i \in DOMAIN s : i \in Nat /\ i >= 1 /\ (i # 1 => t[i] = s[i])
<1>1. Len(s) \in Nat /\ Len(s) > 0 /\ DOMAIN s = 1 .. Len(s) BY EmptySeq
<1>2. /\ Tail(s) \in Seq(S) /\ Len(Tail(s)) = Len(s) - 1
      /\ \A i \in 1 .. Len(Tail(s)) : Tail(s)[i] = s[i + 1]
  BY HeadTailProperties
<1>3. <<e>> \in Seq(S) /\ Len(<<e>>) = 1 /\ <<e>>[1] = e OBVIOUS
<1>4. /\ t \in Seq(S) /\ Len(t) = Len(<<e>>) + Len(Tail(s))
      /\ \A i \in 1 .. Len(<<e>>) + Len(Tail(s)) :
           t[i] = IF i <= Len(<<e>>) THEN <<e>>[i] ELSE Tail(s)[i - Len(<<e>>)]
  BY <1>2, <1>3, ConcatProperties
<1>5. \A i \in 1 .. Len(s) : i # 1 => t[i] = s[i]
  <2> TAKE i \in 1 .. Len(s)
  <2> HAVE i # 1
  <2>1. i - 1 \in 1 .. Len(Tail(s)) /\ ~(i <= 1) /\ i - 1 + 1 = i BY <1>1, <1>2
  <2> QED BY <1>1, <1>2, <1>3, <1>4, <2>1
<1> QED BY <1>1, <1>2, <1>3, <1>4, <1>5

LEMMA FirstRemoved ==
  ASSUME NEW S, NEW s \in Seq(S), s # <<>>, NEW t, t = Tail(s)
  PROVE  /\ t \in Seq(S) /\ Len(t) = Len(s) - 1
         /\ \A i \in DOMAIN t : i \in Nat /\ i >= 1 /\ i + 1 \in DOMAIN s /\ t[i] = s[i + 1]
<1>1. Len(s) \in Nat /\ Len(s) > 0 /\ DOMAIN s = 1 .. Len(s) BY EmptySeq
<1>2. /\ t \in Seq(S) /\ Len(t) = Len(s) - 1 /\ \A i \in 1 .. Len(t) : t[i] = s[i + 1]
  BY HeadTailProperties
<1> QED BY <1>1, <1>2

LEMMA Pushed ==
  ASSUME NEW S, NEW s \in Seq(S), NEW e \in S, NEW t, t = <<e>> \o s
  PROVE  /\ t \in Seq(S) /\ Len(t) = Len(s) + 1 /\ t # <<>> /\ t[1] = e /\ 1 \in DOMAIN t
         /\ \A i \in DOMAIN t : i \in Nat /\ i >= 1
                                /\ (i # 1 => i - 1 \in DOMAIN s /\ t[i] = s[i - 1])
<1>1. Len(s) \in Nat /\ DOMAIN s = 1 .. Len(s) OBVIOUS
<1>2. <<e>> \in Seq(S) /\ Len(<<e>>) = 1 /\ <<e>>[1] = e OBVIOUS
<1>3. /\ t \in Seq(S) /\ Len(t) = Len(<<e>>) + Len(s)
      /\ \A i \in 1 .. Len(<<e>>) + Len(s) :
           t[i] = IF i <= Len(<<e>>) THEN <<e>>[i] ELSE s[i - Len(<<e>>)]
  BY <1>2, ConcatProperties
<1>4. \A i \in DOMAIN t : i # 1 => i - 1 \in DOMAIN s /\ t[i] = s[i - 1]
  <2> TAKE i \in DOMAIN t
  <2> HAVE i # 1
  <2>1. i \in 1 .. Len(s) + 1 /\ i - 1 \in 1 .. Len(s) /\ ~(i <= 1) BY <1>1, <1>2, <1>3
  <2> QED BY <1>1, <1>2, <1>3, <2>1
<1> QED BY <1>1, <1>2, <1>3, <1>4, EmptySeq

\* The innermost call goes on as frame f.
LEMMA WentTo ==
  ASSUME TypeOK, calls # <<>>, NEW f \in Frame, Goto(f)
  PROVE  /\ calls' \in Seq(Frame) /\ calls' # <<>> /\ Len(calls') = Len(calls)
         /\ DOMAIN calls' = DOMAIN calls /\ 1 \in DOMAIN calls
         /\ calls'[1] = f /\ calls[1] = Call
         /\ \A i \in DOMAIN calls : i \in Nat /\ i >= 1 /\ (i # 1 => calls'[i] = calls[i])
<1>1. calls \in Seq(Frame) BY DEF TypeOK
<1>2. calls' = <<f>> \o Tail(calls) BY DEF Goto
<1>3. Call = calls[1] BY DEF Call
<1>4. /\ calls' \in Seq(Frame) /\ Len(calls') = Len(calls) /\ DOMAIN calls' = DOMAIN calls
      /\ 1 \in DOMAIN calls /\ calls'[1] = f
      /\ \A i \in DOMAIN calls : i \in Nat /\ i >= 1 /\ (i # 1 => calls'[i] = calls[i])
  BY <1>1, <1>2, FirstReplaced
<1> QED BY <1>1, <1>3, <1>4, EmptySeq

\* The connection whose event is being dispatched is in the pool.
LEMMA CursorThere ==
  ASSUME TypeOK, Wired(World), Cursor, Dispatching
  PROVE  /\ cur.conn \in Conns /\ cur.conn \in Members(pool)
         /\ cur.handler \in Handlers /\ handler[cur.handler].type # "none"
BY Distinct DEF Cursor, Wired, World

\* The calls and the cursor, after a step of the innermost call.  Connection x may have been freed.
LEMMA Went ==
  ASSUME TypeOK, Wired(World), Frames, Cursor, calls # <<>>, NEW f \in Frame, Goto(f),
         UNCHANGED <<pc, batch, cur, at>>,
         NEW x, Gentle(x), x = NIL \/ (x \in Conns /\ Making(Call, x)),
         f.query = Call.query, FrameOK(f)',
         \A d \in Conns : Making(f, d) => Making(Call, d) \/ d \notin Members(pool),
         f.step \in Callbacks =>
           \/ f.conn = NIL \/ Making(Call, f.conn)
           \/ f.step = "failing" /\ conn[f.conn].status = "qsReady" /\ conn[f.conn].pq = "ok",
         \A d \in Conns : Connecting(d) /\ work[d] = NIL => Connecting(d)' /\ work'[d] = NIL,
         \A d \in Conns : conn'[d].status = "qsReady" =>
           conn[d].status = "qsReady" /\ (conn[d].pq = "bad" => conn'[d].pq = "bad")
  PROVE  Frames' /\ Cursor'
<1>1. /\ calls' \in Seq(Frame) /\ calls' # <<>> /\ Len(calls') = Len(calls)
      /\ DOMAIN calls' = DOMAIN calls /\ 1 \in DOMAIN calls
      /\ calls'[1] = f /\ calls[1] = Call
      /\ \A i \in DOMAIN calls : i \in Nat /\ i >= 1 /\ (i # 1 => calls'[i] = calls[i])
  BY WentTo
<1>2. \A i \in DOMAIN calls : i # 1 =>
        /\ FrameOK(calls[i]) /\ calls[i].step \in Callbacks
        /\ calls[i].query = NIL => i = Len(calls)
  BY <1>1 DEF Frames
<1>3. \A i \in DOMAIN calls : i # 1 /\ calls[i].conn # NIL =>
        calls[i].conn \in Members(pool) /\ calls[i].conn \in Members(pool')
  <2> TAKE i \in DOMAIN calls
  <2> HAVE i # 1 /\ calls[i].conn # NIL
  <2>1. calls[i].conn \in Members(pool) BY <1>2 DEF FrameOK
  <2>2. calls[i].conn # x BY <1>1, <1>2 DEF Frames
  <2> QED BY <2>1, <2>2 DEF Gentle
<1>4. \A i \in DOMAIN calls' : FrameOK(calls[i])'
  <2> TAKE i \in DOMAIN calls'
  <2>1. CASE i = 1 BY <1>1, <2>1
  <2>2. CASE i # 1
    <3>1. calls'[i] = calls[i] /\ FrameOK(calls[i]) /\ calls[i].step \in Callbacks BY <1>1, <1>2, <2>2
    <3> QED BY <1>1, <1>3, <2>2, <3>1 DEF FrameOK, Callbacks
  <2> QED BY <2>1, <2>2
<1>5. \A i \in DOMAIN calls' : /\ i > 1 => calls'[i].step \in Callbacks
                               /\ calls'[i].query = NIL => i = Len(calls')
  <2> TAKE i \in DOMAIN calls'
  <2>1. CASE i = 1 BY <1>1, <2>1 DEF Frames
  <2>2. CASE i # 1 BY <1>1, <1>2, <2>2
  <2> QED BY <2>1, <2>2
<1>6. \A i \in DOMAIN calls : \A d \in Conns : Making(calls[i], d) => Connecting(d) /\ work[d] = NIL
  BY DEF Frames
<1>6a. \A d \in Conns \ Members(pool) : Connecting(d) /\ work[d] = NIL
  BY BlankRecord DEF Wired, World, Connecting
<1>7. ASSUME NEW i \in DOMAIN calls', NEW j \in DOMAIN calls', NEW d \in Conns,
             Making(calls'[i], d), calls'[j].step \in Callbacks, calls'[j].conn = d
      PROVE  i = j
  <2>1. CASE i = 1 /\ j # 1
    <3>1. Making(Call, d) BY <1>1, <1>3, <1>7, <2>1, Distinct
    <3> QED BY <1>1, <1>7, <2>1, <3>1 DEF Frames
  <2>2. CASE i # 1 /\ j = 1
    <3>1. Making(calls[i], d) /\ Connecting(d) BY <1>1, <1>6, <1>7, <2>2
    <3>2. d # NIL BY Distinct
    <3>3. Making(Call, d) BY <1>1, <1>7, <2>2, <3>1, <3>2 DEF Connecting
    <3>4. calls[i].step \in Callbacks /\ calls[i].conn = d BY <1>2, <1>1, <2>2, <3>1 DEF Making
    <3> QED BY <1>1, <2>2, <3>3, <3>4 DEF Frames
  <2>3. CASE i # 1 /\ j # 1
    <3>1. calls'[i] = calls[i] /\ calls'[j] = calls[j] /\ i \in DOMAIN calls /\ j \in DOMAIN calls
      BY <1>1, <2>3
    <3>2. Making(calls[i], d) /\ calls[j].step \in Callbacks /\ calls[j].conn = d BY <1>7, <3>1
    <3> QED BY <3>1, <3>2 DEF Frames
  <2> QED BY <2>1, <2>2, <2>3
<1>8. ASSUME NEW i \in DOMAIN calls', NEW d \in Conns, Making(calls'[i], d)
      PROVE  Connecting(d)' /\ work'[d] = NIL
  <2>1. CASE i = 1 BY <1>1, <1>6, <1>8, <1>6a, <2>1
  <2>2. CASE i # 1 BY <1>1, <1>6, <1>8, <2>2
  <2> QED BY <2>1, <2>2
<1>9. Frames' BY <1>4, <1>5, <1>7, <1>8 DEF Frames, Making, Connecting
<1>10. ASSUME Dispatching
       PROVE  /\ cur.conn \in Conns /\ cur.handler \in Handlers
              /\ handler'[cur.handler].binding = cur.conn
              /\ \A h \in batch : handler'[h].binding # cur.conn
              /\ \A i \in DOMAIN calls' : ~Making(calls'[i], cur.conn)
              /\ \A i \in DOMAIN calls' : calls'[i].step = "failing" => calls'[i].conn # cur.conn
  <2>1. /\ cur.conn \in Conns /\ cur.conn \in Members(pool)
        /\ cur.handler \in Handlers /\ handler[cur.handler].type # "none"
    BY <1>10, CursorThere
  <2>6. cur.conn # x BY <1>1, <1>10, <2>1, Distinct DEF Cursor
  <2>2. handler'[cur.handler].binding = cur.conn BY <1>10, <2>1, <2>6 DEF Cursor, Gentle
  <2>3. \A h \in batch : handler'[h].binding # cur.conn
    <3> TAKE h \in batch
    <3>1. h \in Handlers BY DEF TypeOK
    <3>2. handler[h].type # "none" /\ handler[h].binding # cur.conn BY <1>10 DEF Cursor
    <3> QED BY <2>1, <3>1, <3>2, Distinct DEF Gentle
  <2>4. ASSUME NEW i \in DOMAIN calls' PROVE ~Making(calls'[i], cur.conn)
    <3>1. CASE i = 1 BY <1>1, <1>10, <2>1, <3>1 DEF Cursor
    <3>2. CASE i # 1 BY <1>1, <1>10, <3>2 DEF Cursor
    <3> QED BY <3>1, <3>2
  <2>5. ASSUME NEW i \in DOMAIN calls', calls'[i].step = "failing" PROVE calls'[i].conn # cur.conn
    <3>1. CASE i = 1
      <4>1. calls # <<>> => pc \notin {"write"} BY DEF Cursor
      <4>2. pc \in {"executed", "notify", "fault"} BY <1>10, <4>1 DEF Dispatching
      <4>3. conn[cur.conn].status # "qsReady" \/ conn[cur.conn].pq = "bad" BY <4>2 DEF Cursor
      <4>4. ~Making(Call, cur.conn) BY <1>1, <1>10 DEF Cursor
      <4> QED BY <1>1, <2>1, <2>5, <3>1, <4>3, <4>4, Distinct DEF Callbacks
    <3>2. CASE i # 1 BY <1>1, <1>10, <2>5, <3>2 DEF Cursor
    <3> QED BY <3>1, <3>2
  <2> QED BY <2>1, <2>2, <2>3, <2>4, <2>5
<1>11. ASSUME pc \in {"executed", "notify", "fault"}
       PROVE  conn'[cur.conn].status # "qsReady" \/ conn'[cur.conn].pq = "bad"
  <2>1. cur.conn \in Conns BY <1>11 DEF Cursor, Dispatching
  <2> QED BY <1>11, <2>1 DEF Cursor
<1>12. pc \notin {"write", "shrink", "pack", "clear", "undefined"} BY DEF Cursor
<1>13. \A h \in batch : /\ handler'[h].type # "none"
                        /\ handler'[h].binding \in Conns => handler'[h].binding = handler[h].binding
  <2> TAKE h \in batch
  <2>1. h \in Handlers BY DEF TypeOK
  <2>2. handler[h].type # "none" BY DEF Cursor
  <2> QED BY <2>1, <2>2, Distinct DEF Gentle
<1>14. \A h, k \in batch : handler'[h].binding \in Conns /\ handler'[h].binding = handler'[k].binding => h = k
  BY <1>13 DEF Cursor
<1>15. Cursor'
  BY <1>10, <1>11, <1>12, <1>13, <1>14 DEF Cursor, Dispatching
<1> QED BY <1>9, <1>15

\* A step of a call makes no connection ready, keeps none waiting, and leaves one alone that waits
\* for an answer.
Softly(d) ==
  /\ conn'[d].status = "qsReady" => conn[d].status = "qsReady" /\ (conn[d].pq = "bad" => conn'[d].pq = "bad")
  /\ conn'[d].status = "qsWait" => conn[d].status = "qsWait"
  /\ Connecting(d) => Connecting(d)'
  /\ conn[d].status = "qsWait" /\ conn[d].pq = "ok" => conn'[d] = conn[d]

\* A part of the types that a step of a call leaves alone
LEMMA TypesKept ==
  ASSUME TypeOK, ObjectsOK', UNCHANGED <<pc, batch, cur, at>>,
         queue' \in Seq(Queries), fate' \in [Queries -> {"new", "pending", "executed", "failed"}],
         active' \in BOOLEAN, timed' \in BOOLEAN, calls' \in Seq(Frame), faults' \in 0 .. MaxFaults
  PROVE  TypeOK'
BY DEF TypeOK, ObjectsOK

\* The connections that are being served for a query, after a step that touched none of them.
LEMMA StillBusy ==
  ASSUME TypeOK, Cursor, calls # <<>>, UNCHANGED <<pc, batch, cur, at>>,
         NEW x, Gentle(x), NEW c \in Conns, c # x, Softly(c),
         work[c] # NIL, Failing(c) => Failing(c)',
         \/ conn[c].status = "qsWait" /\ conn[c].pq = "ok"
         \/ Failing(c)
         \/ conn[c].status # "qsReady" /\ ((pc \in {"executed", "fault"} /\ cur.conn = c) \/ Doomed(c))
  PROVE  \/ conn'[c].status = "qsWait" /\ conn'[c].pq = "ok"
         \/ Failing(c)'
         \/ /\ conn'[c].status # "qsReady"
            /\ (pc' \in {"executed", "fault"} /\ cur'.conn = c) \/ Doomed(c)'
<1>1. CASE conn[c].status = "qsWait" /\ conn[c].pq = "ok" BY <1>1 DEF Softly
<1>2. CASE Failing(c) BY <1>2
<1>3. CASE conn[c].status # "qsReady" /\ pc \in {"executed", "fault"} /\ cur.conn = c
  BY <1>3 DEF Softly
<1>4. CASE conn[c].status # "qsReady" /\ Doomed(c)
  <2>1. pc # "pack" BY DEF Cursor
  <2>2. PICK i \in DOMAIN list : handler[list[i]].type = "etDelete" /\ handler[list[i]].binding = c
    BY <1>4 DEF Doomed
  <2>3. list[i] \in Handlers BY DEF TypeOK
  <2>4. /\ i \in DOMAIN list' /\ list'[i] = list[i]
        /\ handler'[list[i]].type = "etDelete" /\ handler'[list[i]].binding = c
    BY <2>2, <2>3 DEF Gentle
  <2>5. ASSUME NEW h \in batch PROVE handler'[h].binding # c
    <3>1. h \in Handlers BY DEF TypeOK
    <3>2. handler[h].type # "none" /\ handler[h].binding # c BY <1>4 DEF Cursor, Doomed
    <3> QED BY <3>1, <3>2, Distinct DEF Gentle
  <2>6. Doomed(c)' BY <1>4, <2>1, <2>4, <2>5 DEF Doomed, Dispatching
  <2> QED BY <1>4, <2>6 DEF Softly
<1> QED BY <1>1, <1>2, <1>3, <1>4

\* A step of the innermost call that gives no connection a query.
LEMMA Going ==
  ASSUME Inv, calls # <<>>, NEW f \in Frame, Goto(f), Call.step # "failing",
         UNCHANGED <<queue, pc, batch, cur, at>>,
         NEW x, Gentle(x), x = NIL \/ (x \in Conns /\ Making(Call, x)),
         f.query = Call.query, FrameOK(f)',
         \A d \in Conns : Making(f, d) => Making(Call, d) \/ d \notin Members(pool),
         f.step \in Callbacks => f.conn = NIL \/ Making(Call, f.conn),
         \A d \in Conns : Softly(d) /\ work'[d] = work[d],
         fate' = IF f.step = "failing" THEN [fate EXCEPT ![Call.query] = "failed"] ELSE fate,
         f.step = "failing" => f.query # NIL,
         active' \in BOOLEAN, timed' \in BOOLEAN, faults' \in 0 .. MaxFaults
  PROVE  Inv' /\ (SizeMin > 0 /\ Busy /\ Told => Busy' /\ Told')
<1>1. TypeOK /\ Wired(World) /\ Frames /\ Cursor /\ WaitHasWork /\ Once BY DEF Inv
<1>2. /\ calls' \in Seq(Frame) /\ calls' # <<>> /\ Len(calls') = Len(calls)
      /\ DOMAIN calls' = DOMAIN calls /\ 1 \in DOMAIN calls
      /\ calls'[1] = f /\ calls[1] = Call
      /\ \A i \in DOMAIN calls : i \in Nat /\ i >= 1 /\ (i # 1 => calls'[i] = calls[i])
  BY <1>1, WentTo
<1>3. f.query \in Queries \cup {NIL} /\ fate \in [Queries -> {"new", "pending", "executed", "failed"}]
  BY <1>1 DEF Frame, TypeOK
<1>4. /\ fate' \in [Queries -> {"new", "pending", "executed", "failed"}]
      /\ \A q \in Queries : fate'[q] = IF f.step = "failing" /\ q = Call.query THEN "failed" ELSE fate[q]
  BY <1>3
<1>5. TypeOK'
  BY <1>1, <1>2, <1>4, TypesKept DEF TypeOK, Gentle
<1>6. Frames' /\ Cursor'
  <2>1. \A d \in Conns : Connecting(d) /\ work[d] = NIL => Connecting(d)' /\ work'[d] = NIL
    BY DEF Softly
  <2>2. \A d \in Conns : conn'[d].status = "qsReady" =>
           conn[d].status = "qsReady" /\ (conn[d].pq = "bad" => conn'[d].pq = "bad")
    BY DEF Softly
  <2> QED BY <1>1, <2>1, <2>2, Went
<1>7. WaitHasWork' BY <1>1 DEF WaitHasWork, InFlight, Softly
<1>8. \A i \in DOMAIN calls' : calls'[i].query = calls[i].query
      /\ (calls'[i].step # "failing" => calls[i].step # "failing")
  BY <1>2
<1>9. Once'
  <2>1. \A i \in DOMAIN calls' : \A q : Asked(i, q)' => Asked(i, q)
    BY <1>8 DEF Asked
  <2>2. InFlight' = InFlight BY DEF InFlight
  <2>3. \A c, d \in InFlight : work'[c] = work'[d] => c = d
    BY <1>1 DEF Once, InFlight
  <2>4. \A c \in InFlight : work'[c] \notin Members(queue) BY <1>1 DEF Once, InFlight
  <2>5. ASSUME NEW i \in DOMAIN calls', NEW q \in Queries, Asked(i, q)'
        PROVE  /\ q \notin Members(queue)
               /\ \A c \in Conns : work'[c] # q
               /\ \A j \in DOMAIN calls' : calls'[j].query = q => i = j
    <3>1. Asked(i, q) BY <2>1, <2>5
    <3> QED BY <1>1, <1>2, <1>8, <3>1 DEF Once
  <2>6. ASSUME NEW q \in Queries, fate'[q] = "new"
        PROVE  /\ q \notin Members(queue)
               /\ \A c \in Conns : work'[c] # q
               /\ \A i \in DOMAIN calls' : calls'[i].query # q
    <3>1. fate[q] = "new" BY <1>4, <2>6
    <3> QED BY <1>1, <1>2, <1>8, <3>1 DEF Once
  <2> QED BY <1>1, <2>2, <2>3, <2>4, <2>5, <2>6 DEF Once
<1>10. ASSUME Busy, Told PROVE Busy' /\ Told'
  <2>1. \A c \in Conns : Failing(c) => Failing(c)' BY <1>2 DEF Failing
  <2>2. \A c \in InFlight : c # x BY <1>1, <1>2, Distinct DEF Frames, InFlight
  <2>3. InFlight' = InFlight BY DEF InFlight
  <2>4. Busy'
    <3>1. ASSUME NEW c \in InFlight
          PROVE  \/ conn'[c].status = "qsWait" /\ conn'[c].pq = "ok"
                 \/ Failing(c)'
                 \/ /\ conn'[c].status # "qsReady"
                    /\ (pc' \in {"executed", "fault"} /\ cur'.conn = c) \/ Doomed(c)'
      <4>1. c \in Conns /\ work[c] # NIL /\ Softly(c) /\ c # x BY <2>2 DEF InFlight
      <4>2. \/ conn[c].status = "qsWait" /\ conn[c].pq = "ok"
            \/ Failing(c)
            \/ conn[c].status # "qsReady" /\ ((pc \in {"executed", "fault"} /\ cur.conn = c) \/ Doomed(c))
        BY <1>10 DEF Busy
      <4> QED BY <1>1, <2>1, <4>1, <4>2, StillBusy
    <3>2. pc = "notify" => work'[cur.conn] = NIL
      BY <1>1, <1>10 DEF Busy, Cursor, Dispatching
    <3> QED BY <2>3, <3>1, <3>2 DEF Busy
  <2>5. Call.query \in Queries => Asked(1, Call.query) BY <1>2 DEF Asked
  <2>6. \A q \in Members(queue) : q \in Queries
    BY <1>1 DEF TypeOK, Members
  <2>7. \A q \in Members(queue) : fate'[q] = "pending"
    BY <1>1, <1>2, <1>4, <1>10, <2>5, <2>6 DEF Told, Once
  <2>8. ASSUME NEW i \in DOMAIN calls', calls'[i].query # NIL
        PROVE  fate'[calls'[i].query] = IF calls'[i].step = "failing" THEN "failed" ELSE "pending"
    <3>1. calls'[i].query \in Queries
      <4>1. calls'[i] \in Frame BY <1>2
      <4> QED BY <2>8, <4>1 DEF Frame
    <3>2. CASE i = 1
      <4>1. fate[Call.query] = "pending" BY <1>2, <1>8, <1>10, <2>8, <3>2 DEF Told
      <4> QED BY <1>2, <1>4, <3>1, <3>2, <4>1
    <3>3. CASE i # 1
      <4>1. calls'[i] = calls[i] BY <1>2, <3>3
      <4>2. calls[i].query # Call.query BY <1>1, <1>2, <2>5, <3>1, <3>3, <4>1 DEF Once
      <4> QED BY <1>2, <1>4, <1>10, <2>8, <3>1, <4>1, <4>2 DEF Told
    <3> QED BY <3>2, <3>3
  <2>9. ASSUME NEW c \in InFlight
        PROVE  \/ fate'[work'[c]] = "pending" /\ conn'[c].status # "qsReady"
               \/ fate'[work'[c]] = "executed" /\ pc' = "executed" /\ cur'.conn = c
               \/ fate'[work'[c]] = "failed" /\ Failing(c)'
    <3>1. c \in Conns /\ work'[c] = work[c] /\ work[c] \in Queries
      BY <1>1 DEF InFlight, TypeOK
    <3>2. work[c] # Call.query BY <1>1, <1>2, <2>5, <3>1 DEF Once
    <3>3. fate'[work'[c]] = fate[work[c]] BY <1>4, <3>1, <3>2
    <3>4. conn[c].status # "qsReady" => conn'[c].status # "qsReady" BY <3>1 DEF Softly
    <3> QED BY <1>10, <2>1, <3>1, <3>3, <3>4 DEF Told
  <2>10. Told' BY <2>3, <2>7, <2>8, <2>9 DEF Told
  <2> QED BY <2>4, <2>10
<1>11. Wired(World)' BY DEF Gentle
<1> QED BY <1>5, <1>6, <1>7, <1>9, <1>10, <1>11 DEF Inv

\* What a call is before its step.
LEMMA CallIs ==
  ASSUME Inv, calls # <<>>
  PROVE  /\ Call \in Frame /\ FrameOK(Call) /\ Call = calls[1] /\ 1 \in DOMAIN calls
         /\ Call.query \in Queries \cup {NIL} /\ Call.at \in Nat /\ Call.conn \in Conns \cup {NIL}
         /\ Call.new \in BOOLEAN
         /\ TypeOK /\ Wired(World) /\ ObjectsOK /\ World \in Worlds
<1>1. calls \in Seq(Frame) /\ TypeOK /\ Wired(World) /\ Frames BY DEF Inv, TypeOK
<1>2. Call = calls[1] /\ 1 \in DOMAIN calls /\ Call \in Frame BY <1>1, EmptySeq DEF Call
<1>3. FrameOK(Call) BY <1>1, <1>2 DEF Frames
<1>4. ObjectsOK BY <1>1 DEF TypeOK, ObjectsOK
<1> QED BY <1>1, <1>2, <1>3, <1>4, WorldOK DEF Frame

LEMMA SoftlySame ==
  ASSUME NEW d, conn'[d] = conn[d]
  PROVE  Softly(d)
BY DEF Softly, Connecting

\* An exception reaches Start's own handler.
LEMMA StartThrown ==
  ASSUME Inv, calls # <<>>, StartThrows, Call.step # "failing", Call.query # NIL,
         UNCHANGED <<pc, batch, cur, at>>,
         NEW x, Gentle(x), x = NIL \/ (x \in Conns /\ Making(Call, x)),
         \A d \in Conns : Softly(d) /\ work'[d] = work[d],
         active' \in BOOLEAN, timed' \in BOOLEAN, faults' \in 0 .. MaxFaults
  PROVE  Inv' /\ (SizeMin > 0 /\ Busy /\ Told => Busy' /\ Told')
<1>1. PICK f : f = [Call EXCEPT !.step = "failing", !.conn = NIL] OBVIOUS
<1>2. Call \in Frame BY CallIs
<1>3. f \in Frame /\ f.step = "failing" /\ f.conn = NIL /\ f.query = Call.query BY <1>1, <1>2 DEF Frame
<1>4. Goto(f) /\ fate' = [fate EXCEPT ![Call.query] = "failed"] /\ queue' = queue
  BY <1>1 DEF StartThrows
<1>5. FrameOK(f)' BY <1>3 DEF FrameOK
<1>6. \A d \in Conns : ~Making(f, d) BY <1>3 DEF Making
<1> QED BY <1>3, <1>4, <1>5, <1>6, Going

\* An exception in the making or the reset of a connection.
LEMMA Thrown ==
  ASSUME Inv, calls # <<>>, Throw, Call.step \in {"start", "poll"},
         UNCHANGED <<pc, batch, cur, at>>, Gentle(NIL),
         \A d \in Conns : Softly(d) /\ work'[d] = work[d],
         active' \in BOOLEAN, timed' \in BOOLEAN, faults' \in 0 .. MaxFaults
  PROVE  Inv' /\ (SizeMin > 0 /\ Busy /\ Told => Busy' /\ Told')
<1>1. Call \in Frame /\ FrameOK(Call) BY CallIs
<1>2. CASE Call.new
  <2>1. PICK f : f = [Call EXCEPT !.step = "newfail"] OBVIOUS
  <2>2. /\ f \in Frame /\ f.step = "newfail" /\ f.conn = Call.conn /\ f.query = Call.query
        /\ f.new = Call.new
    BY <1>1, <2>1 DEF Frame
  <2>3. Goto(f) /\ fate' = fate /\ queue' = queue BY <1>2, <2>1 DEF Throw, service
  <2>4. Call.conn # NIL /\ Call.conn \in Members(pool) BY <1>1 DEF FrameOK
  <2>5. Call.conn \in Members(pool') BY <2>4 DEF Gentle
  <2>6. FrameOK(f)' BY <1>2, <2>2, <2>4, <2>5 DEF FrameOK
  <2>7. \A d : Making(f, d) => Making(Call, d) BY <2>2 DEF Making
  <2>8. Making(Call, f.conn) BY <1>2, <2>2 DEF Making
  <2> QED BY <2>2, <2>3, <2>6, <2>7, <2>8, Going
<1>3. CASE ~Call.new
  <2>1. Call.query # NIL BY <1>1, <1>3 DEF FrameOK
  <2>2. StartThrows BY <1>3 DEF Throw
  <2> QED BY <2>1, <2>2, StartThrown
<1> QED BY <1>2, <1>3

\* CheckSocket at the end of a step that served the connection.
LEMMA CheckedToo ==
  ASSUME ObjectsOK, NEW c \in Conns, NEW w, Serves(World, w, c), c \in Members(pool),
         HandlerAtHand(w, c), w.handler = handler, Become(CheckSocket(w, c))
  PROVE  /\ Gentle(NIL) /\ pool' = pool /\ work' = work
         /\ \A d \in Conns \ {c} : conn'[d] = conn[d]
         /\ conn'[c].status = w.conn[c].status /\ conn'[c].pq = w.conn[c].pq
         /\ conn'[c].fd = w.conn[c].fd
<1>1. w \in Worlds /\ Wired(w) BY DEF Serves
<1>2. c \in Members(w.pool) BY DEF Serves, Keeps, World
<1>3. w.conn[c].socket # NIL \/ w.conn[c].fd = NIL \/ \E g \in Handlers : w.handler[g].type = "none"
  BY DEF HandlerAtHand, FreeHandlers
<1>4. PICK v : v = CheckSocket(w, c) OBVIOUS
<1>5. /\ Serves(w, v, c)
      /\ v.conn[c].status = w.conn[c].status /\ v.conn[c].pq = w.conn[c].pq
      /\ v.conn[c].fd = w.conn[c].fd
  BY <1>1, <1>2, <1>3, <1>4, SocketChecked
<1>6. Serves(World, v, c) BY <1>5, ServesTwice
<1>7. Become(v) BY <1>4
<1>8. /\ Gentle(NIL) /\ pool' = pool /\ work' = work
      /\ \A d \in Conns \ {c} : conn'[d] = conn[d]
      /\ conn' = v.conn
  BY <1>6, <1>7, GentlyServed
<1> QED BY <1>5, <1>8

LEMMA SocketsAreFds == \A c \in Conns : ObjectsOK => SocketsFor(c) \subseteq Fds
<1> SUFFICES ASSUME NEW c \in Conns, ObjectsOK PROVE SocketsFor(c) \subseteq Fds OBVIOUS
<1>1. conn[c] \in ConnRec BY DEF ObjectsOK
<1>2. conn[c].fd \in Fds \cup {NIL} BY <1>1 DEF ConnRec
<1>3. FreeFds \subseteq Fds BY DEF FreeFds
<1> QED BY <1>2, <1>3 DEF SocketsFor

-----------------------------------------------------------------------------
(* GetReadyConnection                                                       *)

LEMMA ScansOn ==
  ASSUME Inv, calls # <<>>, NextConnection, Call.step # "failing", Call.query # NIL, ~Call.new,
         UNCHANGED <<pc, batch, cur, at, queue, fate>>, Gentle(NIL),
         \A d \in Conns : Softly(d) /\ work'[d] = work[d],
         active' \in BOOLEAN, timed' \in BOOLEAN, faults' \in 0 .. MaxFaults
  PROVE  Inv' /\ (SizeMin > 0 /\ Busy /\ Told => Busy' /\ Told')
<1>1. PICK f : f = [Call EXCEPT !.step = "scan", !.conn = NIL, !.at = Call.at + 1] OBVIOUS
<1>2. Call \in Frame /\ Call.at + 1 \in Nat /\ Call.at + 1 > 0
  <2>1. Call.at \in Nat BY CallIs
  <2> QED BY <2>1, CallIs
<1>3. /\ f \in Frame /\ f.step = "scan" /\ f.conn = NIL /\ f.query = Call.query /\ f.new = Call.new
      /\ f.at > 0
  BY <1>1, <1>2 DEF Frame
<1>4. Goto(f) BY <1>1 DEF NextConnection
<1>5. FrameOK(f)' BY <1>3 DEF FrameOK
<1>6. \A d \in Conns : ~Making(f, d) BY <1>3 DEF Making
<1>7. fate' = fate /\ queue' = queue OBVIOUS
<1> QED BY <1>3, <1>4, <1>5, <1>6, <1>7, Going DEF Callbacks

LEMMA ScanIs ==
  ASSUME Inv, Scanning
  PROVE  /\ calls # <<>> /\ Call.step = "scan" /\ Call.query \in Queries /\ ~Call.new
         /\ Visited \in Conns /\ Visited \in Members(pool) /\ Visited \in Members(World.pool)
         /\ conn[Visited] \in ConnRec
         /\ ObjectsOK /\ World \in Worlds /\ Wired(World)
<1>1. calls # <<>> /\ Call.step = "scan" /\ Call.at <= Len(pool) BY DEF Scanning, InCall
<1>2. /\ FrameOK(Call) /\ Call.at \in Nat /\ Call.query \in Queries \cup {NIL} /\ ObjectsOK
      /\ World \in Worlds /\ Wired(World)
  BY <1>1, CallIs
<1>3. Call.query # NIL /\ ~Call.new /\ Call.at > 0 BY <1>1, <1>2 DEF FrameOK
<1>4. pool \in Seq(Conns) /\ conn \in [Conns -> ConnRec] BY <1>2 DEF ObjectsOK
<1>5. Call.at \in 1 .. Len(pool) BY <1>1, <1>2, <1>3, <1>4
<1>6. Visited \in Conns /\ Visited \in Members(pool) BY <1>4, <1>5 DEF Visited, Members
<1> QED BY <1>1, <1>2, <1>3, <1>4, <1>6 DEF World

LEMMA ScanPassesOK ==
  ASSUME Inv, ScanPasses
  PROVE  Inv' /\ (SizeMin > 0 /\ Busy /\ Told => Busy' /\ Told')
<1>1. /\ Scanning /\ NextConnection /\ UNCHANGED objects
      /\ UNCHANGED <<pc, batch, cur, at, queue, fate, active, timed, faults>>
  BY DEF ScanPasses, service, life, loop
<1>2. calls # <<>> /\ Call.step = "scan" /\ Call.query \in Queries /\ ~Call.new /\ ObjectsOK /\ Wired(World)
  BY <1>1, ScanIs
<1>3. Gentle(NIL) BY <1>1, <1>2, GentlyUnchanged
<1>4. \A d \in Conns : Softly(d) /\ work'[d] = work[d] BY <1>1, SoftlySame DEF objects
<1>5. active' \in BOOLEAN /\ timed' \in BOOLEAN /\ faults' \in 0 .. MaxFaults BY <1>1 DEF Inv, TypeOK
<1> QED BY <1>1, <1>2, <1>3, <1>4, <1>5, ScansOn, Distinct

LEMMA ScanClosesOK ==
  ASSUME Inv, ScanCloses
  PROVE  Inv' /\ (SizeMin > 0 /\ Busy /\ Told => Busy' /\ Told')
<1>1. /\ Scanning /\ NextConnection /\ Become(Disconnect(World, Visited)) /\ Disturb(1)
      /\ conn[Visited].pq = "started"
      /\ UNCHANGED <<pc, batch, cur, at, queue, fate, active, timed>>
  BY DEF ScanCloses, service, life, loop
<1>2. /\ calls # <<>> /\ Call.step = "scan" /\ Call.query \in Queries /\ ~Call.new
      /\ Visited \in Conns /\ Visited \in Members(World.pool)
      /\ ObjectsOK /\ World \in Worlds /\ Wired(World)
  BY <1>1, ScanIs
<1>3. PICK c \in Conns : c = Visited BY <1>2
<1>4. PICK v : v = Disconnect(World, c) OBVIOUS
<1>5. Serves(World, v, c) /\ v.conn[c].status = World.conn[c].status
  BY <1>2, <1>3, <1>4, Disconnects
<1>6. Become(v) BY <1>1, <1>3, <1>4
<1>7. /\ Gentle(NIL) /\ pool' = pool /\ work' = work /\ conn' = v.conn
      /\ \A d \in Conns \ {c} : conn'[d] = conn[d]
  BY <1>2, <1>5, <1>6, GentlyServed
<1>8. conn'[c].status = conn[c].status BY <1>5, <1>7 DEF World
<1>9. Softly(c) BY <1>1, <1>3, <1>8 DEF Softly, Connecting
<1>10. \A d \in Conns : Softly(d) /\ work'[d] = work[d] BY <1>7, <1>9, SoftlySame
<1>11. active' \in BOOLEAN /\ timed' \in BOOLEAN /\ faults' \in 0 .. MaxFaults
  BY <1>1 DEF Inv, TypeOK, Disturb
<1> QED BY <1>1, <1>2, <1>7, <1>10, <1>11, ScansOn, Distinct

\* ResetStart marks the connection.
LEMMA MarkedReset ==
  ASSUME ObjectsOK, Wired(World), NEW c \in Conns, c \in Members(pool), NEW v, v = Reset(c)
  PROVE  /\ Serves(World, v, c) /\ v.handler = handler /\ v.conn[c].status = "qsReset"
         /\ v.conn[c].fd = conn[c].fd /\ v.conn[c].pq = conn[c].pq
         /\ v.conn[c].socket = conn[c].socket
<1>1. conn[c] \in ConnRec /\ World \in Worlds BY WorldOK DEF ObjectsOK
<1>2. PICK r : r = [conn[c] EXCEPT !.status = "qsReset"] OBVIOUS
<1>3. /\ r \in ConnRec /\ r.fd = conn[c].fd /\ r.handler = conn[c].handler /\ r.pq = conn[c].pq
      /\ r.socket = conn[c].socket /\ r.status = "qsReset"
  BY <1>1, <1>2 DEF ConnRec, Statuses
<1>4. v = SetConn(World, c, r) /\ World.conn = conn /\ World.pool = pool /\ World.handler = handler
  BY <1>2 DEF Reset, SetStatus, World
<1>5. Serves(World, v, c) /\ v.conn[c] = r /\ v.handler = World.handler
  BY <1>1, <1>3, <1>4, RecordEdited
<1> QED BY <1>3, <1>4, <1>5

LEMMA ScanResetsOK ==
  ASSUME Inv, ScanResets
  PROVE  Inv' /\ (SizeMin > 0 /\ Busy /\ Told => Busy' /\ Told')
<1>1. /\ calls # <<>> /\ Call.step = "scan" /\ Call.query \in Queries /\ ~Call.new
      /\ Visited \in Conns /\ Visited \in Members(pool)
      /\ ObjectsOK /\ World \in Worlds /\ Wired(World)
  BY ScanIs DEF ScanResets
<1>2. PICK c \in Conns : c = Visited BY <1>1
<1>3. /\ Goto([Call EXCEPT !.step = "poll", !.conn = c]) /\ conn[c].pq = "bad"
      /\ UNCHANGED <<pc, batch, cur, at, queue, fate, active, timed, faults>>
  BY <1>2 DEF ScanResets, service, life, loop
<1>4. PICK s \in SocketsFor(c) :
        LET w == Moves(Reset(c), c, "started", s)
        IN HandlerAtHand(w, c) /\ Become(CheckSocket(w, c))
  BY <1>2 DEF ScanResets
<1>5. s \in Fds BY <1>1, SocketsAreFds
<1>6. PICK u : u = Reset(c) OBVIOUS
<1>7. Serves(World, u, c) /\ u.handler = handler /\ u.conn[c].status = "qsReset"
  BY <1>1, <1>2, <1>6, MarkedReset
<1>8. PICK w : w = Moves(u, c, "started", s) OBVIOUS
<1>9. Serves(u, w, c) /\ w.handler = handler /\ w.conn[c].status = "qsReset"
  <2>1. u \in Worlds /\ Wired(u) /\ c \in Members(u.pool) BY <1>1, <1>2, <1>7 DEF Serves, Keeps, World
  <2> QED BY <1>5, <1>7, <1>8, <2>1, SocketMoved
<1>10. Serves(World, w, c) BY <1>7, <1>9, ServesTwice
<1>11. HandlerAtHand(w, c) /\ Become(CheckSocket(w, c)) BY <1>4, <1>6, <1>8
<1>12. /\ Gentle(NIL) /\ pool' = pool /\ work' = work
       /\ \A d \in Conns \ {c} : conn'[d] = conn[d]
       /\ conn'[c].status = "qsReset"
  BY <1>1, <1>2, <1>9, <1>10, <1>11, CheckedToo
<1>13. Softly(c) BY <1>3, <1>12 DEF Softly, Connecting
<1>14. \A d \in Conns : Softly(d) /\ work'[d] = work[d] BY <1>12, <1>13, SoftlySame
<1>15. active' \in BOOLEAN /\ timed' \in BOOLEAN /\ faults' \in 0 .. MaxFaults
  BY <1>3 DEF Inv, TypeOK
<1>16. PICK f : f = [Call EXCEPT !.step = "poll", !.conn = c] OBVIOUS
<1>17. /\ f \in Frame /\ f.step = "poll" /\ f.conn = c /\ f.query = Call.query /\ ~f.new
  <2>1. Call \in Frame BY <1>1, CallIs
  <2> QED BY <1>1, <1>16, <2>1 DEF Frame
<1>18. FrameOK(f)' BY <1>1, <1>2, <1>12, <1>17, Distinct DEF FrameOK, Connecting
<1>19. \A d \in Conns : ~Making(f, d) BY <1>17 DEF Making
<1>20. Goto(f) /\ f.step \notin Callbacks /\ fate' = fate /\ f.step # "failing"
  BY <1>3, <1>16, <1>17 DEF Callbacks
<1> QED BY <1>1, <1>3, <1>12, <1>14, <1>15, <1>17, <1>18, <1>19, <1>20, Going

LEMMA ScanReconnectsOK ==
  ASSUME Inv, ScanReconnects
  PROVE  Inv' /\ (SizeMin > 0 /\ Busy /\ Told => Busy' /\ Told')
<1>1. /\ calls # <<>> /\ Call.step = "scan" /\ Call.query \in Queries /\ ~Call.new
      /\ Visited \in Conns /\ Visited \in Members(pool)
      /\ ObjectsOK /\ World \in Worlds /\ Wired(World)
  BY ScanIs DEF ScanReconnects
<1>2. PICK c \in Conns : c = Visited BY <1>1
<1>3. /\ Goto([Call EXCEPT !.step = "start", !.conn = c, !.again = TRUE])
      /\ conn[c].pq \in {"none", "bad"}
      /\ Become(IF conn[c].pq = "none" THEN Reset(c) ELSE Moves(Reset(c), c, "bad", NIL))
      /\ Undisturbed \/ Disturb(1)
      /\ UNCHANGED <<pc, batch, cur, at, queue, fate, active, timed>>
  BY <1>2 DEF ScanReconnects, service, life, loop
<1>4. PICK u : u = Reset(c) OBVIOUS
<1>5. /\ Serves(World, u, c) /\ u.handler = handler /\ u.conn[c].status = "qsReset"
      /\ u.conn[c].fd = conn[c].fd
  BY <1>1, <1>2, <1>4, MarkedReset
<1>6. PICK w : w = IF conn[c].pq = "none" THEN u ELSE Moves(u, c, "bad", NIL) OBVIOUS
<1>7. Serves(World, w, c) /\ w.conn[c].status = "qsReset" /\ w.conn[c].fd = NIL
  <2>1. CASE conn[c].pq = "none"
    <3>1. conn[c].fd = NIL BY <1>1, <2>1 DEF Wired, World
    <3> QED BY <1>5, <1>6, <2>1, <3>1
  <2>2. CASE conn[c].pq # "none"
    <3>1. u \in Worlds /\ Wired(u) /\ c \in Members(u.pool) BY <1>1, <1>2, <1>5 DEF Serves, Keeps, World
    <3>2. w = Moves(u, c, "bad", NIL) BY <1>6, <2>2
    <3>3. Serves(u, w, c) /\ w.conn[c].status = u.conn[c].status /\ w.conn[c].fd = NIL
      BY <3>1, <3>2, SocketMoved
    <3> QED BY <1>5, <3>3, ServesTwice
  <2> QED BY <2>1, <2>2
<1>8. Become(w) BY <1>3, <1>4, <1>6
<1>9. /\ Gentle(NIL) /\ pool' = pool /\ work' = work /\ conn' = w.conn
      /\ \A d \in Conns \ {c} : conn'[d] = conn[d]
  BY <1>1, <1>7, <1>8, GentlyServed
<1>10. conn'[c].status = "qsReset" /\ conn'[c].fd = NIL BY <1>7, <1>9
<1>11. Softly(c) BY <1>3, <1>10 DEF Softly, Connecting
<1>12. \A d \in Conns : Softly(d) /\ work'[d] = work[d] BY <1>9, <1>11, SoftlySame
<1>13. active' \in BOOLEAN /\ timed' \in BOOLEAN /\ faults' \in 0 .. MaxFaults
  BY <1>3 DEF Inv, TypeOK, Disturb, Undisturbed
<1>14. PICK f : f = [Call EXCEPT !.step = "start", !.conn = c, !.again = TRUE] OBVIOUS
<1>15. /\ f \in Frame /\ f.step = "start" /\ f.conn = c /\ f.query = Call.query /\ ~f.new
  <2>1. Call \in Frame BY <1>1, CallIs
  <2> QED BY <1>1, <1>14, <2>1 DEF Frame
<1>16. FrameOK(f)' BY <1>1, <1>2, <1>9, <1>10, <1>15, Distinct DEF FrameOK, Connecting
<1>17. \A d \in Conns : ~Making(f, d) BY <1>15 DEF Making
<1>18. Goto(f) /\ f.step \notin Callbacks /\ fate' = fate /\ f.step # "failing"
  BY <1>3, <1>14, <1>15 DEF Callbacks
<1> QED BY <1>1, <1>3, <1>9, <1>12, <1>13, <1>15, <1>16, <1>17, <1>18, Going

-----------------------------------------------------------------------------
(* NewConnection                                                            *)

\* A connection object is free unless it is in the pool.
LEMMA Free ==
  ASSUME ObjectsOK
  PROVE  /\ FreeConns = Conns \ Members(pool)
         /\ IsFiniteSet(FreeConns) /\ Cardinality(FreeConns) \in Nat
         /\ IsFiniteSet(Members(pool)) /\ Cardinality(Members(pool)) <= Len(pool)
<1>1. pool \in Seq(Conns) /\ Len(pool) \in Nat BY DEF ObjectsOK
<1>2. FreeConns = Conns \ Members(pool)
  BY <1>1 DEF FreeConns, Live, Contains, Members
<1>3. IsFiniteSet(FreeConns)
  <2>1. FreeConns \in SUBSET Conns BY <1>2
  <2> QED BY <2>1, SizeAssumption, FS_Subset
<1> QED BY <1>1, <1>2, <1>3, FS_CardinalityType, MembersCounted

LEMMA FreeStays ==
  ASSUME ObjectsOK, ObjectsOK', pool' = pool
  PROVE  FreeConns' = FreeConns
<1>1. FreeConns' = {c \in Conns : ~Contains(pool', c)} BY DEF FreeConns, Live
<1>2. FreeConns = {c \in Conns : ~Contains(pool, c)} BY DEF FreeConns, Live
<1> QED BY <1>1, <1>2

LEMMA Created ==
  ASSUME Inv, calls # <<>>, NEW g \in Frame, g.query = Call.query, Create(g), FreeConns # {},
         Call.step # "failing", Call.step # "newfail",
         g.query = NIL => g.at <= SizeMin /\ Cardinality(FreeConns) >= SizeMin - (g.at - 1),
         UNCHANGED <<pc, batch, cur, at, queue, fate, active, timed, faults>>
  PROVE  Inv' /\ (SizeMin > 0 /\ Busy /\ Told => Busy' /\ Told')
<1>1. /\ Call \in Frame /\ FrameOK(Call) /\ TypeOK /\ Wired(World) /\ ObjectsOK
  BY CallIs
<1>2. PICK c : c = CHOOSE d \in FreeConns : TRUE OBVIOUS
<1>3. c \in FreeConns /\ c \in Conns /\ c \notin Members(pool) BY <1>1, <1>2, Free
<1>4. PICK f : f = [g EXCEPT !.step = "start", !.conn = c, !.new = TRUE] OBVIOUS
<1>5. /\ f \in Frame /\ f.step = "start" /\ f.conn = c /\ f.new /\ f.query = Call.query /\ f.at = g.at
  BY <1>3, <1>4 DEF Frame
<1>6. /\ pool' = Append(pool, c) /\ Goto(f)
      /\ handler' = handler /\ list' = list /\ conn' = conn /\ epoll' = epoll /\ work' = work
  BY <1>2, <1>4 DEF Create
<1>7. /\ pool' \in Seq(Conns) /\ Members(pool') = Members(pool) \cup {c} /\ NoDuplicates(pool')
  <2>1. pool \in Seq(Conns) /\ NoDuplicates(pool) BY <1>1 DEF ObjectsOK, Wired, World
  <2> QED BY <1>3, <1>6, <2>1, Appended
<1>8. ObjectsOK' BY <1>1, <1>6, <1>7 DEF ObjectsOK
<1>9. Wired(World)' BY <1>1, <1>6, <1>7 DEF Wired, Watches, World
<1>10. Gentle(NIL) BY <1>6, <1>7, <1>8, <1>9 DEF Gentle
<1>11. \A d \in Conns : Softly(d) /\ work'[d] = work[d] BY <1>6, SoftlySame
<1>12. conn[c] = Blank BY <1>1, <1>3 DEF Wired, World
<1>13. Connecting(c)' /\ conn'[c].fd = NIL BY <1>6, <1>12, BlankRecord DEF Connecting
<1>14. f.query = NIL => RoomFor(f)'
  <2> HAVE f.query = NIL
  <2>1. FreeConns' = FreeConns \ {c}
    <3>1. FreeConns' = Conns \ Members(pool')
      BY <1>8, Free DEF FreeConns, Live, Contains, Members, ObjectsOK
    <3> QED BY <1>1, <1>7, <3>1, Free
  <2>2. Cardinality(FreeConns') = Cardinality(FreeConns) - 1 /\ Cardinality(FreeConns) \in Nat
    BY <1>1, <1>3, <2>1, Free, FS_RemoveElement
  <2>3. g.at \in Nat BY DEF Frame
  <2> QED BY <1>5, <2>2, <2>3, SizeAssumption DEF RoomFor
<1>15. FrameOK(f)'
  <2>1. f.conn # NIL /\ f.conn \in Members(pool') BY <1>3, <1>5, <1>7, Distinct
  <2>2. Connecting(f.conn)' /\ conn'[f.conn].fd = NIL BY <1>5, <1>13 DEF Connecting
  <2> QED BY <1>5, <1>14, <2>1, <2>2 DEF FrameOK
<1>16. \A d \in Conns : Making(f, d) => d \notin Members(pool) BY <1>3, <1>5 DEF Making
<1>17. active' \in BOOLEAN /\ timed' \in BOOLEAN /\ faults' \in 0 .. MaxFaults BY <1>1 DEF TypeOK
<1>18. f.step # "failing" /\ f.step \notin Callbacks /\ fate' = fate /\ queue' = queue
  BY <1>5 DEF Callbacks
<1> QED BY <1>5, <1>6, <1>10, <1>11, <1>15, <1>16, <1>17, <1>18, Going

LEMMA ScanEndsOK ==
  ASSUME Inv, ScanEnds
  PROVE  Inv' /\ (SizeMin > 0 /\ Busy /\ Told => Busy' /\ Told')
<1>1. /\ calls # <<>> /\ Call.step = "scan" /\ Call.at > Len(pool)
      /\ UNCHANGED <<pc, batch, cur, at, queue, fate, active, timed, faults>>
  BY DEF ScanEnds, InCall, service, life, loop
<1>2. /\ Call \in Frame /\ FrameOK(Call) /\ TypeOK /\ Wired(World) /\ ObjectsOK
      /\ Call.query \in Queries \cup {NIL}
  BY <1>1, CallIs
<1>3. Call.query # NIL /\ ~Call.new BY <1>1, <1>2 DEF FrameOK
<1>4. CASE Len(pool) <= SizeMax + Cardinality(Listeners)
  <2>1. Create(Call) BY <1>4 DEF ScanEnds
  <2>2. FreeConns # {}
    <3>1. IsFiniteSet(Listening) /\ Cardinality(Listening) \in Nat
      BY SizeAssumption, AppAssumption, FS_Subset, FS_CardinalityType
    <3>2. Cardinality(Listeners) \in Nat /\ Cardinality(Listeners) <= Cardinality(Listening)
      <4>1. Listeners \in SUBSET Listening BY DEF Listeners, HasListeners
      <4> QED BY <3>1, <4>1, FS_Subset, FS_CardinalityType
    <3>3. Cardinality(Conns) \in Nat /\ Cardinality(Members(pool)) \in Nat
      BY <1>2, SizeAssumption, Free, FS_CardinalityType
    <3>4. Len(pool) \in Nat BY <1>2 DEF ObjectsOK
    <3>5. Cardinality(Members(pool)) < Cardinality(Conns)
      BY <1>2, <1>4, <3>1, <3>2, <3>3, <3>4, Free, SizeAssumption
    <3>6. ASSUME FreeConns = {} PROVE FALSE
      <4>1. Conns \in SUBSET Members(pool) BY <1>2, <3>6, Free
      <4>2. Cardinality(Conns) <= Cardinality(Members(pool)) BY <1>2, <4>1, Free, FS_Subset
      <4> QED BY <3>3, <3>5, <4>2
    <3> QED BY <3>6
  <2> QED BY <1>1, <1>2, <1>3, <2>1, <2>2, Created
<1>5. CASE ~(Len(pool) <= SizeMax + Cardinality(Listeners))
  <2>1. UNCHANGED objects BY <1>5 DEF ScanEnds
  <2>2. PICK f : f = [Call EXCEPT !.step = "park"] OBVIOUS
  <2>3. /\ f \in Frame /\ f.step = "park" /\ f.query = Call.query /\ f.conn = Call.conn /\ ~f.new
    BY <1>2, <1>3, <2>2 DEF Frame
  <2>4. Goto(f) BY <1>5, <2>2 DEF ScanEnds
  <2>5. Gentle(NIL) BY <1>2, <2>1, GentlyUnchanged
  <2>6. \A d \in Conns : Softly(d) /\ work'[d] = work[d] BY <2>1, SoftlySame DEF objects
  <2>7. FrameOK(f)' BY <1>2, <1>3, <2>1, <2>3 DEF FrameOK, objects
  <2>8. \A d \in Conns : ~Making(f, d) BY <2>3 DEF Making
  <2>9. active' \in BOOLEAN /\ timed' \in BOOLEAN /\ faults' \in 0 .. MaxFaults BY <1>1, <1>2 DEF TypeOK
  <2>10. f.step # "failing" /\ f.step \notin Callbacks /\ fate' = fate /\ queue' = queue
    BY <1>1, <2>3 DEF Callbacks
  <2> QED BY <1>1, <2>3, <2>4, <2>5, <2>6, <2>7, <2>8, <2>9, <2>10, Going
<1> QED BY <1>4, <1>5

LEMMA OpensOK ==
  ASSUME Inv, Opens
  PROVE  Inv' /\ (SizeMin > 0 /\ Busy /\ Told => Busy' /\ Told')
<1>1. /\ calls # <<>> /\ Call.step = "open" /\ Call.at < SizeMin
      /\ Create([Call EXCEPT !.at = Call.at + 1])
      /\ UNCHANGED <<pc, batch, cur, at, queue, fate, active, timed, faults>>
  BY DEF Opens, InCall, service, life, loop
<1>2. /\ Call \in Frame /\ FrameOK(Call) /\ ObjectsOK /\ Call.at \in Nat BY <1>1, CallIs
<1>3. Call.query = NIL /\ RoomFor(Call) BY <1>1, <1>2 DEF FrameOK
<1>4. PICK g : g = [Call EXCEPT !.at = Call.at + 1] OBVIOUS
<1>5. g \in Frame /\ g.query = Call.query /\ g.at = Call.at + 1
  <2>1. Call.at + 1 \in Nat BY <1>2
  <2> QED BY <1>2, <1>4, <2>1 DEF Frame
<1>6. Cardinality(FreeConns) \in Nat /\ IsFiniteSet(FreeConns) BY <1>2, Free
<1>7. g.at <= SizeMin /\ Cardinality(FreeConns) >= SizeMin - (g.at - 1) /\ Cardinality(FreeConns) > 0
  BY <1>1, <1>2, <1>3, <1>5, <1>6, SizeAssumption DEF RoomFor
<1>8. FreeConns # {} BY <1>6, <1>7, FS_EmptySet
<1> QED BY <1>1, <1>4, <1>5, <1>7, <1>8, Created

\* A call that makes or resets a connection.
LEMMA MakingIs ==
  ASSUME Inv, calls # <<>>, Call.step \in {"start", "poll", "newfail"}
  PROVE  /\ Call.conn \in Conns /\ Call.conn \in Members(pool) /\ Call.conn \in Members(World.pool)
         /\ Call.step # "newfail" => Connecting(Call.conn)
         /\ Call.step = "start" => conn[Call.conn].fd = NIL
         /\ Call.query = NIL => Call.new
         /\ conn[Call.conn] \in ConnRec
         /\ Call \in Frame /\ ObjectsOK /\ World \in Worlds /\ Wired(World)
<1>1. /\ Call \in Frame /\ FrameOK(Call) /\ ObjectsOK /\ World \in Worlds /\ Wired(World)
      /\ Call.conn \in Conns \cup {NIL}
  BY CallIs
<1>2. conn \in [Conns -> ConnRec] BY <1>1 DEF ObjectsOK
<1>3. Call.conn # NIL /\ Call.conn \in Members(pool) BY <1>1 DEF FrameOK
<1> QED BY <1>1, <1>2, <1>3 DEF FrameOK, World

\* The call goes on with the same connection.
LEMMA GoesOn ==
  ASSUME Inv, calls # <<>>, Call.step \in {"start", "poll"},
         NEW f \in Frame, Goto(f), f.step = "poll", f.conn = Call.conn, f.query = Call.query,
         f.new = Call.new, f.at = Call.at,
         UNCHANGED <<pc, batch, cur, at, queue, fate>>, Gentle(NIL), pool' = pool,
         \A d \in Conns : Softly(d) /\ work'[d] = work[d],
         active' \in BOOLEAN, timed' \in BOOLEAN, faults' \in 0 .. MaxFaults
  PROVE  Inv' /\ (SizeMin > 0 /\ Busy /\ Told => Busy' /\ Told')
<1>1. /\ Call.conn \in Conns /\ Call.conn \in Members(pool) /\ Connecting(Call.conn) /\ ObjectsOK
      /\ Call.query = NIL => Call.new
  BY MakingIs
<1>2. FrameOK(Call) BY CallIs
<1>3. Softly(Call.conn) BY <1>1
<1>4. conn'[f.conn].status \in {"qsConnect", "qsReset"} BY <1>1, <1>3 DEF Softly, Connecting
<1>5. FreeConns' = FreeConns BY <1>1, FreeStays DEF Gentle
<1>6. FrameOK(f)'
  <2>1. f.query = NIL => RoomFor(f)' BY <1>2, <1>5 DEF FrameOK, RoomFor
  <2> QED BY <1>1, <1>4, <2>1, Distinct DEF FrameOK, Connecting
<1>7. \A d \in Conns : Making(f, d) => Making(Call, d) BY DEF Making
<1>8. f.step # "failing" /\ f.step \notin Callbacks /\ fate' = fate /\ queue' = queue
  BY DEF Callbacks
<1> QED BY <1>6, <1>7, <1>8, Going

LEMMA PingFailsOK ==
  ASSUME Inv, PingFails
  PROVE  Inv' /\ (SizeMin > 0 /\ Busy /\ Told => Busy' /\ Told')
<1>1. /\ calls # <<>> /\ Call.step = "start" /\ Throw /\ UNCHANGED objects
      /\ UNCHANGED <<pc, batch, cur, at, active, timed>> /\ faults' \in 0 .. MaxFaults
  BY DEF PingFails, InCall, life, loop, Disturb, Inv, TypeOK
<1>2. ObjectsOK /\ Wired(World) BY <1>1, MakingIs
<1>3. Gentle(NIL) BY <1>1, <1>2, GentlyUnchanged
<1>4. \A d \in Conns : Softly(d) /\ work'[d] = work[d] BY <1>1, SoftlySame DEF objects
<1>5. active' \in BOOLEAN /\ timed' \in BOOLEAN BY <1>1 DEF Inv, TypeOK
<1> QED BY <1>1, <1>3, <1>4, <1>5, Thrown

\* PQconnectStart: the connection has a new socket, or none.
LEMMA SocketGiven ==
  ASSUME ObjectsOK, Wired(World), NEW c \in Conns, c \in Members(pool), conn[c].fd = NIL,
         NEW r \in ConnRec, r.pq # "none", r.handler = conn[c].handler,
         NEW w, w = SetConn(World, c, r)
  PROVE  Serves(World, w, c) /\ w.handler = handler /\ w.conn[c] = r
<1>1. PICK o : o = World OBVIOUS
<1>2. o \in Worlds /\ o.conn = conn /\ o.pool = pool /\ o.handler = handler
  BY <1>1, WorldOK DEF World
<1>3. Wired(o) BY <1>1
<1>4. \A f \in Fds : o.epoll[f] \in Handlers /\ o.handler[o.epoll[f]].binding = c => r.fd = f
  BY <1>2, <1>3, Distinct DEF Wired, Watches
<1>5. r.handler \in Handlers => o.handler[r.handler].binding = c BY <1>2, <1>3 DEF Wired
<1>6. w = SetConn(o, c, r) /\ c \in Members(o.pool) BY <1>1, <1>2
<1>7. Serves(o, w, c) /\ w.conn[c] = r /\ w.handler = o.handler
  BY <1>2, <1>3, <1>4, <1>5, <1>6, RecordSet
<1> QED BY <1>1, <1>2, <1>7

\* A connection that is being made stays one.
LEMMA SoftlyMade ==
  ASSUME NEW c \in Conns, Connecting(c), conn'[c].status = conn[c].status
  PROVE  Softly(c)
BY DEF Softly, Connecting

LEMMA ConnectStartOK ==
  ASSUME Inv, ConnectStart
  PROVE  Inv' /\ (SizeMin > 0 /\ Busy /\ Told => Busy' /\ Told')
<1>1. /\ calls # <<>> /\ Call.step = "start"
      /\ UNCHANGED <<pc, batch, cur, at, active, timed, faults>>
  BY DEF ConnectStart, InCall, life, loop
<1>2. PICK c \in Conns : c = Call.conn BY <1>1, MakingIs
<1>3. /\ c \in Members(pool) /\ Connecting(c) /\ conn[c].fd = NIL /\ conn[c] \in ConnRec
      /\ ObjectsOK /\ World \in Worlds /\ Wired(World) /\ Call \in Frame
  BY <1>1, <1>2, MakingIs
<1>4. PICK s \in FreeFds :
        LET w == SetConn(World, c, [conn[c] EXCEPT !.pq = "started", !.fd = s])
            v == Polling(w, c, conn[c].polling)
        IN IF Failed(w, c)
           THEN Become(w) /\ Throw
           ELSE /\ HandlerAtHand(v, c)
                /\ Become(CheckSocket(v, c))
                /\ Goto([Call EXCEPT !.step = "poll"])
                /\ UNCHANGED service
  BY <1>2 DEF ConnectStart
<1>5. PICK w : w = SetConn(World, c, [conn[c] EXCEPT !.pq = "started", !.fd = s]) OBVIOUS
<1>6. s \in Fds BY DEF FreeFds
<1>7. /\ Serves(World, w, c) /\ w.handler = handler /\ w.conn[c] \in ConnRec
      /\ w.conn[c].status = conn[c].status
  <2>1. PICK r : r = [conn[c] EXCEPT !.pq = "started", !.fd = s] OBVIOUS
  <2>2. r \in ConnRec /\ r.pq # "none" /\ r.handler = conn[c].handler /\ r.status = conn[c].status
    BY <1>3, <1>6, <2>1 DEF ConnRec
  <2>3. w = SetConn(World, c, r) BY <1>5, <2>1
  <2>4. Serves(World, w, c) /\ w.handler = handler /\ w.conn[c] = r
    BY <1>3, <2>2, <2>3, SocketGiven
  <2> QED BY <2>2, <2>4
<1>8. active' \in BOOLEAN /\ timed' \in BOOLEAN /\ faults' \in 0 .. MaxFaults BY <1>1 DEF Inv, TypeOK
<1>9. CASE Failed(w, c)
  <2>1. Become(w) /\ Throw BY <1>4, <1>5, <1>9
  <2>2. /\ Gentle(NIL) /\ work' = work /\ conn' = w.conn
        /\ \A d \in Conns \ {c} : conn'[d] = conn[d]
    BY <1>3, <1>7, <2>1, GentlyServed
  <2>3. Softly(c) BY <1>3, <1>7, <2>2, SoftlyMade
  <2>4. \A d \in Conns : Softly(d) /\ work'[d] = work[d] BY <2>2, <2>3, SoftlySame
  <2> QED BY <1>1, <1>8, <2>1, <2>2, <2>4, Thrown
<1>10. CASE ~Failed(w, c)
  <2>1. PICK v : v = Polling(w, c, conn[c].polling) OBVIOUS
  <2>2. /\ HandlerAtHand(v, c) /\ Become(CheckSocket(v, c)) /\ Goto([Call EXCEPT !.step = "poll"])
        /\ UNCHANGED <<queue, fate>>
    BY <1>4, <1>5, <1>10, <2>1 DEF service
  <2>3. Serves(w, v, c) /\ v.handler = w.handler /\ v.conn[c].status = w.conn[c].status
    <3>1. conn[c].polling \in {"writing", "reading", "ok", "failed"} BY <1>3 DEF ConnRec
    <3>2. w \in Worlds /\ Wired(w) /\ c \in Members(w.pool) BY <1>3, <1>7 DEF Serves, Keeps, World
    <3> QED BY <2>1, <3>1, <3>2, PollingSet
  <2>4. Serves(World, v, c) /\ v.handler = handler BY <1>7, <2>3, ServesTwice
  <2>5. /\ Gentle(NIL) /\ pool' = pool /\ work' = work
        /\ \A d \in Conns \ {c} : conn'[d] = conn[d]
        /\ conn'[c].status = conn[c].status
    BY <1>3, <1>7, <2>2, <2>3, <2>4, CheckedToo
  <2>6. Softly(c) BY <1>3, <2>5, SoftlyMade
  <2>7. \A d \in Conns : Softly(d) /\ work'[d] = work[d] BY <2>5, <2>6, SoftlySame
  <2>8. PICK f : f = [Call EXCEPT !.step = "poll"] OBVIOUS
  <2>9. /\ f \in Frame /\ f.step = "poll" /\ f.conn = Call.conn /\ f.query = Call.query
        /\ f.new = Call.new /\ f.at = Call.at
    BY <1>3, <2>8 DEF Frame
  <2>10. Goto(f) BY <2>2, <2>8
  <2> QED BY <1>1, <1>8, <2>2, <2>5, <2>7, <2>9, <2>10, GoesOn
<1> QED BY <1>9, <1>10

LEMMA ConnectStartBadOK ==
  ASSUME Inv, ConnectStartBad
  PROVE  Inv' /\ (SizeMin > 0 /\ Busy /\ Told => Busy' /\ Told')
<1>1. /\ calls # <<>> /\ Call.step = "start" /\ (Undisturbed \/ Disturb(1))
      /\ UNCHANGED <<pc, batch, cur, at, active, timed>>
  BY DEF ConnectStartBad, InCall, life, loop
<1>2. PICK c \in Conns : c = Call.conn BY <1>1, MakingIs
<1>3. /\ c \in Members(pool) /\ Connecting(c) /\ conn[c].fd = NIL /\ conn[c] \in ConnRec
      /\ ObjectsOK /\ World \in Worlds /\ Wired(World) /\ Call \in Frame
  BY <1>1, <1>2, MakingIs
<1>4. PICK s \in FreeFds \cup {NIL} :
        LET w == SetConn(World, c, [conn[c] EXCEPT !.pq = "bad", !.fd = s])
        IN IF Failed(w, c) \/ (s # NIL /\ s # conn[c].socket)
           THEN /\ Become(IF Failed(w, c) THEN w
                          ELSE SetConn(w, c, [w.conn[c] EXCEPT !.socket = s]))
                /\ Throw
           ELSE /\ Become(CheckSocket(w, c))
                /\ Goto([Call EXCEPT !.step = "poll"])
                /\ UNCHANGED service
  BY <1>2 DEF ConnectStartBad
<1>5. PICK w : w = SetConn(World, c, [conn[c] EXCEPT !.pq = "bad", !.fd = s]) OBVIOUS
<1>6. s \in Fds \cup {NIL} BY DEF FreeFds
<1>7. /\ Serves(World, w, c) /\ w.handler = handler /\ w.conn[c] \in ConnRec
      /\ w.conn[c].status = conn[c].status /\ w.conn[c].socket = conn[c].socket /\ w.conn[c].fd = s
  <2>1. PICK r : r = [conn[c] EXCEPT !.pq = "bad", !.fd = s] OBVIOUS
  <2>2. /\ r \in ConnRec /\ r.pq # "none" /\ r.handler = conn[c].handler /\ r.status = conn[c].status
        /\ r.socket = conn[c].socket /\ r.fd = s
    BY <1>3, <1>6, <2>1 DEF ConnRec
  <2>3. w = SetConn(World, c, r) BY <1>5, <2>1
  <2>4. Serves(World, w, c) /\ w.handler = handler /\ w.conn[c] = r
    BY <1>3, <2>2, <2>3, SocketGiven
  <2> QED BY <2>2, <2>4
<1>8. active' \in BOOLEAN /\ timed' \in BOOLEAN /\ faults' \in 0 .. MaxFaults
  BY <1>1 DEF Inv, TypeOK, Disturb, Undisturbed
<1>9. CASE Failed(w, c) \/ (s # NIL /\ s # conn[c].socket)
  <2>1. PICK r : r = [w.conn[c] EXCEPT !.socket = s] OBVIOUS
  <2>2. PICK v : v = IF Failed(w, c) THEN w ELSE SetConn(w, c, r) OBVIOUS
  <2>3. Become(v) /\ Throw BY <1>4, <1>5, <1>9, <2>1, <2>2
  <2>4. Serves(World, v, c) /\ v.conn[c].status = conn[c].status
    <3>1. CASE v = w BY <1>7, <3>1
    <3>2. CASE v = SetConn(w, c, r)
      <4>1. /\ r \in ConnRec /\ r.fd = w.conn[c].fd /\ r.handler = w.conn[c].handler
            /\ r.pq = w.conn[c].pq /\ r.status = w.conn[c].status
        BY <1>6, <1>7, <2>1 DEF ConnRec
      <4>2. w \in Worlds /\ Wired(w) /\ c \in Members(w.pool) BY <1>3, <1>7 DEF Serves, Keeps, World
      <4>3. Serves(w, v, c) /\ v.conn[c] = r BY <3>2, <4>1, <4>2, RecordEdited
      <4> QED BY <1>7, <4>1, <4>3, ServesTwice
    <3> QED BY <2>2, <3>1, <3>2
  <2>5. /\ Gentle(NIL) /\ work' = work /\ conn' = v.conn
        /\ \A d \in Conns \ {c} : conn'[d] = conn[d]
    BY <1>3, <2>3, <2>4, GentlyServed
  <2>6. Softly(c) BY <1>3, <2>4, <2>5, SoftlyMade
  <2>7. \A d \in Conns : Softly(d) /\ work'[d] = work[d] BY <2>5, <2>6, SoftlySame
  <2> QED BY <1>1, <1>8, <2>3, <2>5, <2>7, Thrown
<1>10. CASE ~(Failed(w, c) \/ (s # NIL /\ s # conn[c].socket))
  <2>1. Become(CheckSocket(w, c)) /\ Goto([Call EXCEPT !.step = "poll"]) /\ UNCHANGED <<queue, fate>>
    BY <1>4, <1>5, <1>10 DEF service
  <2>2. HandlerAtHand(w, c) BY <1>7, <1>10 DEF HandlerAtHand
  <2>3. /\ Gentle(NIL) /\ pool' = pool /\ work' = work
        /\ \A d \in Conns \ {c} : conn'[d] = conn[d]
        /\ conn'[c].status = conn[c].status
    BY <1>3, <1>7, <2>1, <2>2, CheckedToo
  <2>4. Softly(c) BY <1>3, <2>3, SoftlyMade
  <2>5. \A d \in Conns : Softly(d) /\ work'[d] = work[d] BY <2>3, <2>4, SoftlySame
  <2>6. PICK f : f = [Call EXCEPT !.step = "poll"] OBVIOUS
  <2>7. /\ f \in Frame /\ f.step = "poll" /\ f.conn = Call.conn /\ f.query = Call.query
        /\ f.new = Call.new /\ f.at = Call.at
    BY <1>3, <2>6 DEF Frame
  <2>8. Goto(f) BY <2>1, <2>6
  <2> QED BY <1>1, <1>8, <2>1, <2>3, <2>5, <2>7, <2>8, GoesOn
<1> QED BY <1>9, <1>10

\* ConnectPoll or ResetPoll succeeded.
LEMMA PollSucceededOK ==
  ASSUME Inv, calls # <<>>, Call.step = "poll", PollSucceeded,
         UNCHANGED <<pc, batch, cur, at, queue, fate>>, Gentle(NIL), pool' = pool,
         \A d \in Conns : Softly(d) /\ work'[d] = work[d],
         active' \in BOOLEAN, timed' \in BOOLEAN, faults' \in 0 .. MaxFaults
  PROVE  Inv' /\ (SizeMin > 0 /\ Busy /\ Told => Busy' /\ Told')
<1>1. /\ Call \in Frame /\ FrameOK(Call) /\ Call.query \in Queries \cup {NIL} /\ ObjectsOK
      /\ Call.new \in BOOLEAN
  BY CallIs
<1>2. Call.query = NIL => Call.new /\ RoomFor(Call) BY <1>1 DEF FrameOK
<1>3. FreeConns' = FreeConns BY <1>1, FreeStays DEF Gentle
<1>4. CASE Call.again
  <2>1. PICK f : f = [Call EXCEPT !.again = FALSE] OBVIOUS
  <2>2. /\ f \in Frame /\ f.step = "poll" /\ f.conn = Call.conn /\ f.query = Call.query
        /\ f.new = Call.new /\ f.at = Call.at
    BY <1>1, <2>1 DEF Frame
  <2>3. Goto(f) BY <1>4, <2>1 DEF PollSucceeded
  <2> QED BY <2>2, <2>3, GoesOn
<1>5. CASE ~Call.again /\ ~Call.new
  <2>1. NextConnection BY <1>5 DEF PollSucceeded
  <2> QED BY <1>2, <1>5, <2>1, ScansOn
<1>6. CASE ~Call.again /\ Call.new
  <2>1. PICK f : f = [Call EXCEPT !.step = IF Call.query = NIL THEN "open" ELSE "park",
                                  !.conn = NIL, !.new = FALSE]
    OBVIOUS
  <2>2. Goto(f) BY <1>6, <2>1 DEF PollSucceeded
  <2>3. PICK st \in {"open", "park"} : st = IF Call.query = NIL THEN "open" ELSE "park" OBVIOUS
  <2>4. /\ f \in Frame /\ f.step = st /\ f.conn = NIL /\ f.query = Call.query
        /\ ~f.new /\ f.at = Call.at
    BY <1>1, <2>1, <2>3 DEF Frame
  <2>5. FrameOK(f)'
    <3>1. f.query = NIL => RoomFor(f)' BY <1>2, <1>3, <2>4 DEF RoomFor
    <3> QED BY <2>3, <2>4, <3>1 DEF FrameOK
  <2>6. \A d \in Conns : ~Making(f, d) BY <2>4 DEF Making
  <2>7. f.step # "failing" /\ f.step \notin Callbacks /\ fate' = fate /\ queue' = queue
    BY <2>4 DEF Callbacks
  <2> QED BY <2>2, <2>4, <2>5, <2>6, <2>7, Going
<1> QED BY <1>4, <1>5, <1>6

LEMMA PollInCallOK ==
  ASSUME Inv, PollInCall
  PROVE  Inv' /\ (SizeMin > 0 /\ Busy /\ Told => Busy' /\ Told')
<1>1. /\ calls # <<>> /\ Call.step = "poll" /\ UNCHANGED <<pc, batch, cur, at, active, timed>>
  BY DEF PollInCall, InCall, life, loop
<1>2. PICK c \in Conns : c = Call.conn BY <1>1, MakingIs
<1>3. /\ c \in Members(pool) /\ c \in Members(World.pool) /\ Connecting(c) /\ conn[c] \in ConnRec
      /\ ObjectsOK /\ World \in Worlds /\ Wired(World)
  BY <1>1, <1>2, MakingIs
<1>4. PICK o \in Polled(World, c) :
        /\ Disturb(o.cost)
        /\ IF Failed(o.world, c)
           THEN Become(o.world) /\ Throw
           ELSE /\ HandlerAtHand(o.world, c) /\ Become(CheckSocket(o.world, c))
                /\ PollSucceeded /\ UNCHANGED service
  BY <1>2 DEF PollInCall
<1>5. PICK w : w = o.world OBVIOUS
<1>6. /\ Serves(World, w, c) /\ w.handler = handler /\ o.cost \in {0, 1}
      /\ w.conn[c].status = conn[c].status
  BY <1>3, <1>5, PolledServes, SocketsAreFds DEF World
<1>7. faults' \in 0 .. MaxFaults
  <2>1. faults \in 0 .. MaxFaults /\ MaxFaults \in Nat BY LimitAssumption DEF Inv, TypeOK
  <2>2. faults + o.cost <= MaxFaults /\ faults' = faults + o.cost BY <1>4 DEF Disturb
  <2> QED BY <1>6, <2>1, <2>2
<1>8. active' \in BOOLEAN /\ timed' \in BOOLEAN BY <1>1 DEF Inv, TypeOK
<1>9. CASE Failed(w, c)
  <2>1. Become(w) /\ Throw BY <1>4, <1>5, <1>9
  <2>2. /\ Gentle(NIL) /\ work' = work /\ conn' = w.conn
        /\ \A d \in Conns \ {c} : conn'[d] = conn[d]
    BY <1>3, <1>6, <2>1, GentlyServed
  <2>3. Softly(c) BY <1>3, <1>6, <2>2, SoftlyMade
  <2>4. \A d \in Conns : Softly(d) /\ work'[d] = work[d] BY <2>2, <2>3, SoftlySame
  <2> QED BY <1>1, <1>7, <1>8, <2>1, <2>2, <2>4, Thrown
<1>10. CASE ~Failed(w, c)
  <2>1. /\ HandlerAtHand(w, c) /\ Become(CheckSocket(w, c)) /\ PollSucceeded
        /\ UNCHANGED <<queue, fate>>
    BY <1>4, <1>5, <1>10 DEF service
  <2>2. /\ Gentle(NIL) /\ pool' = pool /\ work' = work
        /\ \A d \in Conns \ {c} : conn'[d] = conn[d]
        /\ conn'[c].status = conn[c].status
    BY <1>3, <1>6, <2>1, CheckedToo
  <2>3. Softly(c) BY <1>3, <2>2, SoftlyMade
  <2>4. \A d \in Conns : Softly(d) /\ work'[d] = work[d] BY <2>2, <2>3, SoftlySame
  <2> QED BY <1>1, <1>7, <1>8, <2>1, <2>2, <2>4, PollSucceededOK
<1> QED BY <1>9, <1>10

LEMMA NewConnectionFailsOK ==
  ASSUME Inv, NewConnectionFails
  PROVE  Inv' /\ (SizeMin > 0 /\ Busy /\ Told => Busy' /\ Told')
<1>1. /\ calls # <<>> /\ Call.step = "newfail" /\ Become(Delete(World, Call.conn))
      /\ UNCHANGED <<pc, batch, cur, at, active, timed, faults>>
  BY DEF NewConnectionFails, InCall, life, loop
<1>2. PICK c \in Conns : c = Call.conn BY <1>1, MakingIs
<1>3. c \in Members(pool) /\ ObjectsOK /\ Wired(World) /\ Call \in Frame BY <1>1, <1>2, MakingIs
<1>4. FrameOK(Call) /\ Call = calls[1] /\ 1 \in DOMAIN calls /\ TypeOK BY <1>1, CallIs
<1>5. Making(Call, c) BY <1>1, <1>2, <1>4 DEF FrameOK, Making
<1>6. Connecting(c) /\ work[c] = NIL BY <1>4, <1>5 DEF Inv, Frames
<1>7. Become(Delete(World, c)) BY <1>1, <1>2
<1>8. /\ Gentle(c) /\ conn'[c] = Blank /\ work'[c] = NIL
      /\ \A d \in Conns \ {c} : conn'[d] = conn[d] /\ work'[d] = work[d]
  BY <1>3, <1>7, GentlyDeleted
<1>9. \A d \in Conns : Softly(d) /\ work'[d] = work[d]
  <2>1. Softly(c) BY <1>6, <1>8, BlankRecord DEF Softly, Connecting
  <2>2. \A d \in Conns \ {c} : Softly(d) BY <1>8, SoftlySame
  <2> QED BY <1>6, <1>8, <2>1, <2>2
<1>10. active' \in BOOLEAN /\ timed' \in BOOLEAN /\ faults' \in 0 .. MaxFaults BY <1>1, <1>4 DEF TypeOK
<1>11. CASE Call.query = NIL
  <2>1. /\ Goto([Call EXCEPT !.step = "open", !.conn = NIL, !.new = FALSE, !.at = SizeMin])
        /\ UNCHANGED <<queue, fate>>
    BY <1>11 DEF NewConnectionFails, service
  <2>2. PICK f : f = [Call EXCEPT !.step = "open", !.conn = NIL, !.new = FALSE, !.at = SizeMin]
    OBVIOUS
  <2>3. f \in Frame /\ f.step = "open" /\ f.conn = NIL /\ f.query = Call.query /\ ~f.new /\ f.at = SizeMin
    BY <1>3, <2>2, SizeAssumption DEF Frame
  <2>4. Cardinality(FreeConns') \in Nat
    <3>1. FreeConns' \in SUBSET Conns BY DEF FreeConns
    <3> QED BY <3>1, SizeAssumption, FS_Subset, FS_CardinalityType
  <2>5. FrameOK(f)' BY <1>11, <2>3, <2>4, SizeAssumption DEF FrameOK, RoomFor
  <2>6. \A d \in Conns : ~Making(f, d) BY <2>3 DEF Making
  <2>7. f.step # "failing" /\ f.step \notin Callbacks /\ fate' = fate /\ queue' = queue /\ Goto(f)
    BY <2>1, <2>2, <2>3 DEF Callbacks
  <2> QED BY <1>1, <1>5, <1>8, <1>9, <1>10, <2>3, <2>5, <2>6, <2>7, Going
<1>12. CASE Call.query # NIL
  <2>1. StartThrows BY <1>12 DEF NewConnectionFails
  <2> QED BY <1>1, <1>5, <1>8, <1>9, <1>10, <1>12, <2>1, StartThrown
<1> QED BY <1>11, <1>12

-----------------------------------------------------------------------------
(* Queries that are given to a connection, queued, and let go.              *)

\* The query of a connection changes, and then the connection.
LEMMA GentlyWorked ==
  ASSUME ObjectsOK, Wired(World), NEW c \in Conns, c \in Members(pool), NEW q \in Queries \cup {NIL},
         NEW x, x = SetWork(World, c, q), NEW v, Serves(x, v, c), Become(v)
  PROVE  /\ Gentle(NIL) /\ pool' = pool /\ work' = [work EXCEPT ![c] = q] /\ conn' = v.conn
         /\ \A d \in Conns \ {c} : conn'[d] = conn[d]
<1>1. PICK o : o = World OBVIOUS
<1>2. /\ o \in Worlds /\ o.conn = conn /\ o.pool = pool /\ o.handler = handler /\ o.list = list
      /\ o.epoll = epoll /\ o.work = work
  BY <1>1, WorldOK DEF World
<1>3. /\ x \in Worlds /\ x.work = [work EXCEPT ![c] = q] /\ x.handler = handler /\ x.list = list
      /\ x.pool = pool /\ x.conn = conn
  <2>1. x = SetWork(o, c, q) BY <1>1
  <2>2. /\ x \in Worlds /\ x.work = [o.work EXCEPT ![c] = q]
        /\ x.handler = o.handler /\ x.list = o.list /\ x.pool = o.pool /\ x.conn = o.conn
    BY <1>2, <2>1, WorkSet
  <2> QED BY <1>2, <2>2
<1>4. v \in Worlds /\ Wired(v) BY DEF Serves
<1>5. ObjectsOK' /\ Wired(World)' BY <1>4, Became
<1>6. /\ pool' = v.pool /\ work' = v.work /\ handler' = v.handler /\ list' = v.list /\ conn' = v.conn
  BY DEF Become
<1>7. /\ v.pool = pool /\ v.work = x.work
      /\ \A d \in Conns \ {c} : v.conn[d] = conn[d]
      /\ \A h \in Handlers : handler[h].type # "none" =>
           /\ v.handler[h].type # "none" /\ v.handler[h].binding = handler[h].binding
           /\ handler[h].type = "etDelete" => v.handler[h].type = "etDelete"
      /\ \A i \in DOMAIN list : i \in DOMAIN v.list /\ v.list[i] = list[i]
  BY <1>3 DEF Serves, Keeps
<1>8. Gentle(NIL) BY <1>5, <1>6, <1>7 DEF Gentle
<1> QED BY <1>3, <1>6, <1>7, <1>8

\* The query and the status of a connection are set.
LEMMA Assigned ==
  ASSUME ObjectsOK, Wired(World), NEW c \in Conns, c \in Members(pool), NEW q \in Queries \cup {NIL},
         NEW st \in Statuses, NEW x, x = SetWork(World, c, q), NEW v, v = SetStatus(x, c, st)
  PROVE  /\ Serves(x, v, c) /\ v.conn[c].status = st /\ v.conn[c].pq = conn[c].pq
         /\ c \in Members(v.pool)
<1>1. PICK o : o = World OBVIOUS
<1>2. o \in Worlds /\ o.conn = conn /\ o.pool = pool /\ Wired(o) /\ conn[c] \in ConnRec
  BY <1>1, WorldOK DEF World, ObjectsOK
<1>3. /\ x \in Worlds /\ x.work = [o.work EXCEPT ![c] = q] /\ x.handler = o.handler /\ x.list = o.list
      /\ x.pool = o.pool /\ x.conn = o.conn /\ x.epoll = o.epoll
  <2>1. x = SetWork(o, c, q) BY <1>1
  <2> QED BY <1>2, <2>1, WorkSet
<1>4. Wired(x)
  <2>1. \A d \in Conns : d \notin Members(x.pool) => x.work[d] = o.work[d]
    BY <1>2, <1>3 DEF Worlds
  <2>2. \A d \in Conns : d \notin Members(x.pool) => x.conn[d] = Blank /\ x.work[d] = NIL
    BY <1>2, <1>3, <2>1 DEF Wired
  <2>3. \A h \in Handlers, s \in Fds : Watches(o, h, s) => Watches(x, h, s) BY <1>3 DEF Watches
  <2> QED BY <1>2, <1>3, <2>2, <2>3 DEF Wired
<1>5. PICK r : r = [x.conn[c] EXCEPT !.status = st] OBVIOUS
<1>6. /\ r \in ConnRec /\ r.fd = x.conn[c].fd /\ r.handler = x.conn[c].handler /\ r.pq = x.conn[c].pq
      /\ r.status = st
  BY <1>2, <1>3, <1>5 DEF ConnRec
<1>7. v = SetConn(x, c, r) BY <1>5 DEF SetStatus
<1>8. Serves(x, v, c) /\ v.conn[c] = r BY <1>2, <1>3, <1>4, <1>6, <1>7, RecordEdited
<1> QED BY <1>2, <1>3, <1>6, <1>8 DEF Serves, Keeps

\* The calls and the cursor after the innermost call has returned.
LEMMA WentBack ==
  ASSUME TypeOK, Wired(World), Frames, Cursor, calls # <<>>, Return,
         UNCHANGED <<pc, batch, cur, at>>, Gentle(NIL),
         \A i \in DOMAIN calls : \A d \in Conns : i # 1 /\ Making(calls[i], d) =>
           Connecting(d)' /\ work'[d] = NIL,
         pc \in {"executed", "notify", "fault"} =>
           conn'[cur.conn].status # "qsReady" \/ conn'[cur.conn].pq = "bad"
  PROVE  Frames' /\ Cursor'
<1>1. calls \in Seq(Frame) /\ calls' = Tail(calls) BY DEF TypeOK, Return
<1>2. /\ calls' \in Seq(Frame) /\ Len(calls') = Len(calls) - 1 /\ Len(calls) \in Nat
      /\ \A i \in DOMAIN calls' : /\ i \in Nat /\ i >= 1 /\ i + 1 \in DOMAIN calls /\ i + 1 # 1
                                  /\ calls'[i] = calls[i + 1]
  BY <1>1, FirstRemoved
<1>3. \A i \in DOMAIN calls' : FrameOK(calls[i])'
  <2> TAKE i \in DOMAIN calls'
  <2>1. i + 1 \in DOMAIN calls /\ i + 1 > 1 /\ calls'[i] = calls[i + 1] BY <1>2
  <2>2. FrameOK(calls[i + 1]) /\ calls[i + 1].step \in Callbacks BY <2>1 DEF Frames
  <2>3. calls'[i].conn # NIL => calls'[i].conn \in Members(pool')
    BY <2>1, <2>2, Distinct DEF FrameOK, Gentle
  <2> QED BY <2>1, <2>2, <2>3 DEF FrameOK, Callbacks
<1>4. ASSUME NEW i \in DOMAIN calls'
      PROVE  /\ calls'[i].step \in Callbacks
             /\ calls'[i].query = NIL => i = Len(calls')
  <2>1. i + 1 \in DOMAIN calls /\ i + 1 > 1 /\ calls'[i] = calls[i + 1] BY <1>2
  <2>2. calls[i + 1].step \in Callbacks /\ (calls[i + 1].query = NIL => i + 1 = Len(calls))
    BY <2>1 DEF Frames
  <2> QED BY <1>2, <2>1, <2>2
<1>5. ASSUME NEW i \in DOMAIN calls', NEW j \in DOMAIN calls', NEW d \in Conns,
             Making(calls'[i], d), calls'[j].step \in Callbacks, calls'[j].conn = d
      PROVE  i = j
  <2>1. i + 1 \in DOMAIN calls /\ j + 1 \in DOMAIN calls BY <1>2
  <2>2. Making(calls[i + 1], d) /\ calls[j + 1].step \in Callbacks /\ calls[j + 1].conn = d
    BY <1>2, <1>5
  <2>3. i + 1 = j + 1 BY <2>1, <2>2 DEF Frames
  <2> QED BY <1>2, <2>3
<1>6. \A i \in DOMAIN calls' : \A d \in Conns : Making(calls'[i], d) => Connecting(d)' /\ work'[d] = NIL
  BY <1>2
<1>7. Frames' BY <1>3, <1>4, <1>5, <1>6 DEF Frames, Making, Connecting
<1>8. ASSUME Dispatching
      PROVE  /\ cur.conn \in Conns /\ cur.handler \in Handlers
             /\ handler'[cur.handler].binding = cur.conn
             /\ \A h \in batch : handler'[h].binding # cur.conn
             /\ \A i \in DOMAIN calls' : ~Making(calls'[i], cur.conn)
             /\ \A i \in DOMAIN calls' : calls'[i].step = "failing" => calls'[i].conn # cur.conn
  <2>1. /\ cur.conn \in Conns /\ cur.handler \in Handlers /\ handler[cur.handler].type # "none"
    BY <1>8, CursorThere
  <2>2. handler'[cur.handler].binding = cur.conn BY <1>8, <2>1, Distinct DEF Cursor, Gentle
  <2>3. \A h \in batch : handler'[h].binding # cur.conn
    <3> TAKE h \in batch
    <3>1. h \in Handlers BY DEF TypeOK
    <3>2. handler[h].type # "none" /\ handler[h].binding # cur.conn BY <1>8 DEF Cursor
    <3> QED BY <2>1, <3>1, <3>2, Distinct DEF Gentle
  <2>4. \A i \in DOMAIN calls' :
          ~Making(calls'[i], cur.conn) /\ (calls'[i].step = "failing" => calls'[i].conn # cur.conn)
    BY <1>2, <1>8 DEF Cursor
  <2> QED BY <2>1, <2>2, <2>3, <2>4
<1>9. pc \notin {"write", "shrink", "pack", "clear", "undefined"} BY DEF Cursor
<1>10. \A h \in batch : /\ handler'[h].type # "none"
                        /\ handler'[h].binding \in Conns => handler'[h].binding = handler[h].binding
  <2> TAKE h \in batch
  <2>1. h \in Handlers BY DEF TypeOK
  <2>2. handler[h].type # "none" BY DEF Cursor
  <2> QED BY <2>1, <2>2, Distinct DEF Gentle
<1>11. \A h, k \in batch : handler'[h].binding \in Conns /\ handler'[h].binding = handler'[k].binding => h = k
  BY <1>10 DEF Cursor
<1>12. Cursor' BY <1>8, <1>9, <1>10, <1>11 DEF Cursor, Dispatching
<1> QED BY <1>7, <1>12

LEMMA ReadyVisited ==
  ASSUME Inv, Scanning, Ready(Visited)
  PROVE  /\ conn[Visited].status = "qsReady" /\ conn[Visited].pq = "ok"
         /\ pc \in {"executed", "notify", "fault"} => cur.conn # Visited
BY DEF Inv, Ready, Cursor

LEMMA QueryStartOK ==
  ASSUME Inv, QueryStart
  PROVE  Inv' /\ (SizeMin > 0 /\ Busy /\ Told => Busy' /\ Told')
<1>1. /\ calls # <<>> /\ Call.step = "scan" /\ Call.query \in Queries
      /\ Visited \in Conns /\ Visited \in Members(pool) /\ ObjectsOK /\ Wired(World)
  BY ScanIs DEF QueryStart
<1>2. PICK c \in Conns : c = Visited BY <1>1
<1>3. PICK q \in Queries : q = Call.query BY <1>1
<1>4. /\ conn[c].status = "qsReady" /\ conn[c].pq = "ok"
      /\ pc \in {"executed", "notify", "fault"} => cur.conn # c
  BY <1>2, ReadyVisited DEF QueryStart
<1>5. /\ TypeOK /\ Frames /\ Cursor /\ WaitHasWork /\ Once BY DEF Inv
<1>6. /\ Return /\ UNCHANGED <<queue, fate, pc, batch, cur, at, active, timed, faults>>
      /\ Become(SetStatus(SetWork(World, c, q), c, "qsWait"))
  BY <1>2, <1>3 DEF QueryStart, service, life, loop
<1>7. /\ Gentle(NIL) /\ work' = [work EXCEPT ![c] = q]
      /\ conn'[c].status = "qsWait" /\ conn'[c].pq = "ok"
      /\ \A d \in Conns \ {c} : conn'[d] = conn[d]
  <2>1. PICK x : x = SetWork(World, c, q) OBVIOUS
  <2>2. PICK v : v = SetStatus(x, c, "qsWait") OBVIOUS
  <2>3. c \in Members(pool) /\ "qsWait" \in Statuses BY <1>1, <1>2 DEF Statuses
  <2>4. Serves(x, v, c) /\ v.conn[c].status = "qsWait" /\ v.conn[c].pq = conn[c].pq
    BY <1>1, <2>1, <2>2, <2>3, Assigned
  <2>5. Become(v) BY <1>6, <2>1, <2>2
  <2> QED BY <1>1, <1>4, <2>1, <2>3, <2>4, <2>5, GentlyWorked
<1>8. work'[c] = q /\ \A d \in Conns \ {c} : work'[d] = work[d]
  <2>1. work \in [Conns -> Queries \cup {NIL}] BY <1>5 DEF TypeOK
  <2> QED BY <1>7, <2>1
<1>9. calls[1] = Call /\ 1 \in DOMAIN calls BY <1>1, CallIs
<1>10. Asked(1, q) BY <1>1, <1>3, <1>9 DEF Asked
<1>11. /\ calls' \in Seq(Frame)
       /\ \A i \in DOMAIN calls' : i \in Nat /\ i >= 1 /\ i + 1 \in DOMAIN calls /\ calls'[i] = calls[i + 1]
  <2>1. calls \in Seq(Frame) /\ calls' = Tail(calls) BY <1>5, <1>6 DEF TypeOK, Return
  <2> QED BY <1>1, <2>1, FirstRemoved
<1>12. Frames' /\ Cursor'
  <2>1. \A i \in DOMAIN calls : \A d \in Conns : i # 1 /\ Making(calls[i], d) =>
          Connecting(d)' /\ work'[d] = NIL
    BY <1>4, <1>5, <1>7, <1>8 DEF Frames, Connecting
  <2>2. pc \in {"executed", "notify", "fault"} =>
          conn'[cur.conn].status # "qsReady" \/ conn'[cur.conn].pq = "bad"
    <3> HAVE pc \in {"executed", "notify", "fault"}
    <3>1. cur.conn \in Conns /\ cur.conn # c /\ (conn[cur.conn].status # "qsReady" \/ conn[cur.conn].pq = "bad")
      BY <1>4, <1>5 DEF Cursor, Dispatching
    <3> QED BY <1>7, <3>1
  <2> QED BY <1>1, <1>5, <1>6, <1>7, <2>1, <2>2, WentBack
<1>13. TypeOK'
  <2>1. queue' \in Seq(Queries) /\ fate' \in [Queries -> {"new", "pending", "executed", "failed"}]
        /\ active' \in BOOLEAN /\ timed' \in BOOLEAN /\ faults' \in 0 .. MaxFaults
    BY <1>5, <1>6 DEF TypeOK
  <2> QED BY <1>5, <1>6, <1>7, <1>11, <2>1, TypesKept DEF Gentle
<1>14. WaitHasWork' BY <1>5, <1>6, <1>7, <1>8, Distinct DEF WaitHasWork, InFlight
<1>15. Once'
  <2>1. InFlight' = InFlight \cup {c} BY <1>8, Distinct DEF InFlight
  <2>2. q \notin Members(queue) /\ (\A d \in Conns : work[d] # q)
        /\ \A j \in DOMAIN calls : calls[j].query = q => 1 = j
    BY <1>5, <1>9, <1>10 DEF Once
  <2>3. \A d, e \in InFlight' : work'[d] = work'[e] => d = e
    BY <1>5, <1>8, <2>1, <2>2 DEF Once, InFlight
  <2>4. \A d \in InFlight' : work'[d] \notin Members(queue)
    BY <1>5, <1>8, <2>1, <2>2 DEF Once, InFlight
  <2>5. ASSUME NEW i \in DOMAIN calls', NEW p \in Queries, Asked(i, p)'
        PROVE  /\ p \notin Members(queue)
               /\ \A d \in Conns : work'[d] # p
               /\ \A j \in DOMAIN calls' : calls'[j].query = p => i = j
    <3>1. Asked(i + 1, p) /\ calls[i + 1].query = p /\ i + 1 # 1 BY <1>11, <2>5 DEF Asked
    <3>2. p # q BY <1>11, <2>2, <3>1
    <3>3. /\ p \notin Members(queue)
          /\ \A d \in Conns : work[d] # p
          /\ \A j \in DOMAIN calls : calls[j].query = p => i + 1 = j
      BY <1>5, <1>11, <3>1 DEF Once
    <3> QED BY SMTT(30), <1>8, <1>11, <3>2, <3>3
  <2>6. ASSUME NEW p \in Queries, fate'[p] = "new"
        PROVE  /\ p \notin Members(queue)
               /\ \A d \in Conns : work'[d] # p
               /\ \A i \in DOMAIN calls' : calls'[i].query # p
    <3>1. fate[p] = "new" BY <1>6, <2>6
    <3>2. p # q BY <1>3, <1>5, <1>9, <3>1 DEF Once
    <3> QED BY <1>5, <1>8, <1>11, <3>1, <3>2 DEF Once
  <2> QED BY <1>5, <1>6, <2>3, <2>4, <2>5, <2>6 DEF Once
<1>16. ASSUME Busy, Told PROVE Busy' /\ Told'
  <2>1. ASSUME NEW d \in Conns, Failing(d) PROVE Failing(d)'
    <3>1. PICK i \in DOMAIN calls : calls[i].step = "failing" /\ calls[i].conn = d BY <2>1 DEF Failing
    <3>2. i # 1 BY <1>1, <1>9, <3>1
    <3>3. i \in Nat /\ i - 1 \in DOMAIN calls' /\ calls'[i - 1] = calls[i]
      <4>1. calls \in Seq(Frame) /\ calls' = Tail(calls) BY <1>5, <1>6 DEF TypeOK, Return
      <4>2. i \in 2 .. Len(calls) BY <3>2, <4>1
      <4>3. i - 1 \in 1 .. Len(calls') /\ DOMAIN calls' = 1 .. Len(calls')
        BY <1>1, <1>11, <4>1, <4>2, FirstRemoved
      <4>4. calls'[i - 1] = calls[i - 1 + 1] BY <1>11, <4>3
      <4> QED BY <4>2, <4>3, <4>4
    <3> QED BY <3>1, <3>3 DEF Failing
  <2>2. InFlight' = InFlight \cup {c} BY <1>8, Distinct DEF InFlight
  <2>3. Busy'
    <3>1. ASSUME NEW d \in InFlight'
          PROVE  \/ conn'[d].status = "qsWait" /\ conn'[d].pq = "ok"
                 \/ Failing(d)'
                 \/ /\ conn'[d].status # "qsReady"
                    /\ (pc' \in {"executed", "fault"} /\ cur'.conn = d) \/ Doomed(d)'
      <4>1. CASE d = c BY <1>7, <4>1
      <4>2. CASE d # c
        <5>1. d \in Conns /\ work[d] # NIL /\ Softly(d) /\ d # NIL /\ d \in InFlight
          BY <1>7, <2>2, <4>2, SoftlySame, Distinct DEF InFlight
        <5>2. \/ conn[d].status = "qsWait" /\ conn[d].pq = "ok"
              \/ Failing(d)
              \/ conn[d].status # "qsReady" /\ ((pc \in {"executed", "fault"} /\ cur.conn = d) \/ Doomed(d))
          BY <1>16, <5>1 DEF Busy
        <5> QED BY <1>1, <1>5, <1>6, <1>7, <2>1, <5>1, <5>2, StillBusy
      <4> QED BY <4>1, <4>2
    <3>2. pc = "notify" => work'[cur.conn] = NIL
      BY <1>4, <1>5, <1>8, <1>16 DEF Busy, Cursor, Dispatching
    <3> QED BY <1>6, <3>1, <3>2 DEF Busy
  <2>4. fate[q] = "pending" BY <1>1, <1>3, <1>9, <1>16, Distinct DEF Told
  <2>5. \A i \in DOMAIN calls' : calls'[i].query # NIL =>
          fate[calls'[i].query] = IF calls'[i].step = "failing" THEN "failed" ELSE "pending"
    BY <1>11, <1>16 DEF Told
  <2>6. ASSUME NEW d \in InFlight'
        PROVE  \/ fate[work'[d]] = "pending" /\ conn'[d].status # "qsReady"
               \/ fate[work'[d]] = "executed" /\ pc' = "executed" /\ cur'.conn = d
               \/ fate[work'[d]] = "failed" /\ Failing(d)'
    <3>1. CASE d = c BY <1>7, <1>8, <2>4, <3>1
    <3>2. CASE d # c
      <4>1. d \in Conns /\ d \in InFlight /\ conn'[d] = conn[d] /\ work'[d] = work[d]
        BY <1>7, <1>8, <2>2, <3>2 DEF InFlight
      <4> QED BY <1>6, <1>16, <2>1, <4>1 DEF Told
    <3> QED BY <3>1, <3>2
  <2>7. Told' BY <1>6, <1>16, <2>5, <2>6 DEF Told
  <2> QED BY <2>3, <2>7
<1>17. Wired(World)' BY <1>7 DEF Gentle
<1> QED BY <1>12, <1>13, <1>14, <1>15, <1>16, <1>17 DEF Inv

-----------------------------------------------------------------------------
(* Calls that return.                                                       *)

\* The calls around the innermost one stay where they were.
LEMMA Returned ==
  ASSUME TypeOK, calls # <<>>, Return
  PROVE  /\ calls' \in Seq(Frame)
         /\ \A i \in DOMAIN calls' : i \in Nat /\ i >= 1 /\ i + 1 \in DOMAIN calls /\ calls'[i] = calls[i + 1]
         /\ \A i \in DOMAIN calls : i # 1 =>
              i \in Nat /\ i - 1 \in DOMAIN calls' /\ calls'[i - 1] = calls[i]
<1>1. calls \in Seq(Frame) /\ calls' = Tail(calls) BY DEF TypeOK, Return
<1>2. /\ calls' \in Seq(Frame) /\ Len(calls') = Len(calls) - 1
      /\ \A i \in DOMAIN calls' : i \in Nat /\ i >= 1 /\ i + 1 \in DOMAIN calls /\ calls'[i] = calls[i + 1]
  BY <1>1, FirstRemoved
<1>3. ASSUME NEW i \in DOMAIN calls, i # 1
      PROVE  i \in Nat /\ i - 1 \in DOMAIN calls' /\ calls'[i - 1] = calls[i]
  <2>1. i \in 2 .. Len(calls) BY <1>1, <1>3
  <2>2. i - 1 \in 1 .. Len(calls') /\ DOMAIN calls' = 1 .. Len(calls') BY <1>1, <1>2, <2>1
  <2>3. calls'[i - 1] = calls[i - 1 + 1] BY <1>2, <2>2
  <2> QED BY <2>1, <2>2, <2>3
<1> QED BY <1>2, <1>3

\* Start has queued its query, or has failed; in the second case connection c is let go.
LEMMA ReturnedOK ==
  ASSUME Inv, calls # <<>>, Return, UNCHANGED <<fate, pc, batch, cur, at>>, Gentle(NIL),
         NEW c \in Conns \cup {NIL},
         \A d \in Conns \ {c} : conn'[d] = conn[d] /\ work'[d] = work[d],
         Call.step = "failing" => Call.conn = c,
         c # NIL => Call.step = "failing" /\ conn'[c].status = "qsReady" /\ work'[c] = NIL,
         \/ queue' = queue
         \/ queue' = Append(queue, Call.query) /\ Call.query \in Queries /\ Call.step = "park",
         active' \in BOOLEAN, timed' \in BOOLEAN, faults' \in 0 .. MaxFaults
  PROVE  Inv' /\ (SizeMin > 0 /\ Busy /\ Told => Busy' /\ Told')
<1>1. TypeOK /\ Wired(World) /\ Frames /\ Cursor /\ WaitHasWork /\ Once BY DEF Inv
<1>2. calls[1] = Call /\ 1 \in DOMAIN calls BY CallIs
<1>3. /\ calls' \in Seq(Frame)
      /\ \A i \in DOMAIN calls' : i \in Nat /\ i >= 1 /\ i + 1 \in DOMAIN calls /\ calls'[i] = calls[i + 1]
      /\ \A i \in DOMAIN calls : i # 1 => i - 1 \in DOMAIN calls' /\ calls'[i - 1] = calls[i]
  BY <1>1, Returned
<1>4. \A d \in InFlight' : d # c /\ d \in Conns /\ d \in InFlight
  <2> TAKE d \in InFlight'
  <2>1. d \in Conns /\ work'[d] # NIL BY DEF InFlight
  <2>2. d # c BY <2>1, Distinct
  <2> QED BY <2>1, <2>2 DEF InFlight
<1>5. Dispatching => cur.conn \in Conns /\ cur.conn # c
  BY <1>1, <1>2, Distinct DEF Cursor
<1>6. Frames' /\ Cursor'
  <2>1. ASSUME NEW i \in DOMAIN calls, NEW d \in Conns, i # 1, Making(calls[i], d)
        PROVE  Connecting(d)' /\ work'[d] = NIL
    <3>1. Connecting(d) /\ work[d] = NIL BY <1>1, <2>1 DEF Frames
    <3>2. d # c BY <1>1, <1>2, <2>1, Distinct DEF Frames, Callbacks
    <3> QED BY <3>1, <3>2 DEF Connecting
  <2>2. pc \in {"executed", "notify", "fault"} =>
          conn'[cur.conn].status # "qsReady" \/ conn'[cur.conn].pq = "bad"
    BY <1>1, <1>5 DEF Cursor, Dispatching
  <2> QED BY <1>1, <2>1, <2>2, WentBack
<1>7. queue \in Seq(Queries) BY <1>1 DEF TypeOK
<1>8. PICK S \in SUBSET Queries :
        /\ queue' \in Seq(Queries) /\ NoDuplicates(queue') /\ Members(queue') = Members(queue) \cup S
        /\ \A q \in S : q = Call.query /\ Asked(1, q)
  <2>1. CASE queue' = queue
    <3>1. {} \in SUBSET Queries /\ Members(queue') = Members(queue) \cup {} BY <2>1
    <3> QED BY <1>1, <1>7, <2>1, <3>1 DEF Once
  <2>2. CASE queue' = Append(queue, Call.query) /\ Call.query \in Queries /\ Call.step = "park"
    <3>1. Asked(1, Call.query) BY <1>2, <2>2 DEF Asked
    <3>2. Call.query \notin Members(queue) /\ NoDuplicates(queue) BY <1>1, <1>2, <2>2, <3>1 DEF Once
    <3>3. /\ queue' \in Seq(Queries) /\ NoDuplicates(queue')
          /\ Members(queue') = Members(queue) \cup {Call.query}
      BY <1>7, <2>2, <3>2, Appended
    <3>4. {Call.query} \in SUBSET Queries BY <2>2
    <3> QED BY <3>1, <3>3, <3>4
  <2> QED BY <2>1, <2>2
<1>9. \A q \in S : /\ \A d \in Conns : work[d] # q
                   /\ \A j \in DOMAIN calls : calls[j].query = q => 1 = j
  BY <1>1, <1>2, <1>8 DEF Once
<1>10. TypeOK'
  <2>1. fate' \in [Queries -> {"new", "pending", "executed", "failed"}] BY <1>1 DEF TypeOK
  <2> QED BY <1>1, <1>3, <1>8, <2>1, TypesKept DEF Gentle
<1>11. WaitHasWork'
  <2>1. \A d \in Conns \ InFlight' : conn'[d].status = "qsWait" => d # c /\ conn'[d] = conn[d] /\ d \notin InFlight
    <3> TAKE d \in Conns \ InFlight'
    <3> HAVE conn'[d].status = "qsWait"
    <3>1. work'[d] = NIL BY DEF InFlight
    <3>2. d # c BY Distinct
    <3> QED BY <3>1, <3>2 DEF InFlight
  <2> QED BY <1>1, <2>1 DEF WaitHasWork
<1>12. Once'
  <2>1. \A d, e \in InFlight' : work'[d] = work'[e] => d = e BY <1>1, <1>4 DEF Once
  <2>2. \A d \in InFlight' : work'[d] \notin Members(queue') BY <1>1, <1>4, <1>8, <1>9 DEF Once
  <2>3. ASSUME NEW i \in DOMAIN calls', NEW p \in Queries, Asked(i, p)'
        PROVE  /\ p \notin Members(queue')
               /\ \A d \in Conns : work'[d] # p
               /\ \A j \in DOMAIN calls' : calls'[j].query = p => i = j
    <3>1. Asked(i + 1, p) /\ calls[i + 1].query = p /\ i + 1 # 1 /\ i + 1 \in DOMAIN calls
      BY <1>3, <2>3 DEF Asked
    <3>2. ASSUME p \in S PROVE FALSE
      <4>1. \A j \in DOMAIN calls : calls[j].query = p => 1 = j BY <1>9, <3>2
      <4> QED BY <3>1, <4>1
    <3>3. /\ p \notin Members(queue)
          /\ \A d \in Conns : work[d] # p
          /\ \A j \in DOMAIN calls : calls[j].query = p => i + 1 = j
      BY <1>1, <3>1 DEF Once
    <3>4. \A d \in Conns : work'[d] # p BY <3>3, Distinct
    <3>5. \A j \in DOMAIN calls' : calls'[j].query = p => i = j
      <4> TAKE j \in DOMAIN calls'
      <4> HAVE calls'[j].query = p
      <4>1. j \in Nat /\ i \in Nat /\ j + 1 \in DOMAIN calls /\ calls[j + 1].query = p BY <1>3
      <4> QED BY <3>3, <4>1
    <3> QED BY <1>8, <3>2, <3>3, <3>4, <3>5
  <2>4. ASSUME NEW p \in Queries, fate'[p] = "new"
        PROVE  /\ p \notin Members(queue')
               /\ \A d \in Conns : work'[d] # p
               /\ \A i \in DOMAIN calls' : calls'[i].query # p
    <3>1. fate[p] = "new" BY <2>4
    <3>2. p \notin S BY <1>1, <1>2, <1>8, <3>1 DEF Once
    <3>3. \A d \in Conns : work'[d] # p BY <1>1, <3>1, Distinct DEF Once
    <3>4. \A i \in DOMAIN calls' : calls'[i].query # p BY <1>1, <1>3, <3>1 DEF Once
    <3> QED BY <1>1, <1>8, <3>1, <3>2, <3>3, <3>4 DEF Once
  <2> QED BY <1>8, <2>1, <2>2, <2>3, <2>4 DEF Once
<1>13. ASSUME Busy, Told PROVE Busy' /\ Told'
  <2>1. ASSUME NEW d \in InFlight', Failing(d) PROVE Failing(d)'
    <3>1. PICK i \in DOMAIN calls : calls[i].step = "failing" /\ calls[i].conn = d BY <2>1 DEF Failing
    <3>2. i # 1 BY <1>2, <1>4, <3>1
    <3> QED BY <1>3, <3>1, <3>2 DEF Failing
  <2>2. Busy'
    <3>1. ASSUME NEW d \in InFlight'
          PROVE  \/ conn'[d].status = "qsWait" /\ conn'[d].pq = "ok"
                 \/ Failing(d)'
                 \/ /\ conn'[d].status # "qsReady"
                    /\ (pc' \in {"executed", "fault"} /\ cur'.conn = d) \/ Doomed(d)'
      <4>1. /\ d \in Conns /\ work[d] # NIL /\ Softly(d) /\ d # NIL /\ d \in InFlight
            /\ Failing(d) => Failing(d)'
        BY <1>4, <2>1, SoftlySame, Distinct DEF InFlight
      <4>2. \/ conn[d].status = "qsWait" /\ conn[d].pq = "ok"
            \/ Failing(d)
            \/ conn[d].status # "qsReady" /\ ((pc \in {"executed", "fault"} /\ cur.conn = d) \/ Doomed(d))
        BY <1>13, <4>1 DEF Busy
      <4> QED BY <1>1, <4>1, <4>2, StillBusy
    <3>2. pc = "notify" => work'[cur.conn] = NIL
      BY <1>5, <1>13 DEF Busy, Dispatching
    <3> QED BY <3>1, <3>2 DEF Busy
  <2>3. \A q \in Members(queue') : fate[q] = "pending"
    <3>1. \A q \in S : fate[q] = "pending"
      <4> TAKE q \in S
      <4>1. calls[1].query = q /\ calls[1].step # "failing" /\ q # NIL BY <1>8, Distinct DEF Asked
      <4> QED BY <1>2, <1>13, <4>1 DEF Told
    <3> QED BY <1>8, <1>13, <3>1 DEF Told
  <2>4. \A i \in DOMAIN calls' : calls'[i].query # NIL =>
          fate[calls'[i].query] = IF calls'[i].step = "failing" THEN "failed" ELSE "pending"
    BY <1>3, <1>13 DEF Told
  <2>5. \A d \in InFlight' :
          \/ fate[work'[d]] = "pending" /\ conn'[d].status # "qsReady"
          \/ fate[work'[d]] = "executed" /\ pc' = "executed" /\ cur'.conn = d
          \/ fate[work'[d]] = "failed" /\ Failing(d)'
    BY <1>4, <1>13, <2>1 DEF Told
  <2>6. Told' BY <2>3, <2>4, <2>5 DEF Told
  <2> QED BY <2>2, <2>6
<1>14. Wired(World)' BY DEF Gentle
<1> QED BY <1>6, <1>10, <1>11, <1>12, <1>13, <1>14 DEF Inv

LEMMA ParkOK ==
  ASSUME Inv, Park
  PROVE  Inv' /\ (SizeMin > 0 /\ Busy /\ Told => Busy' /\ Told')
<1>1. /\ calls # <<>> /\ Call.step = "park" /\ UNCHANGED objects
      /\ UNCHANGED <<pc, batch, cur, at, active, timed, faults>>
  BY DEF Park, InCall, life, loop
<1>2. /\ FrameOK(Call) /\ Call.query \in Queries \cup {NIL} /\ TypeOK /\ Wired(World) /\ ObjectsOK
  BY <1>1, CallIs
<1>3. Call.query \in Queries BY <1>1, <1>2 DEF FrameOK
<1>4. Gentle(NIL) /\ \A d \in Conns : conn'[d] = conn[d] /\ work'[d] = work[d]
  BY <1>1, <1>2, GentlyUnchanged DEF objects
<1>5. active' \in BOOLEAN /\ timed' \in BOOLEAN /\ faults' \in 0 .. MaxFaults BY <1>1, <1>2 DEF TypeOK
<1>6. CASE QueueCount = QueueMax
  <2>1. StartThrows BY <1>6 DEF Park
  <2>2. \A d \in Conns : Softly(d) /\ work'[d] = work[d] BY <1>4, SoftlySame
  <2> QED BY <1>1, <1>3, <1>4, <1>5, <2>1, <2>2, StartThrown, Distinct
<1>7. CASE QueueCount # QueueMax
  <2>1. queue' = Append(queue, Call.query) /\ Return /\ fate' = fate BY <1>7 DEF Park
  <2>2. NIL \in Conns \cup {NIL} /\ Call.step # "failing" BY <1>1
  <2> QED BY <1>1, <1>3, <1>4, <1>5, <2>1, <2>2, ReturnedOK
<1> QED BY <1>6, <1>7

LEMMA StartFailsOK ==
  ASSUME Inv, StartFails
  PROVE  Inv' /\ (SizeMin > 0 /\ Busy /\ Told => Busy' /\ Told')
<1>1. /\ calls # <<>> /\ Call.step = "failing" /\ Return
      /\ UNCHANGED <<pc, batch, cur, at, active, timed, faults, queue, fate>>
  BY DEF StartFails, InCall, life, loop, service
<1>2. /\ FrameOK(Call) /\ Call.conn \in Conns \cup {NIL} /\ TypeOK /\ Wired(World) /\ ObjectsOK
  BY <1>1, CallIs
<1>3. active' \in BOOLEAN /\ timed' \in BOOLEAN /\ faults' \in 0 .. MaxFaults BY <1>1, <1>2 DEF TypeOK
<1>4. CASE Call.conn = NIL
  <2>1. UNCHANGED objects BY <1>4 DEF StartFails
  <2>2. Gentle(NIL) /\ \A d \in Conns : conn'[d] = conn[d] /\ work'[d] = work[d]
    BY <1>2, <2>1, GentlyUnchanged DEF objects
  <2>3. NIL \in Conns \cup {NIL} OBVIOUS
  <2> QED BY <1>1, <1>3, <1>4, <2>2, <2>3, ReturnedOK
<1>5. CASE Call.conn # NIL
  <2>1. PICK c \in Conns : c = Call.conn BY <1>2, <1>5
  <2>2. c \in Members(pool) /\ "qsReady" \in Statuses /\ NIL \in Queries \cup {NIL} /\ c \in Conns \cup {NIL}
    BY <1>2, <1>5, <2>1 DEF FrameOK, Statuses
  <2>3. PICK x : x = SetWork(World, c, NIL) OBVIOUS
  <2>4. PICK v : v = SetStatus(x, c, "qsReady") OBVIOUS
  <2>5. Become(v) BY <1>5, <2>1, <2>3, <2>4 DEF StartFails, QueryStop
  <2>6. Serves(x, v, c) /\ v.conn[c].status = "qsReady" BY <1>2, <2>2, <2>3, <2>4, Assigned
  <2>7. /\ Gentle(NIL) /\ work' = [work EXCEPT ![c] = NIL] /\ conn' = v.conn
        /\ \A d \in Conns \ {c} : conn'[d] = conn[d]
    BY <1>2, <2>2, <2>3, <2>5, <2>6, GentlyWorked
  <2>8. work \in [Conns -> Queries \cup {NIL}] BY <1>2 DEF TypeOK
  <2>9. work'[c] = NIL /\ conn'[c].status = "qsReady" /\ \A d \in Conns \ {c} : work'[d] = work[d]
    BY <2>6, <2>7, <2>8
  <2> QED BY <1>1, <1>3, <2>1, <2>2, <2>7, <2>9, ReturnedOK
<1> QED BY <1>4, <1>5

LEMMA QueryStartThrowsOK ==
  ASSUME Inv, QueryStartThrows
  PROVE  Inv' /\ (SizeMin > 0 /\ Busy /\ Told => Busy' /\ Told')
<1>1. /\ calls # <<>> /\ Call.step = "scan" /\ Call.query \in Queries /\ ~Call.new
      /\ Visited \in Conns /\ Visited \in Members(pool) /\ ObjectsOK /\ Wired(World)
  BY ScanIs DEF QueryStartThrows
<1>2. PICK c \in Conns : c = Visited BY <1>1
<1>3. PICK q \in Queries : q = Call.query BY <1>1
<1>4. /\ conn[c].status = "qsReady" /\ conn[c].pq = "ok"
      /\ pc \in {"executed", "notify", "fault"} => cur.conn # c
  BY <1>2, ReadyVisited DEF QueryStartThrows
<1>5. /\ TypeOK /\ Frames /\ Cursor /\ WaitHasWork /\ Once BY DEF Inv
<1>6. /\ UNCHANGED <<queue, pc, batch, cur, at, active, timed>>
      /\ Disturb(1) /\ fate' = [fate EXCEPT ![q] = "failed"]
  BY <1>2, <1>3 DEF QueryStartThrows, life, loop
<1>7. PICK st \in {"qsReady", "qsWait"} :
        LET w == SetStatus(SetWork(World, c, q), c, st)
        IN Become(w) \/ Become(Moves(w, c, "bad", NIL))
  BY <1>2, <1>3 DEF QueryStartThrows
<1>8. /\ Gentle(NIL) /\ work' = [work EXCEPT ![c] = q]
      /\ \A d \in Conns \ {c} : conn'[d] = conn[d]
  <2>1. PICK x : x = SetWork(World, c, q) OBVIOUS
  <2>2. PICK v : v = SetStatus(x, c, st) OBVIOUS
  <2>3. c \in Members(pool) /\ st \in Statuses BY <1>1, <1>2 DEF Statuses
  <2>4. Serves(x, v, c) /\ c \in Members(v.pool) BY <1>1, <2>1, <2>2, <2>3, Assigned
  <2>5. PICK u : u = Moves(v, c, "bad", NIL) OBVIOUS
  <2>6. Serves(v, u, c)
    <3>1. v \in Worlds /\ Wired(v) BY <2>4 DEF Serves
    <3> QED BY <2>4, <2>5, <3>1, SocketMoved
  <2>7. Serves(x, u, c) BY <2>4, <2>6, ServesTwice
  <2>8. Become(v) \/ Become(u) BY <1>7, <2>1, <2>2, <2>5
  <2>9. CASE Become(v) BY <1>1, <2>1, <2>3, <2>4, <2>9, GentlyWorked
  <2>10. CASE Become(u) BY <1>1, <2>1, <2>3, <2>7, <2>10, GentlyWorked
  <2> QED BY <2>8, <2>9, <2>10
<1>9. work'[c] = q /\ \A d \in Conns \ {c} : work'[d] = work[d]
  <2>1. work \in [Conns -> Queries \cup {NIL}] BY <1>5 DEF TypeOK
  <2> QED BY <1>8, <2>1
<1>10. PICK f : f = [Call EXCEPT !.step = "failing", !.conn = c] OBVIOUS
<1>11. /\ f \in Frame /\ f.step = "failing" /\ f.conn = c /\ f.query = Call.query /\ ~f.new
       /\ Goto(f)
  <2>1. Call \in Frame BY <1>1, CallIs
  <2>2. Goto(f) BY <1>2, <1>10 DEF QueryStartThrows
  <2> QED BY <1>1, <1>10, <2>1, <2>2 DEF Frame
<1>12. /\ calls' \in Seq(Frame) /\ Len(calls') = Len(calls)
       /\ DOMAIN calls' = DOMAIN calls /\ 1 \in DOMAIN calls
       /\ calls'[1] = f /\ calls[1] = Call
       /\ \A i \in DOMAIN calls : i # 1 => calls'[i] = calls[i]
  BY <1>1, <1>5, <1>11, WentTo
<1>13. Asked(1, q) BY <1>1, <1>3, <1>12 DEF Asked
<1>14. /\ q \notin Members(queue) /\ \A d \in Conns : work[d] # q
       /\ \A j \in DOMAIN calls : calls[j].query = q => 1 = j
  BY <1>5, <1>12, <1>13 DEF Once
<1>15. Frames' /\ Cursor'
  <2>1. c \in Members(pool') BY <1>1, <1>2, <1>8, Distinct DEF Gentle
  <2>2. FrameOK(f)' BY <1>1, <1>11, <2>1, Distinct DEF FrameOK
  <2>3. \A d \in Conns : ~Making(f, d) BY <1>11 DEF Making
  <2>4. \A d \in Conns : Connecting(d) /\ work[d] = NIL => Connecting(d)' /\ work'[d] = NIL
    BY <1>4, <1>8, <1>9 DEF Connecting
  <2>5. \A d \in Conns : conn'[d].status = "qsReady" =>
           conn[d].status = "qsReady" /\ (conn[d].pq = "bad" => conn'[d].pq = "bad")
    BY <1>4, <1>8
  <2>6. UNCHANGED <<pc, batch, cur, at>> /\ Wired(World) BY <1>1, <1>6
  <2> QED BY <1>1, <1>4, <1>5, <1>8, <1>11, <2>2, <2>3, <2>4, <2>5, <2>6, Went
<1>16. TypeOK'
  <2>1. fate' \in [Queries -> {"new", "pending", "executed", "failed"}]
        /\ queue' \in Seq(Queries) /\ active' \in BOOLEAN /\ timed' \in BOOLEAN
    BY <1>5, <1>6 DEF TypeOK
  <2>2. faults' \in 0 .. MaxFaults BY <1>5, <1>6, LimitAssumption DEF TypeOK, Disturb
  <2> QED BY <1>5, <1>6, <1>8, <1>12, <2>1, <2>2, TypesKept DEF Gentle
<1>17. WaitHasWork' BY <1>5, <1>6, <1>8, <1>9, Distinct DEF WaitHasWork, InFlight
<1>18. fate'[q] = "failed" /\ \A p \in Queries : p # q => fate'[p] = fate[p]
  BY <1>5, <1>6 DEF TypeOK
<1>19. InFlight' = InFlight \cup {c} BY <1>9, Distinct DEF InFlight
<1>20. \A i \in DOMAIN calls' : calls'[i].query = calls[i].query
  BY <1>11, <1>12
<1>21. Once'
  <2>1. \A d, e \in InFlight' : work'[d] = work'[e] => d = e
    BY <1>5, <1>9, <1>14, <1>19 DEF Once, InFlight
  <2>2. \A d \in InFlight' : work'[d] \notin Members(queue)
    BY <1>5, <1>9, <1>14, <1>19 DEF Once, InFlight
  <2>3. ASSUME NEW i \in DOMAIN calls', NEW p \in Queries, Asked(i, p)'
        PROVE  /\ p \notin Members(queue)
               /\ \A d \in Conns : work'[d] # p
               /\ \A j \in DOMAIN calls' : calls'[j].query = p => i = j
    <3>1. i # 1 /\ i \in DOMAIN calls /\ calls'[i] = calls[i] /\ Asked(i, p) /\ calls[i].query = p
      BY <1>11, <1>12, <2>3 DEF Asked
    <3>2. p # q BY <1>14, <3>1
    <3> QED BY <1>5, <1>9, <1>12, <1>20, <3>1, <3>2 DEF Once
  <2>4. ASSUME NEW p \in Queries, fate'[p] = "new"
        PROVE  /\ p \notin Members(queue)
               /\ \A d \in Conns : work'[d] # p
               /\ \A i \in DOMAIN calls' : calls'[i].query # p
    <3>1. p # q /\ fate[p] = "new" BY <1>18, <2>4
    <3> QED BY <1>5, <1>9, <1>12, <1>20, <3>1 DEF Once
  <2> QED BY <1>5, <1>6, <2>1, <2>2, <2>3, <2>4 DEF Once
<1>22. ASSUME Busy, Told PROVE Busy' /\ Told'
  <2>1. Failing(c)' BY <1>11, <1>12 DEF Failing
  <2>2. ASSUME NEW d \in Conns, Failing(d) PROVE Failing(d)'
    <3>1. PICK i \in DOMAIN calls : calls[i].step = "failing" /\ calls[i].conn = d BY <2>2 DEF Failing
    <3>2. i # 1 BY <1>1, <1>12, <3>1
    <3> QED BY <1>12, <3>1, <3>2 DEF Failing
  <2>3. Busy'
    <3>1. ASSUME NEW d \in InFlight'
          PROVE  \/ conn'[d].status = "qsWait" /\ conn'[d].pq = "ok"
                 \/ Failing(d)'
                 \/ /\ conn'[d].status # "qsReady"
                    /\ (pc' \in {"executed", "fault"} /\ cur'.conn = d) \/ Doomed(d)'
      <4>1. CASE d = c BY <2>1, <4>1
      <4>2. CASE d # c
        <5>1. d \in Conns /\ work[d] # NIL /\ Softly(d) /\ d # NIL /\ d \in InFlight
          BY <1>8, <1>19, <4>2, SoftlySame, Distinct DEF InFlight
        <5>2. \/ conn[d].status = "qsWait" /\ conn[d].pq = "ok"
              \/ Failing(d)
              \/ conn[d].status # "qsReady" /\ ((pc \in {"executed", "fault"} /\ cur.conn = d) \/ Doomed(d))
          BY <1>22, <5>1 DEF Busy
        <5> QED BY <1>1, <1>5, <1>6, <1>8, <2>2, <5>1, <5>2, StillBusy
      <4> QED BY <4>1, <4>2
    <3>2. pc = "notify" => work'[cur.conn] = NIL
      BY <1>4, <1>5, <1>9, <1>22 DEF Busy, Cursor, Dispatching
    <3> QED BY <1>6, <3>1, <3>2 DEF Busy
  <2>4. \A p \in Members(queue) : fate'[p] = "pending"
    <3>1. \A p \in Members(queue) : p \in Queries BY <1>5 DEF TypeOK, Members
    <3> QED BY <1>14, <1>18, <1>22, <3>1 DEF Told
  <2>5. ASSUME NEW i \in DOMAIN calls', calls'[i].query # NIL
        PROVE  fate'[calls'[i].query] = IF calls'[i].step = "failing" THEN "failed" ELSE "pending"
    <3>1. CASE i = 1 BY <1>3, <1>11, <1>12, <1>18, <3>1
    <3>2. CASE i # 1
      <4>1. i \in DOMAIN calls /\ calls'[i] = calls[i] /\ calls[i].query # q BY <1>12, <1>14, <3>2
      <4>2. calls'[i] \in Frame BY <1>12
      <4>3. calls[i].query \in Queries BY <2>5, <4>1, <4>2 DEF Frame
      <4> QED BY <1>18, <1>22, <4>1, <4>3, Distinct DEF Told
    <3> QED BY <3>1, <3>2
  <2>6. ASSUME NEW d \in InFlight'
        PROVE  \/ fate'[work'[d]] = "pending" /\ conn'[d].status # "qsReady"
               \/ fate'[work'[d]] = "executed" /\ pc' = "executed" /\ cur'.conn = d
               \/ fate'[work'[d]] = "failed" /\ Failing(d)'
    <3>1. CASE d = c BY <1>9, <1>18, <2>1, <3>1
    <3>2. CASE d # c
      <4>1. d \in Conns /\ d \in InFlight /\ conn'[d] = conn[d] /\ work'[d] = work[d]
        BY <1>8, <1>9, <1>19, <3>2 DEF InFlight
      <4>2. work[d] \in Queries /\ work[d] # q BY <1>5, <1>14, <4>1 DEF TypeOK, InFlight
      <4> QED BY <1>6, <1>18, <1>22, <2>2, <4>1, <4>2 DEF Told
    <3> QED BY <3>1, <3>2
  <2>7. Told' BY <1>6, <2>4, <2>5, <2>6 DEF Told
  <2> QED BY <2>3, <2>7
<1>23. Wired(World)' BY <1>8 DEF Gentle
<1> QED BY <1>15, <1>16, <1>17, <1>21, <1>22, <1>23 DEF Inv

LEMMA OpenEndsOK ==
  ASSUME Inv, OpenEnds
  PROVE  Inv' /\ (SizeMin > 0 /\ Busy /\ Told => Busy' /\ Told')
<1>1. /\ calls # <<>> /\ Call.step = "open" /\ Return /\ timed' = TRUE
      /\ UNCHANGED <<pc, batch, cur, at, active, faults, queue, fate>>
  BY DEF OpenEnds, InCall, loop, service
<1>2. TypeOK /\ Wired(World) /\ ObjectsOK BY <1>1, CallIs
<1>3. active' \in BOOLEAN /\ timed' \in BOOLEAN /\ faults' \in 0 .. MaxFaults
  <2>1. TRUE \in BOOLEAN OBVIOUS
  <2> QED BY <1>1, <1>2, <2>1 DEF TypeOK
<1>4. Gentle(NIL) /\ \A d \in Conns : conn'[d] = conn[d] /\ work'[d] = work[d]
  <2>1. CASE UNCHANGED objects BY <1>2, <2>1, GentlyUnchanged DEF objects
  <2>2. CASE ~(timed \/ FreeFds = {} \/ FreeHandlers = {})
    <3>1. PICK h : h = CHOOSE g \in FreeHandlers : TRUE OBVIOUS
    <3>2. h \in Handlers /\ handler[h].type = "none" BY <2>2, <3>1 DEF FreeHandlers
    <3>3. PICK s \in FreeFds :
            /\ handler' = [handler EXCEPT ![h] = [type |-> "etTimer", socket |-> s, binding |-> TIMER]]
            /\ list' = Append(list, h)
            /\ epoll' = [epoll EXCEPT ![s] = IF @ = NIL THEN h ELSE @]
            /\ UNCHANGED <<conn, pool, work>>
      BY <2>2, <3>1 DEF OpenEnds
    <3>4. s \in Fds BY DEF FreeFds
    <3>5. /\ handler \in [Handlers -> HandlerRec] /\ list \in Seq(Handlers)
          /\ epoll \in [Fds -> Handlers \cup {NIL, DANGLING}]
      BY <1>2 DEF ObjectsOK
    <3>6. PICK r : r = [type |-> "etTimer", socket |-> s, binding |-> TIMER] OBVIOUS
    <3>7. r \in HandlerRec /\ r.type = "etTimer" /\ r.socket = s /\ r.binding = TIMER
      BY <3>4, <3>6 DEF HandlerRec
    <3>8. handler' \in [Handlers -> HandlerRec] /\ handler'[h] = r
          /\ \A k \in Handlers \ {h} : handler'[k] = handler[k]
      BY <3>2, <3>3, <3>5, <3>6, <3>7
    <3>9. /\ epoll' \in [Fds -> Handlers \cup {NIL, DANGLING}]
          /\ \A f \in Fds : epoll'[f] = epoll[f] \/ (f = s /\ epoll'[f] = h)
      BY <3>2, <3>3, <3>4, <3>5
    <3>10. /\ NoDuplicates(list) /\ h \notin Members(list)
           /\ \A g \in Handlers : g \in Members(list) <=> handler[g].type # "none"
      BY <1>2, <3>2 DEF Wired, World
    <3>11. /\ list' \in Seq(Handlers) /\ Members(list') = Members(list) \cup {h} /\ NoDuplicates(list')
           /\ \A i \in DOMAIN list : i \in DOMAIN list' /\ list'[i] = list[i]
      <4>1. /\ list' \in Seq(Handlers) /\ Members(list') = Members(list) \cup {h} /\ NoDuplicates(list')
        BY <3>2, <3>3, <3>5, <3>10, Appended
      <4>2. \A i \in DOMAIN list : i \in DOMAIN list' /\ list'[i] = list[i]
        BY <3>2, <3>3, <3>5, AppendProperties
      <4> QED BY <4>1, <4>2
    <3>12. ObjectsOK' BY <1>2, <3>3, <3>8, <3>9, <3>11 DEF ObjectsOK
    <3>13. PICK w : w = World OBVIOUS
    <3>14. PICK v : v = World' OBVIOUS
    <3>15. /\ Wired(w) /\ w.handler = handler /\ w.list = list /\ w.conn = conn /\ w.pool = pool
           /\ w.epoll = epoll /\ w.work = work
           /\ v.handler = handler' /\ v.list = list' /\ v.conn = conn /\ v.pool = pool
           /\ v.epoll = epoll' /\ v.work = work
      BY <1>2, <3>3, <3>13, <3>14 DEF World
    <3>16. Wired(v)
      <4>1. NoDuplicates(v.list) /\ NoDuplicates(v.pool) BY <3>11, <3>15 DEF Wired
      <4>2. \A g \in Handlers : g \in Members(v.list) <=> v.handler[g].type # "none"
        BY <3>7, <3>8, <3>10, <3>11, <3>15
      <4>3. \A g \in Handlers : v.handler[g].type = "none" => v.handler[g].binding = NIL
        BY <3>7, <3>8, <3>15 DEF Wired
      <4>4. \A g \in Handlers : v.handler[g].binding \in Conns => v.handler[g].binding \in Members(v.pool)
        BY <3>7, <3>8, <3>15, Distinct DEF Wired
      <4>5. ASSUME NEW f \in Fds
            PROVE  v.epoll[f] # DANGLING /\ (v.epoll[f] \in Handlers => Watches(v, v.epoll[f], f))
        <5>1. CASE f = s /\ epoll'[f] = h BY <3>2, <3>7, <3>8, <3>15, <5>1, Distinct DEF Watches
        <5>2. CASE epoll'[f] = epoll[f]
          <6>1. epoll[f] # DANGLING /\ (epoll[f] \in Handlers => Watches(w, epoll[f], f))
            BY <3>15 DEF Wired
          <6>2. ASSUME epoll[f] \in Handlers PROVE Watches(v, epoll[f], f)
            <7>1. \/ handler[epoll[f]].binding \in Conns /\ conn[handler[epoll[f]].binding].fd = f
                  \/ handler[epoll[f]].binding = TIMER /\ handler[epoll[f]].socket = f
              BY <3>15, <6>1, <6>2 DEF Watches
            <7>2. epoll[f] # h BY <3>2, <3>15, <7>1, Distinct DEF Wired
            <7> QED BY <3>8, <3>15, <6>2, <7>1, <7>2 DEF Watches
          <6> QED BY <3>15, <5>2, <6>1, <6>2
        <5> QED BY <3>9, <5>1, <5>2
      <4>6. \A c \in Conns : v.conn[c].handler \in Handlers => v.handler[v.conn[c].handler].binding = c
        <5> TAKE c \in Conns
        <5> HAVE v.conn[c].handler \in Handlers
        <5>1. handler[conn[c].handler].binding = c BY <3>15 DEF Wired
        <5>2. conn[c].handler # h BY <3>2, <3>15, <5>1, Distinct DEF Wired
        <5> QED BY <3>8, <3>15, <5>1, <5>2
      <4>7. /\ \A c \in Conns : c \notin Members(v.pool) => v.conn[c] = Blank /\ v.work[c] = NIL
            /\ \A c \in Conns : v.conn[c].pq = "none" => v.conn[c].fd = NIL
        BY <3>15 DEF Wired
      <4> QED BY <4>1, <4>2, <4>3, <4>4, <4>5, <4>6, <4>7 DEF Wired
    <3>17. Wired(World)' BY <3>14, <3>16
    <3>18. \A g \in Handlers : handler[g].type # "none" => handler'[g] = handler[g]
      BY <3>2, <3>8
    <3>19. Gentle(NIL) BY <3>3, <3>11, <3>12, <3>17, <3>18 DEF Gentle
    <3> QED BY <3>3, <3>19
  <2> QED BY <2>1, <2>2 DEF OpenEnds
<1>5. NIL \in Conns \cup {NIL} /\ Call.step # "failing" BY <1>1
<1> QED BY <1>1, <1>3, <1>4, <1>5, ReturnedOK

-----------------------------------------------------------------------------
(* Calls that begin.                                                        *)

LEMMA StartFrameOK ==
  ASSUME NEW q \in Queries
  PROVE  /\ StartFrame(q) \in Frame /\ StartFrame(q).query = q /\ StartFrame(q).step = "scan"
         /\ FrameOK(StartFrame(q))'
         /\ \A d : ~Making(StartFrame(q), d)
<1>1. PICK f : f = StartFrame(q) OBVIOUS
<1>2. /\ f \in Frame /\ f.query = q /\ f.step = "scan" /\ f.conn = NIL /\ ~f.new /\ f.at = 1
  BY <1>1 DEF StartFrame, Frame
<1>3. FrameOK(f)' BY <1>2, Distinct DEF FrameOK
<1>4. \A d : ~Making(f, d) BY <1>2 DEF Making
<1> QED BY <1>1, <1>2, <1>3, <1>4

LEMMA FramesStay ==
  ASSUME UNCHANGED objects, NEW f, FrameOK(f)
  PROVE  FrameOK(f)'
BY DEF FrameOK, objects, RoomFor, FreeConns, Live, Connecting

LEMMA AppStartsOK ==
  ASSUME Inv, NEW q \in Queries, AppStarts(q)
  PROVE  Inv' /\ (SizeMin > 0 /\ Busy /\ Told => Busy' /\ Told')
<1>1. TypeOK /\ Wired(World) /\ Frames /\ Cursor /\ WaitHasWork /\ Once BY DEF Inv
<1>2. /\ AppRuns /\ fate[q] = "new" /\ fate' = [fate EXCEPT ![q] = "pending"]
      /\ calls' = <<StartFrame(q)>> \o calls
      /\ UNCHANGED objects /\ UNCHANGED <<queue, active, timed, pc, batch, cur, at, faults>>
  BY DEF AppStarts, life, loop
<1>3. UNCHANGED <<handler, list, conn, pool, epoll, work>> BY <1>2 DEF objects
<1>4. PICK f : f = StartFrame(q) OBVIOUS
<1>5. /\ f \in Frame /\ f.query = q /\ f.step = "scan" /\ FrameOK(f)' /\ \A d : ~Making(f, d)
  BY <1>4, StartFrameOK
<1>6. calls \in Seq(Frame) /\ Len(calls) \in Nat /\ DOMAIN calls = 1 .. Len(calls) BY <1>1 DEF TypeOK
<1>7. /\ calls' \in Seq(Frame) /\ Len(calls') = Len(calls) + 1 /\ calls'[1] = f /\ 1 \in DOMAIN calls'
      /\ \A i \in DOMAIN calls' : i \in Nat /\ i >= 1
                                  /\ (i # 1 => i - 1 \in DOMAIN calls /\ calls'[i] = calls[i - 1])
  BY <1>2, <1>4, <1>5, <1>6, Pushed
<1>8. \A i \in DOMAIN calls : i + 1 \in DOMAIN calls' /\ i + 1 # 1 /\ calls'[i + 1] = calls[i]
  <2> TAKE i \in DOMAIN calls
  <2>1. i \in 1 .. Len(calls) /\ DOMAIN calls' = 1 .. Len(calls') BY <1>6, <1>7
  <2>2. i + 1 \in DOMAIN calls' /\ i + 1 # 1 BY <1>6, <1>7, <2>1
  <2>3. calls'[i + 1] = calls[i + 1 - 1] BY <1>7, <2>2
  <2> QED BY <2>1, <2>2, <2>3
<1>9. TypeOK' BY <1>1, <1>2, <1>3, <1>7 DEF TypeOK
<1>10. Wired(World)' BY <1>1, <1>3 DEF Wired, Watches, World
<1>11. calls # <<>> => Call = calls[1] /\ Call.step \in Callbacks
  BY <1>2 DEF AppRuns, InCall, Call, Callbacks
<1>12. Frames'
  <2>1. \A i \in DOMAIN calls' : FrameOK(calls[i])'
    <3> TAKE i \in DOMAIN calls'
    <3>1. CASE i = 1 BY <1>5, <1>7, <3>1 DEF FrameOK, RoomFor
    <3>2. CASE i # 1
      <4>1. i - 1 \in DOMAIN calls /\ calls'[i] = calls[i - 1] BY <1>7, <3>2
      <4>2. FrameOK(calls[i - 1]) BY <1>1, <4>1 DEF Frames
      <4>3. PICK g : g = calls[i - 1] OBVIOUS
      <4>4. FrameOK(g) BY <4>2, <4>3
      <4>5. FrameOK(g)' BY <1>2, <4>4, FramesStay
      <4> QED BY <4>1, <4>3, <4>5 DEF FrameOK, RoomFor
    <3> QED BY <3>1, <3>2
  <2>2. ASSUME NEW i \in DOMAIN calls'
        PROVE  /\ i > 1 => calls'[i].step \in Callbacks
               /\ calls'[i].query = NIL => i = Len(calls')
    <3>1. CASE i = 1 BY <1>5, <1>7, <3>1, Distinct
    <3>2. CASE i # 1
      <4>1. i - 1 \in DOMAIN calls /\ calls'[i] = calls[i - 1] /\ i \in Nat BY <1>7, <3>2
      <4>2. calls[i - 1].query = NIL => i - 1 = Len(calls) BY <1>1, <4>1 DEF Frames
      <4>3. calls[i - 1].step \in Callbacks
        <5>1. CASE i - 1 = 1 BY <1>6, <1>11, <4>1, <5>1
        <5>2. CASE i - 1 # 1 BY <1>1, <1>6, <4>1, <5>2 DEF Frames
        <5> QED BY <5>1, <5>2
      <4> QED BY <1>6, <1>7, <4>1, <4>2, <4>3
    <3> QED BY <3>1, <3>2
  <2>3. ASSUME NEW i \in DOMAIN calls', NEW j \in DOMAIN calls', NEW c \in Conns,
               Making(calls'[i], c), calls'[j].step \in Callbacks, calls'[j].conn = c
        PROVE  i = j
    <3>1. i # 1 /\ j # 1 BY <1>5, <1>7, <2>3 DEF Callbacks
    <3>2. /\ i - 1 \in DOMAIN calls /\ j - 1 \in DOMAIN calls /\ i \in Nat /\ j \in Nat
          /\ calls'[i] = calls[i - 1] /\ calls'[j] = calls[j - 1]
      BY <1>7, <3>1
    <3>3. i - 1 = j - 1 BY <1>1, <2>3, <3>2 DEF Frames
    <3> QED BY <3>2, <3>3
  <2>4. ASSUME NEW i \in DOMAIN calls', NEW c \in Conns, Making(calls'[i], c)
        PROVE  Connecting(c)' /\ work'[c] = NIL
    <3>1. i # 1 BY <1>5, <1>7, <2>4
    <3>2. i - 1 \in DOMAIN calls /\ calls'[i] = calls[i - 1] BY <1>7, <3>1
    <3>3. Connecting(c) /\ work[c] = NIL BY <1>1, <2>4, <3>2 DEF Frames
    <3> QED BY <1>3, <3>3 DEF Connecting
  <2> QED BY <2>1, <2>2, <2>3, <2>4 DEF Frames, Making, Connecting
<1>13. Cursor'
  <2>1. ASSUME Dispatching
        PROVE  /\ \A i \in DOMAIN calls' : ~Making(calls'[i], cur.conn)
               /\ \A i \in DOMAIN calls' : calls'[i].step = "failing" => calls'[i].conn # cur.conn
    <3>1. \A i \in DOMAIN calls : ~Making(calls[i], cur.conn)
                                  /\ (calls[i].step = "failing" => calls[i].conn # cur.conn)
      BY <1>1, <2>1 DEF Cursor
    <3> QED BY <1>5, <1>7, <3>1
  <2>2. pc \notin {"write", "shrink", "pack", "clear", "undefined"}
    BY <1>1, <1>2, <1>11 DEF AppRuns, Cursor, InCall
  <2>3. UNCHANGED <<handler, conn, pool, list, pc, batch, cur, at>> BY <1>2, <1>3
  <2> QED BY <1>1, <2>1, <2>2, <2>3 DEF Cursor, Dispatching
<1>14. WaitHasWork' BY <1>1, <1>2, <1>3 DEF WaitHasWork, InFlight
<1>15. InFlight' = InFlight BY <1>3 DEF InFlight
<1>16. fate'[q] = "pending" /\ \A p \in Queries : p # q => fate'[p] = fate[p]
  BY <1>1, <1>2 DEF TypeOK
<1>17. /\ q \notin Members(queue) /\ \A c \in Conns : work[c] # q
       /\ \A i \in DOMAIN calls : calls[i].query # q
  BY <1>1, <1>2 DEF Once
<1>18. Once'
  <2>1. ASSUME NEW i \in DOMAIN calls', NEW p \in Queries, Asked(i, p)'
        PROVE  /\ p \notin Members(queue)
               /\ \A c \in Conns : work[c] # p
               /\ \A j \in DOMAIN calls' : calls'[j].query = p => i = j
    <3>1. CASE i = 1
      <4>1. p = q BY <1>5, <1>7, <2>1, <3>1 DEF Asked
      <4>2. \A j \in DOMAIN calls' : calls'[j].query = q => 1 = j BY <1>7, <1>17
      <4> QED BY <1>17, <3>1, <4>1, <4>2
    <3>2. CASE i # 1
      <4>1. /\ i \in Nat /\ i - 1 \in DOMAIN calls /\ Asked(i - 1, p) /\ calls[i - 1].query = p
        BY <1>7, <2>1, <3>2 DEF Asked
      <4>2. /\ p \notin Members(queue)
            /\ \A c \in Conns : work[c] # p
            /\ \A j \in DOMAIN calls : calls[j].query = p => i - 1 = j
        BY <1>1, <4>1 DEF Once
      <4>3. p # q BY <1>17, <4>1
      <4>4. ASSUME NEW j \in DOMAIN calls', calls'[j].query = p PROVE i = j
        <5>1. j # 1 BY <1>5, <1>7, <4>3, <4>4
        <5>2. j \in Nat /\ j - 1 \in DOMAIN calls /\ calls[j - 1].query = p BY <1>7, <4>4, <5>1
        <5>3. i - 1 = j - 1 BY <4>2, <5>2
        <5> QED BY <4>1, <5>2, <5>3
      <4> QED BY <4>2, <4>4
    <3> QED BY <3>1, <3>2
  <2>2. ASSUME NEW p \in Queries, fate'[p] = "new"
        PROVE  /\ p \notin Members(queue)
               /\ \A c \in Conns : work[c] # p
               /\ \A i \in DOMAIN calls' : calls'[i].query # p
    <3>1. p # q /\ fate[p] = "new" BY <1>16, <2>2
    <3> QED BY <1>1, <1>5, <1>7, <3>1 DEF Once
  <2> QED BY <1>1, <1>2, <1>3, <1>15, <2>1, <2>2 DEF Once
<1>19. ASSUME Busy, Told PROVE Busy' /\ Told'
  <2>1. \A c \in Conns : Failing(c) => Failing(c)'
    <3> TAKE c \in Conns
    <3> HAVE Failing(c)
    <3>1. PICK i \in DOMAIN calls : calls[i].step = "failing" /\ calls[i].conn = c BY DEF Failing
    <3> QED BY <1>8, <3>1 DEF Failing
  <2>2. \A c \in Conns : Doomed(c) => Doomed(c)' BY <1>2, <1>3 DEF Doomed, Dispatching
  <2>3. Busy' BY <1>2, <1>3, <1>15, <1>19, <2>1, <2>2 DEF Busy, InFlight
  <2>4. \A p \in Members(queue) : fate'[p] = "pending"
    <3>1. \A p \in Members(queue) : p \in Queries BY <1>1 DEF TypeOK, Members
    <3> QED BY <1>16, <1>17, <1>19, <3>1 DEF Told
  <2>5. ASSUME NEW i \in DOMAIN calls', calls'[i].query # NIL
        PROVE  fate'[calls'[i].query] = IF calls'[i].step = "failing" THEN "failed" ELSE "pending"
    <3>1. CASE i = 1 BY <1>5, <1>7, <1>16, <3>1
    <3>2. CASE i # 1
      <4>1. i - 1 \in DOMAIN calls /\ calls'[i] = calls[i - 1] BY <1>7, <3>2
      <4>2. calls'[i] \in Frame BY <1>7
      <4>3. calls[i - 1].query \in Queries /\ calls[i - 1].query # q
        BY <1>17, <2>5, <4>1, <4>2 DEF Frame
      <4> QED BY <1>16, <1>19, <4>1, <4>3, Distinct DEF Told
    <3> QED BY <3>1, <3>2
  <2>6. ASSUME NEW c \in InFlight
        PROVE  \/ fate'[work[c]] = "pending" /\ conn[c].status # "qsReady"
               \/ fate'[work[c]] = "executed" /\ pc = "executed" /\ cur.conn = c
               \/ fate'[work[c]] = "failed" /\ Failing(c)'
    <3>1. c \in Conns /\ work[c] \in Queries /\ work[c] # q
      BY <1>1, <1>17 DEF TypeOK, InFlight
    <3> QED BY <1>16, <1>19, <2>1, <3>1 DEF Told
  <2>7. Told' BY <1>2, <1>3, <1>15, <2>4, <2>5, <2>6 DEF Told
  <2> QED BY <2>3, <2>7
<1> QED BY <1>9, <1>10, <1>12, <1>13, <1>14, <1>18, <1>19 DEF Inv

LEMMA ActivateOK ==
  ASSUME Inv, Activate
  PROVE  Inv' /\ (SizeMin > 0 /\ Busy /\ Told => Busy' /\ Told')
<1>1. TypeOK /\ Wired(World) /\ Frames /\ Cursor /\ WaitHasWork /\ Once BY DEF Inv
<1>2. /\ pc = "wait" /\ calls = <<>> /\ Cardinality(FreeConns) >= SizeMin /\ active' = TRUE
      /\ calls' = <<[StartFrame(NIL) EXCEPT !.step = "open", !.at = 0]>>
      /\ UNCHANGED objects /\ UNCHANGED <<queue, fate, timed, pc, batch, cur, at, faults>>
  BY DEF Activate, loop, service
<1>3. UNCHANGED <<handler, list, conn, pool, epoll, work>> BY <1>2 DEF objects
<1>4. PICK f : f = [StartFrame(NIL) EXCEPT !.step = "open", !.at = 0] OBVIOUS
<1>5. f \in Frame /\ f.query = NIL /\ f.step = "open" /\ f.conn = NIL /\ ~f.new /\ f.at = 0
  BY <1>4 DEF StartFrame, Frame
<1>6. /\ calls' \in Seq(Frame) /\ Len(calls') = 1 /\ DOMAIN calls' = {1} /\ calls'[1] = f
  BY <1>2, <1>4, <1>5
<1>7. TypeOK'
  <2>1. TRUE \in BOOLEAN OBVIOUS
  <2> QED BY <1>1, <1>2, <1>3, <1>6, <2>1 DEF TypeOK
<1>8. Wired(World)' BY <1>1, <1>3 DEF Wired, Watches, World
<1>9. Frames'
  <2>1. FreeConns' = FreeConns BY <1>3 DEF FreeConns, Live
  <2>2. RoomFor(f)' BY <1>2, <1>5, <2>1, SizeAssumption DEF RoomFor
  <2>3. FrameOK(f)' BY <1>5, <2>2 DEF FrameOK
  <2>4. \A d : ~Making(f, d) BY <1>5 DEF Making
  <2>5. FrameOK(calls[1])' BY <1>6, <2>3 DEF FrameOK, RoomFor
  <2> QED BY <1>6, <2>4, <2>5 DEF Frames, Making
<1>10. Cursor' BY <1>1, <1>2, <1>3 DEF Cursor, Dispatching
<1>11. WaitHasWork' BY <1>1, <1>2, <1>3 DEF WaitHasWork, InFlight
<1>12. InFlight' = InFlight BY <1>3 DEF InFlight
<1>13. Once'
  <2>1. \A i \in DOMAIN calls', q \in Queries : ~Asked(i, q)' /\ calls'[i].query # q
    BY <1>5, <1>6, Distinct DEF Asked
  <2> QED BY <1>1, <1>2, <1>3, <1>12, <2>1 DEF Once
<1>14. ASSUME Busy, Told PROVE Busy' /\ Told'
  <2>1. \A c : ~Failing(c) BY <1>2 DEF Failing
  <2>2. \A c : ~Doomed(c) BY <1>2 DEF Doomed
  <2>3. Busy' BY <1>2, <1>3, <1>12, <1>14, <2>1, <2>2 DEF Busy
  <2>4. \A i \in DOMAIN calls' : calls'[i].query = NIL BY <1>5, <1>6
  <2>5. Told' BY <1>2, <1>3, <1>12, <1>14, <2>1, <2>4 DEF Told
  <2> QED BY <2>3, <2>5
<1> QED BY <1>7, <1>8, <1>9, <1>10, <1>11, <1>13, <1>14 DEF Inv

-----------------------------------------------------------------------------
(* Steps of the loop that touch no object.                                  *)

LEMMA QuietOK ==
  ASSUME Inv, calls = <<>>, UNCHANGED <<objects, queue, fate, calls, timed, faults>>,
         pc \notin {"executed", "notify", "fault"}, pc' \notin {"executed", "notify", "fault"},
         pc' \in {"wait", "dispatch", "write", "shrink", "pack", "clear", "undefined"},
         batch' \subseteq batch, cur' \in Current, at' \in Nat, active' \in BOOLEAN,
         pc' \in {"wait", "pack", "clear"} => batch' = {},
         pc' = "write" => pc = "write" /\ cur' = cur,
         pc' = "shrink" => at' \in SizeMin .. Len(pool),
         pc' = "pack" => at' <= Len(list),
         SizeMin > 0 => \A c \in Conns : Doomed(c) => Doomed(c)'
  PROVE  Inv' /\ (SizeMin > 0 /\ Busy /\ Told => Busy' /\ Told')
<1>1. TypeOK /\ Wired(World) /\ Frames /\ Cursor /\ WaitHasWork /\ Once BY DEF Inv
<1>2. UNCHANGED <<handler, list, conn, pool, epoll, work, queue, fate, calls>> BY DEF objects
<1>3. TypeOK'
  <2>1. batch' \subseteq Handlers BY <1>1 DEF TypeOK
  <2> QED BY <1>1, <1>2, <2>1 DEF TypeOK
<1>4. Wired(World)' BY <1>1, <1>2 DEF Wired, Watches, World
<1>5. Frames' BY <1>2 DEF Frames
<1>6. Cursor'
  <2>1. /\ \A h \in batch' : handler[h].type # "none"
        /\ \A h, k \in batch' : handler[h].binding \in Conns /\ handler[h].binding = handler[k].binding => h = k
    BY <1>1 DEF Cursor
  <2>2. ASSUME pc' = "write"
        PROVE  /\ cur'.conn \in Conns /\ cur'.handler \in Handlers
               /\ handler[cur'.handler].binding = cur'.conn
               /\ \A h \in batch' : handler[h].binding # cur'.conn
    BY <1>1, <2>2 DEF Cursor, Dispatching
  <2> QED BY <1>2, <2>1, <2>2 DEF Cursor, Dispatching
<1>7. InFlight' = InFlight BY <1>2 DEF InFlight
<1>8. WaitHasWork' BY <1>1, <1>2, <1>7 DEF WaitHasWork
<1>9. Once' BY <1>1, <1>2, <1>7 DEF Once
<1>10. ASSUME SizeMin > 0, Busy, Told PROVE Busy' /\ Told'
  <2>1. \A c : ~Failing(c) BY DEF Failing
  <2>2. \A c \in Conns : Doomed(c) => Doomed(c)' BY <1>10
  <2>3. \A c \in InFlight : \/ conn[c].status = "qsWait" /\ conn[c].pq = "ok"
                            \/ conn[c].status # "qsReady" /\ Doomed(c)
    BY <1>10, <2>1 DEF Busy
  <2>4. Busy' BY <1>2, <1>7, <2>2, <2>3 DEF Busy, InFlight
  <2>5. \A c \in InFlight : fate[work[c]] = "pending" /\ conn[c].status # "qsReady"
    BY <1>10, <2>1 DEF Told
  <2>6. Told' BY <1>2, <1>7, <1>10, <2>5 DEF Told
  <2> QED BY <2>4, <2>6
<1> QED BY <1>3, <1>4, <1>5, <1>6, <1>8, <1>9, <1>10 DEF Inv

\* Events are taken from the batch, or the thread goes on with none.
LEMMA DoomedStays ==
  ASSUME NEW c, Doomed(c), UNCHANGED <<handler, list>>, batch' \subseteq batch,
         pc \in {"dispatch", "write", "shrink", "pack"}, pc' \in {"dispatch", "shrink", "undefined"}
  PROVE  Doomed(c)'
BY DEF Doomed, Dispatching

LEMMA DispatchQuietOK ==
  ASSUME Inv, \E h \in batch : DispatchNothing(h) \/ DispatchTimer(h)
  PROVE  Inv' /\ (SizeMin > 0 /\ Busy /\ Told => Busy' /\ Told')
<1>1. PICK h \in batch : DispatchNothing(h) \/ DispatchTimer(h) OBVIOUS
<1>2. /\ pc = "dispatch" /\ calls = <<>> /\ batch' \subseteq batch
      /\ UNCHANGED <<objects, queue, fate, calls, timed, faults, active, cur>>
      /\ \/ UNCHANGED <<pc, at>>
         \/ pc' = "shrink" /\ at' = Len(pool) /\ Len(pool) > SizeMin
  BY <1>1 DEF DispatchNothing, DispatchTimer, Take, Running, service, life
<1>3. TypeOK /\ Cursor BY DEF Inv
<1>4. Len(pool) \in Nat /\ SizeMin \in Nat BY <1>3, SizeAssumption DEF TypeOK
<1>5. pc' \in {"dispatch", "shrink"} /\ at' \in Nat /\ cur' \in Current /\ active' \in BOOLEAN
      /\ (pc' = "shrink" => at' \in SizeMin .. Len(pool))
  BY <1>2, <1>3, <1>4 DEF TypeOK
<1>6. \A c \in Conns : Doomed(c) => Doomed(c)' BY <1>2, <1>5, DoomedStays DEF objects
<1> QED BY <1>2, <1>5, <1>6, QuietOK

LEMMA ShrinkQuietOK ==
  ASSUME Inv, ShrinkKeeps \/ ShrinkEnds \/ ShrinkThrows
  PROVE  Inv' /\ (SizeMin > 0 /\ Busy /\ Told => Busy' /\ Told')
<1>1. TypeOK /\ Cursor BY DEF Inv
<1>2. /\ pc = "shrink" /\ calls = <<>>
      /\ UNCHANGED <<objects, queue, fate, calls, timed, faults, active, cur>>
      /\ \/ at > SizeMin /\ at' = at - 1 /\ UNCHANGED <<pc, batch>>
         \/ pc' = "dispatch" /\ at' = 0 /\ UNCHANGED batch
         \/ at = 0 /\ pc' = "wait" /\ batch' = {} /\ UNCHANGED at
  BY DEF ShrinkKeeps, ShrinkEnds, ShrinkThrows, Running, service, life
<1>3. at \in SizeMin .. Len(pool) /\ Len(pool) \in Nat /\ SizeMin \in Nat
  BY <1>1, <1>2, SizeAssumption DEF TypeOK, Cursor
<1>4. cur' \in Current /\ active' \in BOOLEAN /\ at' \in Nat BY <1>1, <1>2, <1>3 DEF TypeOK
<1>5. CASE pc' = "wait"
  <2>1. batch' = {} /\ at = 0 BY <1>2, <1>5
  <2>2. ~(SizeMin > 0) BY <1>3, <2>1
  <2> QED BY <1>2, <1>4, <1>5, <2>1, <2>2, QuietOK
<1>6. CASE pc' # "wait"
  <2>1. /\ batch' \subseteq batch /\ pc' \in {"dispatch", "shrink"}
        /\ pc' = "shrink" => at' \in SizeMin .. Len(pool)
    BY <1>2, <1>3, <1>6
  <2>2. \A c \in Conns : Doomed(c) => Doomed(c)' BY <1>2, <2>1, DoomedStays DEF objects
  <2> QED BY <1>2, <1>4, <2>1, <2>2, QuietOK
<1> QED BY <1>5, <1>6

LEMMA EndOfBatchOK ==
  ASSUME Inv, EndOfBatch
  PROVE  Inv' /\ (SizeMin > 0 /\ Busy /\ Told => Busy' /\ Told')
<1>1. TypeOK /\ Cursor BY DEF Inv
<1>2. /\ pc = "dispatch" /\ calls = <<>> /\ batch = {} /\ pc' = "pack" /\ at' = Len(list)
      /\ UNCHANGED <<objects, queue, fate, calls, timed, faults, active, cur, batch>>
  BY DEF EndOfBatch, Running, service, life
<1>3. list \in Seq(Handlers) /\ Len(list) \in Nat /\ DOMAIN list = 1 .. Len(list) BY <1>1 DEF TypeOK
<1>4. cur' \in Current /\ active' \in BOOLEAN /\ at' \in Nat /\ at' <= Len(list)
  BY <1>1, <1>2, <1>3 DEF TypeOK
<1>5. ASSUME NEW c \in Conns, Doomed(c) PROVE Doomed(c)'
  <2>1. PICK i \in DOMAIN list : handler[list[i]].type = "etDelete" /\ handler[list[i]].binding = c
    BY <1>5 DEF Doomed
  <2>2. UNCHANGED <<handler, list>> BY <1>2 DEF objects
  <2>3. i <= at' BY <1>2, <1>3
  <2> QED BY <1>2, <2>1, <2>2, <2>3 DEF Doomed, Dispatching
<1>6. batch' \subseteq batch /\ batch' = {} BY <1>2
<1> QED BY <1>2, <1>4, <1>5, <1>6, QuietOK

LEMMA PackQuietOK ==
  ASSUME Inv, PackKeeps \/ PackEnds
  PROVE  Inv' /\ (SizeMin > 0 /\ Busy /\ Told => Busy' /\ Told')
<1>1. TypeOK /\ Cursor BY DEF Inv
<1>2. /\ pc = "pack" /\ calls = <<>> /\ batch = {}
      /\ UNCHANGED <<objects, queue, fate, calls, timed, faults, active, cur, batch>>
      /\ \/ pc' = pc /\ at > 0 /\ at' = at - 1 /\ handler[list[at]].type # "etDelete"
         \/ pc' = "wait" /\ at = 0 /\ at' = at
  BY <1>1 DEF PackKeeps, PackEnds, Packing, Running, service, life, Cursor, Stopped, World
<1>3. list \in Seq(Handlers) /\ Len(list) \in Nat /\ DOMAIN list = 1 .. Len(list) /\ at \in Nat /\ at <= Len(list)
  BY <1>1, <1>2 DEF TypeOK, Cursor
<1>4. cur' \in Current /\ active' \in BOOLEAN /\ at' \in Nat /\ at' <= Len(list)
  BY <1>1, <1>2, <1>3 DEF TypeOK
<1>5. ASSUME NEW c \in Conns, Doomed(c) PROVE Doomed(c)'
  <2>1. PICK i \in DOMAIN list : /\ handler[list[i]].type = "etDelete" /\ handler[list[i]].binding = c
                                 /\ i <= at
    BY <1>2, <1>5 DEF Doomed
  <2>2. UNCHANGED <<handler, list>> BY <1>2 DEF objects
  <2>3. pc' = "pack" /\ i <= at' BY <1>2, <1>3, <2>1
  <2> QED BY <1>2, <2>1, <2>2, <2>3 DEF Doomed, Dispatching
<1>6. batch' \subseteq batch /\ batch' = {} /\ pc' \in {"pack", "wait"} BY <1>2
<1> QED BY <1>2, <1>4, <1>5, <1>6, QuietOK

LEMMA IdleEvent == Idle \in Current
BY DEF Idle, Current, Statuses

LEMMA LifeQuietOK ==
  ASSUME Inv, Deactivate \/ ClearEnds \/ WriteIgnored \/ FollowsDangling
  PROVE  Inv' /\ (SizeMin > 0 /\ Busy /\ Told => Busy' /\ Told')
<1>1. TypeOK /\ Cursor BY DEF Inv
<1>2. /\ calls = <<>> /\ UNCHANGED <<objects, queue, fate, calls, timed, faults, batch, at>> /\ cur' \in {cur, Idle}
      /\ \/ pc = "wait" /\ pc' = "clear" /\ active' = FALSE
         \/ pc = "clear" /\ pc' = "wait" /\ active' = active
         \/ pc = "write" /\ pc' = "dispatch" /\ active' = active
         \/ pc \in {"dispatch", "pack", "clear"} /\ pc' = "undefined" /\ active' = active
  <2>1. CASE Deactivate BY <2>1 DEF Deactivate, service
  <2>2. CASE ClearEnds BY <1>1, <2>2 DEF ClearEnds, service, life, Cursor
  <2>3. CASE WriteIgnored BY <2>3 DEF WriteIgnored, Running, service, life
  <2>4. CASE FollowsDangling
    <3>1. pc \in {"dispatch", "pack", "clear"} BY <2>4 DEF FollowsDangling, Followed
    <3> QED BY <2>4, <3>1 DEF FollowsDangling, service, life
  <2> QED BY <2>1, <2>2, <2>3, <2>4
<1>3. cur' \in Current /\ active' \in BOOLEAN /\ at' \in Nat
  <2>1. FALSE \in BOOLEAN OBVIOUS
  <2> QED BY <1>1, <1>2, <2>1, IdleEvent DEF TypeOK
<1>4. batch' \subseteq batch /\ (pc' \in {"wait", "clear"} => batch' = {}) BY <1>1, <1>2 DEF Cursor
<1>5. \A c \in Conns : Doomed(c) => Doomed(c)'
  <2>1. pc \in {"wait", "clear"} => \A c : ~Doomed(c) BY DEF Doomed
  <2> QED BY <1>2, <1>4, <2>1, DoomedStays DEF objects
<1> QED BY <1>2, <1>3, <1>4, <1>5, QuietOK

-----------------------------------------------------------------------------
(* Time passes, and connections and handlers are freed.                     *)

LEMMA StaysStale ==
  ASSUME NEW r \in ConnRec, r.fresh = FALSE
  PROVE  [r EXCEPT !.fresh = FALSE] = r
BY DEF ConnRec

LEMMA WaitOK ==
  ASSUME Inv, Wait
  PROVE  Inv' /\ (SizeMin > 0 /\ Busy /\ Told => Busy' /\ Told')
<1>1. TypeOK /\ Wired(World) /\ Frames /\ Cursor /\ WaitHasWork /\ Once BY DEF Inv
<1>2. /\ pc = "wait" /\ calls = <<>> /\ pc' = "dispatch"
      /\ conn' = [c \in Conns |-> [conn[c] EXCEPT !.fresh = FALSE]]
      /\ UNCHANGED <<handler, list, pool, epoll, work, queue, fate, active, timed, calls, cur, at, faults>>
  BY DEF Wait, Running, service, life
<1>3. PICK ready \in SUBSET {s \in Fds : epoll[s] \in Handlers} : batch' = {epoll[s] : s \in ready}
  BY DEF Wait
<1>4. /\ conn' \in [Conns -> ConnRec]
      /\ \A c \in Conns :
           /\ conn'[c].status = conn[c].status /\ conn'[c].pq = conn[c].pq /\ conn'[c].fd = conn[c].fd
           /\ conn'[c].handler = conn[c].handler
           /\ conn[c] = Blank => conn'[c] = Blank
  <2>1. ASSUME NEW c \in Conns
        PROVE  /\ conn'[c] \in ConnRec
               /\ conn'[c].status = conn[c].status /\ conn'[c].pq = conn[c].pq /\ conn'[c].fd = conn[c].fd
               /\ conn'[c].handler = conn[c].handler
               /\ conn[c] = Blank => conn'[c] = Blank
    <3>1. conn[c] \in ConnRec BY <1>1 DEF TypeOK
    <3>2. conn'[c] = [conn[c] EXCEPT !.fresh = FALSE] BY <1>2
    <3>3. Blank.fresh = FALSE BY DEF Blank
    <3>4. conn[c] = Blank => conn'[c] = Blank BY <3>1, <3>2, <3>3, StaysStale
    <3> QED BY <3>1, <3>2, <3>4 DEF ConnRec
  <2>2. DOMAIN conn' = Conns /\ conn' = [c \in Conns |-> conn'[c]] BY <1>2
  <2> QED BY <2>1, <2>2
<1>5. \A s \in ready : s \in Fds /\ epoll[s] \in Handlers OBVIOUS
<1>6. TypeOK'
  <2>1. batch' \subseteq Handlers BY <1>3, <1>5
  <2> QED BY <1>1, <1>2, <1>4, <2>1 DEF TypeOK
<1>7. Wired(World)'
  <2>1. PICK w : w = World OBVIOUS
  <2>2. PICK v : v = World' OBVIOUS
  <2>3. /\ Wired(w) /\ v.handler = w.handler /\ v.list = w.list /\ v.pool = w.pool
        /\ v.epoll = w.epoll /\ v.work = w.work
        /\ \A c \in Conns :
             /\ v.conn[c].pq = w.conn[c].pq /\ v.conn[c].fd = w.conn[c].fd
             /\ v.conn[c].handler = w.conn[c].handler
             /\ w.conn[c] = Blank => v.conn[c] = Blank
    BY <1>1, <1>2, <1>4, <2>1, <2>2 DEF World
  <2>4. \A h \in Handlers, s \in Fds : Watches(w, h, s) => Watches(v, h, s) BY <2>3 DEF Watches
  <2>5. Wired(v) BY <2>3, <2>4 DEF Wired
  <2> QED BY <2>2, <2>5
<1>8. Frames' BY <1>2 DEF Frames
<1>9. Cursor'
  <2>1. \A s \in ready : Watches(World, epoll[s], s) BY <1>1, <1>5 DEF Wired, World
  <2>2. ASSUME NEW h \in batch' PROVE handler[h].type # "none"
    <3>1. PICK s \in ready : h = epoll[s] BY <1>3
    <3>2. h \in Handlers /\ handler[h].binding # NIL
      BY <1>5, <2>1, <3>1, Distinct DEF Watches, World
    <3> QED BY <1>1, <3>2 DEF Wired, World
  <2>3. ASSUME NEW h \in batch', NEW k \in batch',
               handler[h].binding \in Conns, handler[h].binding = handler[k].binding
        PROVE  h = k
    <3>1. PICK s \in ready : h = epoll[s] BY <1>3
    <3>2. PICK t \in ready : k = epoll[t] BY <1>3
    <3>3. conn[handler[h].binding].fd = s /\ conn[handler[k].binding].fd = t
      BY <2>1, <2>3, <3>1, <3>2, Distinct DEF Watches, World
    <3> QED BY <2>3, <3>1, <3>2, <3>3
  <2> QED BY <1>2, <2>2, <2>3 DEF Cursor, Dispatching
<1>10. InFlight' = InFlight BY <1>2 DEF InFlight
<1>11. WaitHasWork' BY <1>1, <1>2, <1>4, <1>10 DEF WaitHasWork
<1>12. Once' BY <1>1, <1>2, <1>10 DEF Once
<1>13. ASSUME Busy, Told PROVE Busy' /\ Told'
  <2>1. \A c : ~Failing(c) /\ ~Doomed(c) BY <1>2 DEF Failing, Doomed
  <2>2. \A c \in InFlight : c \in Conns /\ conn[c].status = "qsWait" /\ conn[c].pq = "ok"
    BY <1>2, <1>13, <2>1 DEF Busy, InFlight
  <2>3. Busy' BY <1>2, <1>4, <1>10, <2>2 DEF Busy
  <2>4. \A c \in InFlight : c \in Conns /\ fate[work[c]] = "pending" /\ conn[c].status # "qsReady"
    BY <1>2, <1>13, <2>1, <2>2 DEF Told
  <2>5. Told' BY <1>2, <1>4, <1>10, <1>13, <2>4 DEF Told
  <2> QED BY <2>3, <2>5
<1> QED BY <1>6, <1>7, <1>8, <1>9, <1>11, <1>12, <1>13 DEF Inv

\* What the rest of the state says of the queries when connection b, if it is one, is freed.
LEMMA FreedOK ==
  ASSUME Inv, calls = <<>>, UNCHANGED <<queue, fate, calls, pc>>, pc \notin {"executed", "notify", "fault"},
         NEW b, \A c \in Conns : IF c = b THEN conn'[c] = Blank /\ work'[c] = NIL
                                 ELSE conn'[c] = conn[c] /\ work'[c] = work[c]
  PROVE  /\ Frames' /\ WaitHasWork' /\ Once' /\ (Told => Told')
         /\ \A c \in InFlight' : c \in InFlight /\ c # b /\ conn'[c] = conn[c]
<1>1. WaitHasWork /\ Once BY DEF Inv
<1>2. Frames' BY DEF Frames
<1>3. \A c \in InFlight' : c \in Conns /\ c \in InFlight /\ c # b /\ conn'[c] = conn[c] /\ work'[c] = work[c]
  BY DEF InFlight
<1>4. ASSUME NEW c \in Conns \ InFlight' PROVE conn'[c].status # "qsWait"
  <2>1. CASE c = b BY <2>1, BlankRecord
  <2>2. CASE c # b
    <3>1. c \notin InFlight /\ conn'[c] = conn[c] BY <1>4, <2>2 DEF InFlight
    <3> QED BY <1>1, <3>1 DEF WaitHasWork
  <2> QED BY <2>1, <2>2
<1>5. WaitHasWork' BY <1>4 DEF WaitHasWork
<1>6. Once'
  <2>1. ASSUME NEW q \in Queries, fate[q] = "new" PROVE \A c \in Conns : work'[c] # q
    BY <1>1, <2>1, Distinct DEF Once
  <2> QED BY <1>1, <1>3, <2>1 DEF Once
<1>7. ASSUME Told PROVE Told'
  <2>1. \A c : ~Failing(c) BY DEF Failing
  <2>2. \A c \in InFlight : fate[work[c]] = "pending" /\ conn[c].status # "qsReady"
    BY <1>7, <2>1 DEF Told
  <2> QED BY <1>3, <1>7, <2>2 DEF Told
<1> QED BY <1>2, <1>3, <1>5, <1>6, <1>7

LEMMA ShrinkDeletesOK ==
  ASSUME Inv, ShrinkDeletes
  PROVE  Inv' /\ (SizeMin > 0 /\ Busy /\ Told => Busy' /\ Told')
<1>1. TypeOK /\ Wired(World) /\ Cursor BY DEF Inv
<1>2. ObjectsOK BY <1>1 DEF TypeOK, ObjectsOK
<1>3. /\ pc = "shrink" /\ calls = <<>> /\ at > SizeMin /\ at' = at - 1
      /\ Become(Delete(World, pool[at]))
      /\ Undisturbed \/ Disturb(1)
      /\ UNCHANGED <<queue, fate, active, timed, calls, pc, batch, cur>>
  BY DEF ShrinkDeletes, Running, service, life
<1>4. /\ pool \in Seq(Conns) /\ Len(pool) \in Nat /\ at \in SizeMin .. Len(pool) /\ SizeMin \in Nat
      /\ NoDuplicates(pool)
  BY <1>1, <1>3, SizeAssumption DEF TypeOK, Cursor, Wired, World
<1>5. at \in 1 .. Len(pool) /\ at \in DOMAIN pool BY <1>3, <1>4
<1>6. PICK c \in Conns : c = pool[at] BY <1>4, <1>5
<1>7. c \in Members(pool) BY <1>5, <1>6 DEF Members
<1>8. /\ Gentle(c) /\ pool' = RemoveFirst(pool, c) /\ list' = list /\ conn'[c] = Blank /\ work'[c] = NIL
      /\ \A d \in Conns \ {c} : conn'[d] = conn[d] /\ work'[d] = work[d]
      /\ \A h \in Handlers : handler[h].binding = c => handler'[h].binding \in {NIL, DANGLING}
  <2>1. Become(Delete(World, c)) BY <1>3, <1>6
  <2> QED BY <1>1, <1>2, <1>7, <2>1, GentlyDeleted
<1>9. Len(pool') = Len(pool) - 1 BY <1>4, <1>5, <1>6, <1>8, RemovedAtPlace
<1>10. /\ Frames' /\ WaitHasWork' /\ Once' /\ (Told => Told')
       /\ \A d \in InFlight' : d \in InFlight /\ d # c /\ conn'[d] = conn[d]
  <2>1. \A d \in Conns : IF d = c THEN conn'[d] = Blank /\ work'[d] = NIL
                         ELSE conn'[d] = conn[d] /\ work'[d] = work[d]
    BY <1>8
  <2> QED BY <1>3, <2>1, FreedOK
<1>11. at' \in Nat /\ at' \in SizeMin .. Len(pool') BY <1>3, <1>4, <1>9
<1>12. TypeOK'
  <2>1. faults' \in 0 .. MaxFaults BY <1>1, <1>3, LimitAssumption DEF TypeOK, Disturb, Undisturbed
  <2> QED BY <1>1, <1>3, <1>8, <1>11, <2>1 DEF TypeOK, Gentle, ObjectsOK
<1>13. \A h \in batch : h \in Handlers /\ handler[h].type # "none" BY <1>1 DEF TypeOK, Cursor
<1>14. \A h \in Handlers : handler[h].type # "none" =>
         /\ handler'[h].type # "none"
         /\ handler[h].type = "etDelete" => handler'[h].type = "etDelete"
         /\ handler'[h].binding \in Conns => handler'[h].binding = handler[h].binding
         /\ handler[h].binding \in Conns \ {c} => handler'[h].binding = handler[h].binding
  BY <1>8, Distinct DEF Gentle
<1>15. Cursor'
  <2>1. \A h \in batch' : handler'[h].type # "none" BY <1>3, <1>13, <1>14
  <2>2. \A h, k \in batch' : handler'[h].binding \in Conns /\ handler'[h].binding = handler'[k].binding => h = k
    BY <1>1, <1>3, <1>13, <1>14 DEF Cursor
  <2> QED BY <1>3, <1>11, <2>1, <2>2 DEF Cursor, Dispatching
<1>16. ASSUME Busy PROVE Busy'
  <2>1. \A d : ~Failing(d) BY <1>3 DEF Failing
  <2>2. ASSUME NEW d \in InFlight'
        PROVE  \/ conn'[d].status = "qsWait" /\ conn'[d].pq = "ok"
               \/ conn'[d].status # "qsReady" /\ Doomed(d)'
    <3>1. d \in Conns /\ d \in InFlight /\ d # c /\ conn'[d] = conn[d] BY <1>10 DEF InFlight
    <3>2. \/ conn[d].status = "qsWait" /\ conn[d].pq = "ok"
          \/ conn[d].status # "qsReady" /\ Doomed(d)
      BY <1>3, <1>16, <2>1, <3>1 DEF Busy
    <3>3. ASSUME Doomed(d) PROVE Doomed(d)'
      <4>1. PICK i \in DOMAIN list : handler[list[i]].type = "etDelete" /\ handler[list[i]].binding = d
        BY <3>3 DEF Doomed
      <4>2. list[i] \in Handlers BY <1>1 DEF TypeOK
      <4>3. handler'[list[i]].type = "etDelete" /\ handler'[list[i]].binding = d
        BY <1>14, <3>1, <4>1, <4>2
      <4>4. \A h \in batch : handler'[h].binding # d BY <1>13, <1>14, <3>1, <3>3 DEF Doomed
      <4> QED BY <1>3, <1>8, <4>1, <4>3, <4>4 DEF Doomed, Dispatching
    <3> QED BY <3>1, <3>2, <3>3
  <2> QED BY <1>3, <2>2 DEF Busy
<1> QED BY <1>8, <1>10, <1>12, <1>15, <1>16 DEF Inv, Gentle

\* A handler is freed, and with it the connection it is bound to.
LEMMA HandlerFreed ==
  ASSUME Inv, NEW h \in Members(list), handler[h].binding # DANGLING, Become(Destroy(World, h))
  PROVE  /\ ObjectsOK' /\ Wired(World)' /\ list' = RemoveFirst(list, h)
         /\ \A k \in Handlers \ {h} :
              /\ handler[k].type = "etDelete" => handler'[k].type = "etDelete"
              /\ \/ handler'[k].binding = handler[k].binding
                 \/ handler[k].binding = handler[h].binding
         /\ \A c \in Conns : IF c = handler[h].binding
                             THEN conn'[c] = Blank /\ work'[c] = NIL
                             ELSE conn'[c] = conn[c] /\ work'[c] = work[c]
         /\ Members(pool') = Members(pool) \ {handler[h].binding}
<1>1. TypeOK /\ Wired(World) BY DEF Inv
<1>2. ObjectsOK BY <1>1 DEF TypeOK, ObjectsOK
<1>3. h \in Handlers BY <1>1 DEF TypeOK, Members
<1>4. PICK w : w = World OBVIOUS
<1>5. /\ w \in Worlds /\ Wired(w) /\ w.handler = handler /\ w.list = list /\ w.conn = conn
      /\ w.work = work /\ w.pool = pool
  BY <1>1, <1>2, <1>4, WorldOK DEF World
<1>6. PICK v : v = Destroy(w, h) OBVIOUS
<1>7. h \in Members(w.list) /\ w.handler[h].binding # DANGLING BY <1>5
<1>8. /\ v \in Worlds /\ Wired(v) /\ v.list = RemoveFirst(w.list, h)
      /\ \A k \in Handlers \ {h} :
           /\ w.handler[k].type = "etDelete" => v.handler[k].type = "etDelete"
           /\ \/ v.handler[k].binding = w.handler[k].binding
              \/ w.handler[k].binding = w.handler[h].binding
      /\ \A c \in Conns : IF c = w.handler[h].binding
                          THEN v.conn[c] = Blank /\ v.work[c] = NIL
                          ELSE v.conn[c] = w.conn[c] /\ v.work[c] = w.work[c]
      /\ Members(v.pool) = Members(w.pool) \ {w.handler[h].binding}
  BY <1>3, <1>5, <1>6, <1>7, Destroyed
<1>9. Become(v) BY <1>4, <1>6
<1>10. ObjectsOK' /\ Wired(World)' BY <1>8, <1>9, Became
<1>11. handler' = v.handler /\ list' = v.list /\ conn' = v.conn /\ work' = v.work /\ pool' = v.pool
  BY <1>9 DEF Become
<1> QED BY <1>5, <1>8, <1>10, <1>11

LEMMA PackDeletesOK ==
  ASSUME Inv, PackDeletes
  PROVE  Inv' /\ (SizeMin > 0 /\ Busy /\ Told => Busy' /\ Told')
<1>1. TypeOK /\ Wired(World) /\ Cursor BY DEF Inv
<1>2. /\ pc = "pack" /\ calls = <<>> /\ at > 0 /\ at' = at - 1
      /\ handler[list[at]].binding # DANGLING /\ Become(Destroy(World, list[at]))
      /\ UNCHANGED <<queue, fate, active, timed, calls, pc, batch, cur, faults>>
  BY DEF PackDeletes, Packing, Running, service, life, Bound
<1>3. list \in Seq(Handlers) /\ Len(list) \in Nat /\ at \in Nat /\ at <= Len(list) /\ NoDuplicates(list)
  BY <1>1, <1>2 DEF TypeOK, Cursor, Wired, World
<1>4. at \in 1 .. Len(list) /\ DOMAIN list = 1 .. Len(list) BY <1>2, <1>3
<1>5. PICK h \in Members(list) : h = list[at] BY <1>4 DEF Members
<1>6. /\ ObjectsOK' /\ Wired(World)' /\ list' = RemoveFirst(list, h)
      /\ \A k \in Handlers \ {h} :
           /\ handler[k].type = "etDelete" => handler'[k].type = "etDelete"
           /\ \/ handler'[k].binding = handler[k].binding
              \/ handler[k].binding = handler[h].binding
      /\ \A c \in Conns : IF c = handler[h].binding
                          THEN conn'[c] = Blank /\ work'[c] = NIL
                          ELSE conn'[c] = conn[c] /\ work'[c] = work[c]
  BY <1>2, <1>5, HandlerFreed
<1>7. /\ Len(list') = Len(list) - 1
      /\ \A j \in 1 .. Len(list) - 1 : list'[j] = IF j < at THEN list[j] ELSE list[j + 1]
  BY <1>3, <1>4, <1>5, <1>6, RemovedAtPlace
<1>8. /\ Frames' /\ WaitHasWork' /\ Once' /\ (Told => Told')
      /\ \A d \in InFlight' : d \in InFlight /\ d # handler[h].binding /\ conn'[d] = conn[d]
  BY <1>2, <1>6, FreedOK
<1>9. at' \in Nat /\ at' <= Len(list') BY <1>2, <1>3, <1>7
<1>10. TypeOK' BY <1>1, <1>2, <1>6, <1>9 DEF TypeOK, ObjectsOK
<1>11. Cursor'
  <2>1. batch' = {} BY <1>1, <1>2 DEF Cursor
  <2> QED BY <1>2, <1>9, <2>1 DEF Cursor, Dispatching
<1>12. ASSUME Busy PROVE Busy'
  <2>1. \A d : ~Failing(d) BY <1>2 DEF Failing
  <2>2. ASSUME NEW d \in InFlight'
        PROVE  \/ conn'[d].status = "qsWait" /\ conn'[d].pq = "ok"
               \/ conn'[d].status # "qsReady" /\ Doomed(d)'
    <3>1. d \in InFlight /\ d # handler[h].binding /\ conn'[d] = conn[d] BY <1>8
    <3>2. \/ conn[d].status = "qsWait" /\ conn[d].pq = "ok"
          \/ conn[d].status # "qsReady" /\ Doomed(d)
      BY <1>2, <1>12, <2>1, <3>1 DEF Busy
    <3>3. ASSUME Doomed(d) PROVE Doomed(d)'
      <4>1. PICK i \in DOMAIN list : /\ handler[list[i]].type = "etDelete" /\ handler[list[i]].binding = d
                                     /\ i <= at
        BY <1>2, <3>3 DEF Doomed
      <4>2. list[i] # h /\ list[i] \in Handlers /\ i # at BY <1>3, <1>5, <3>1, <4>1
      <4>3. i \in 1 .. Len(list) - 1 /\ i < at /\ i <= at' BY <1>2, <1>3, <1>4, <4>1, <4>2
      <4>4. list'[i] = list[i] /\ i \in DOMAIN list'
        <5>1. DOMAIN list' = 1 .. Len(list') BY <1>6 DEF ObjectsOK
        <5> QED BY <1>7, <4>3, <5>1
      <4>5. handler'[list[i]].type = "etDelete" /\ handler'[list[i]].binding = d
        BY <1>6, <3>1, <4>1, <4>2
      <4>6. batch' = {} BY <1>1, <1>2 DEF Cursor
      <4> QED BY <1>2, <4>3, <4>4, <4>5, <4>6 DEF Doomed, Dispatching
    <3> QED BY <3>1, <3>2, <3>3
  <2> QED BY <1>2, <2>2 DEF Busy
<1> QED BY <1>6, <1>8, <1>10, <1>11, <1>12 DEF Inv

LEMMA ClearOK ==
  ASSUME Inv, Clear
  PROVE  Inv' /\ (SizeMin > 0 /\ Busy /\ Told => Busy' /\ Told')
<1>1. TypeOK /\ Wired(World) /\ Cursor BY DEF Inv
<1>2. /\ pc = "clear" /\ calls = <<>> /\ list # <<>> /\ batch = {}
      /\ handler[Last(list)].binding # DANGLING /\ Become(Destroy(World, Last(list)))
      /\ UNCHANGED <<queue, fate, active, timed, calls, pc, batch, cur, at, faults>>
  BY <1>1 DEF Clear, service, life, loop, Cursor
<1>3. PICK h \in Members(list) : h = Last(list)
  <2>1. list \in Seq(Handlers) /\ Len(list) \in 1 .. Len(list) /\ DOMAIN list = 1 .. Len(list)
    BY <1>1, <1>2, EmptySeq DEF TypeOK
  <2> QED BY <2>1 DEF Members, Last
<1>4. /\ ObjectsOK' /\ Wired(World)'
      /\ \A c \in Conns : IF c = handler[h].binding
                          THEN conn'[c] = Blank /\ work'[c] = NIL
                          ELSE conn'[c] = conn[c] /\ work'[c] = work[c]
  BY <1>2, <1>3, HandlerFreed
<1>5. /\ Frames' /\ WaitHasWork' /\ Once' /\ (Told => Told')
      /\ \A d \in InFlight' : d \in InFlight /\ d # handler[h].binding /\ conn'[d] = conn[d]
  BY <1>2, <1>4, FreedOK
<1>6. TypeOK' BY <1>1, <1>2, <1>4 DEF TypeOK, ObjectsOK
<1>7. Cursor' BY <1>2 DEF Cursor, Dispatching
<1>8. ASSUME Busy PROVE Busy'
  <2>1. \A d : ~Failing(d) /\ ~Doomed(d) BY <1>2 DEF Failing, Doomed
  <2>2. \A d \in InFlight' : conn'[d].status = "qsWait" /\ conn'[d].pq = "ok"
    BY <1>2, <1>5, <1>8, <2>1 DEF Busy
  <2> QED BY <1>2, <2>2 DEF Busy
<1> QED BY <1>4, <1>5, <1>6, <1>7, <1>8 DEF Inv

-----------------------------------------------------------------------------
(* Events of a connection.                                                  *)

\* A step of the loop that serves connection c, whose event handler h was taken from the batch, and
\* may start query p over, which was the first in the queue.
LEMMA ServedOK ==
  ASSUME Inv, calls = <<>>, NEW c \in Conns, NEW h \in Handlers, Gentle(NIL),
         handler[h].binding = c, \A k \in batch' : handler[k].binding # c, batch' \subseteq batch,
         \A d \in Conns \ {c} : conn'[d] = conn[d] /\ work'[d] = work[d],
         work'[c] \in {work[c], NIL},
         pc \in {"dispatch", "write", "executed", "notify", "fault"},
         pc' \in {"dispatch", "write", "executed", "notify", "fault"},
         Dispatching => cur.conn = c,
         Dispatching' => cur'.conn = c /\ cur'.handler = h,
         cur' \in Current, UNCHANGED <<at, active, timed>>, faults' \in 0 .. MaxFaults,
         NEW p \in Queries \cup {NIL},
         IF p = NIL
         THEN queue' = queue /\ calls' = <<>>
         ELSE /\ queue' \in Seq(Queries) /\ NoDuplicates(queue') /\ p \in Members(queue)
              /\ Members(queue') = Members(queue) \ {p}
              /\ calls' = <<StartFrame(p)>> /\ pc' = "dispatch",
         fate' \in [Queries -> {"new", "pending", "executed", "failed"}],
         \A q \in Queries : fate'[q] = fate[q] \/ (q = work[c] /\ fate'[q] = "executed"),
         pc' \in {"executed", "notify", "fault"} => conn'[c].status # "qsReady" \/ conn'[c].pq = "bad",
         pc' \in {"executed", "notify"} => cur'.saved # "qsWait",
         conn'[c].status = "qsWait" /\ work'[c] = NIL => pc' \in {"notify", "fault"},
         SizeMin > 0 /\ Busy /\ Told /\ work'[c] # NIL =>
           /\ pc' # "notify"
           /\ \/ conn'[c].status = "qsWait" /\ conn'[c].pq = "ok"
              \/ conn'[c].status # "qsReady" /\ (pc' \in {"executed", "fault"} \/ Doomed(c)')
           /\ \/ fate'[work[c]] = "pending" /\ conn'[c].status # "qsReady"
              \/ fate'[work[c]] = "executed" /\ pc' = "executed"
  PROVE  Inv' /\ (SizeMin > 0 /\ Busy /\ Told => Busy' /\ Told')
<1>1. TypeOK /\ Wired(World) /\ Frames /\ Cursor /\ WaitHasWork /\ Once BY DEF Inv
<1>2. /\ calls' \in Seq(Frame)
      /\ \A i \in DOMAIN calls' : /\ i = 1 /\ p \in Queries /\ calls'[1] = StartFrame(p)
                                  /\ calls'[i].query = p /\ calls'[i].step = "scan"
                                  /\ i = Len(calls') /\ FrameOK(calls[i])'
                                  /\ \A d : ~Making(calls'[i], d)
  <2>1. CASE p = NIL BY <2>1
  <2>2. CASE p # NIL
    <3>1. PICK f : f = StartFrame(p) OBVIOUS
    <3>2. p \in Queries BY <2>2
    <3>3. f \in Frame /\ f.query = p /\ f.step = "scan" /\ FrameOK(f)' /\ \A d : ~Making(f, d)
      BY <3>1, <3>2, StartFrameOK
    <3>4. calls' = <<f>> BY <2>2, <3>1
    <3>5. calls' \in Seq(Frame) /\ Len(calls') = 1 /\ DOMAIN calls' = {1} /\ calls'[1] = f
      BY <3>3, <3>4
    <3>6. FrameOK(calls[1])' BY <3>3, <3>5 DEF FrameOK, RoomFor
    <3> QED BY <3>1, <3>2, <3>3, <3>5, <3>6
  <2> QED BY <2>1, <2>2
<1>3. queue \in Seq(Queries) /\ batch \subseteq Handlers /\ handler[h].type # "none"
  BY <1>1, Distinct DEF TypeOK, Wired, World
<1>4. /\ queue' \in Seq(Queries) /\ NoDuplicates(queue') /\ Members(queue') \subseteq Members(queue)
      /\ p \in Queries => p \in Members(queue) /\ p \notin Members(queue')
      /\ calls' # <<>> => p \in Queries
  <2>1. NoDuplicates(queue) BY <1>1 DEF Once
  <2> QED BY <1>3, <2>1, Distinct
<1>5. TypeOK'
  <2>1. batch' \subseteq Handlers BY <1>3
  <2> QED BY <1>1, <1>2, <1>4, <2>1 DEF TypeOK, Gentle, ObjectsOK
<1>6. Frames' BY <1>2, Distinct DEF Frames, Making
<1>7. \A k \in Handlers : handler[k].type # "none" =>
        /\ handler'[k].type # "none"
        /\ handler[k].type = "etDelete" => handler'[k].type = "etDelete"
        /\ handler'[k].binding \in Conns => handler'[k].binding = handler[k].binding
        /\ handler[k].binding \in Conns => handler'[k].binding = handler[k].binding
  BY Distinct DEF Gentle
<1>8. \A k \in batch' : k \in Handlers /\ k \in batch /\ handler[k].type # "none"
  BY <1>1, <1>3 DEF Cursor
<1>9. Cursor'
  <2>1. \A k \in batch' : handler'[k].type # "none" BY <1>7, <1>8
  <2>2. \A k, l \in batch' : handler'[k].binding \in Conns /\ handler'[k].binding = handler'[l].binding => k = l
    BY <1>1, <1>7, <1>8 DEF Cursor
  <2>3. ASSUME Dispatching'
        PROVE  /\ cur'.conn \in Conns /\ cur'.handler \in Handlers
               /\ handler'[cur'.handler].binding = cur'.conn
               /\ \A k \in batch' : handler'[k].binding # cur'.conn
    BY <1>3, <1>7, <1>8, <2>3
  <2>4. \A i \in DOMAIN calls' : \A d : ~Making(calls'[i], d) /\ calls'[i].step # "failing" BY <1>2
  <2>5. pc' = "write" => calls' = <<>> OBVIOUS
  <2>6. pc' \in {"executed", "notify", "fault"} =>
          conn'[cur'.conn].status # "qsReady" \/ conn'[cur'.conn].pq = "bad"
    BY DEF Dispatching
  <2>7. pc' \notin {"wait", "shrink", "pack", "clear", "undefined"} OBVIOUS
  <2> QED BY <2>1, <2>2, <2>3, <2>4, <2>5, <2>6, <2>7 DEF Cursor, Dispatching
<1>10. \A d \in InFlight' : d \in Conns /\ d \in InFlight /\ work'[d] = work[d]
                            /\ (d = c => work'[c] # NIL)
  BY DEF InFlight
<1>11. WaitHasWork'
  <2>1. ASSUME NEW d \in Conns \ InFlight', conn'[d].status = "qsWait"
        PROVE  pc' \in {"notify", "fault"} /\ cur'.conn = d
    <3>1. CASE d = c
      <4>1. work'[c] = NIL BY <2>1, <3>1 DEF InFlight
      <4> QED BY <2>1, <3>1, <4>1 DEF Dispatching
    <3>2. CASE d # c
      <4>1. d \notin InFlight /\ conn[d].status = "qsWait" BY <2>1, <3>2 DEF InFlight
      <4>2. pc \in {"notify", "fault"} /\ cur.conn = d BY <1>1, <4>1 DEF WaitHasWork
      <4> QED BY <3>2, <4>2 DEF Dispatching
    <3> QED BY <3>1, <3>2
  <2> QED BY <2>1 DEF WaitHasWork
<1>12. \A q \in Members(queue) : q \in Queries /\ q # work[c]
  <2>1. \A q \in Members(queue) : q \in Queries BY <1>3 DEF Members
  <2> QED BY <1>1, <2>1, Distinct DEF Once, InFlight
<1>13. \A d \in Conns : work'[d] \in {work[d], NIL} OBVIOUS
<1>14. Once'
  <2>1. \A d, e \in InFlight' : work'[d] = work'[e] => d = e BY <1>1, <1>10 DEF Once
  <2>2. \A d \in InFlight' : work'[d] \notin Members(queue') BY <1>1, <1>4, <1>10 DEF Once
  <2>3. ASSUME NEW i \in DOMAIN calls', NEW q \in Queries, Asked(i, q)'
        PROVE  /\ q \notin Members(queue')
               /\ \A d \in Conns : work'[d] # q
               /\ \A j \in DOMAIN calls' : calls'[j].query = q => i = j
    <3>1. q = p /\ p \in Queries BY <1>2, <2>3 DEF Asked
    <3>2. \A d \in Conns : work[d] # p BY <1>1, <1>4, <3>1, Distinct DEF Once, InFlight
    <3> QED BY <1>2, <1>4, <1>13, <3>1, <3>2, Distinct
  <2>4. ASSUME NEW q \in Queries, fate'[q] = "new"
        PROVE  /\ q \notin Members(queue')
               /\ \A d \in Conns : work'[d] # q
               /\ \A i \in DOMAIN calls' : calls'[i].query # q
    <3>1. fate[q] = "new" BY <2>4
    <3>2. q \notin Members(queue) /\ \A d \in Conns : work[d] # q BY <1>1, <3>1 DEF Once
    <3> QED BY <1>2, <1>4, <1>13, <3>2, Distinct
  <2> QED BY <1>4, <2>1, <2>2, <2>3, <2>4 DEF Once
<1>15. ASSUME SizeMin > 0, Busy, Told PROVE Busy' /\ Told'
  <2>1. \A d : ~Failing(d) BY DEF Failing
  <2>2. ASSUME NEW d \in InFlight', d # c, Doomed(d) PROVE Doomed(d)'
    <3>1. PICK i \in DOMAIN list : handler[list[i]].type = "etDelete" /\ handler[list[i]].binding = d
      BY <2>2 DEF Doomed
    <3>2. list[i] \in Handlers /\ d \in Conns BY <1>1, <1>10 DEF TypeOK
    <3>3. i \in DOMAIN list' /\ list'[i] = list[i] BY DEF Gentle
    <3>4. handler'[list[i]].type = "etDelete" /\ handler'[list[i]].binding = d
      BY <1>7, <3>1, <3>2
    <3>5. \A k \in batch' : handler'[k].binding # d BY <1>7, <1>8, <2>2, <3>2 DEF Doomed
    <3> QED BY <2>2, <3>3, <3>4, <3>5 DEF Doomed, Dispatching
  <2>3. ASSUME NEW d \in InFlight'
        PROVE  \/ conn'[d].status = "qsWait" /\ conn'[d].pq = "ok"
               \/ /\ conn'[d].status # "qsReady"
                  /\ (pc' \in {"executed", "fault"} /\ cur'.conn = d) \/ Doomed(d)'
    <3>1. CASE d = c
      <4>1. work'[c] # NIL BY <1>10, <3>1
      <4>2. \/ conn'[c].status = "qsWait" /\ conn'[c].pq = "ok"
            \/ conn'[c].status # "qsReady" /\ (pc' \in {"executed", "fault"} \/ Doomed(c)')
        BY <1>15, <4>1
      <4>3. pc' \in {"executed", "fault"} => cur'.conn = c BY DEF Dispatching
      <4> QED BY <3>1, <4>2, <4>3
    <3>2. CASE d # c
      <4>1. d \in InFlight /\ conn'[d] = conn[d] BY <1>10, <3>2
      <4>2. pc \in {"executed", "fault"} => cur.conn # d BY <3>2 DEF Dispatching
      <4>3. \/ conn[d].status = "qsWait" /\ conn[d].pq = "ok"
            \/ conn[d].status # "qsReady" /\ Doomed(d)
        BY <1>15, <2>1, <4>1, <4>2 DEF Busy
      <4> QED BY <2>2, <3>2, <4>1, <4>3
    <3> QED BY <3>1, <3>2
  <2>4. pc' = "notify" => work'[cur'.conn] = NIL BY <1>15 DEF Dispatching
  <2>5. Busy' BY <2>3, <2>4 DEF Busy
  <2>6. \A q \in Members(queue) : fate'[q] = "pending" BY <1>12, <1>15 DEF Told
  <2>7. \A q \in Members(queue') : fate'[q] = "pending" BY <1>4, <2>6
  <2>8. \A i \in DOMAIN calls' : calls'[i].query # NIL =>
          fate'[calls'[i].query] = IF calls'[i].step = "failing" THEN "failed" ELSE "pending"
    BY <1>2, <1>4, <2>6
  <2>9. ASSUME NEW d \in InFlight'
        PROVE  \/ fate'[work'[d]] = "pending" /\ conn'[d].status # "qsReady"
               \/ fate'[work'[d]] = "executed" /\ pc' = "executed" /\ cur'.conn = d
    <3>1. CASE d = c
      <4>1. work'[c] # NIL /\ work'[c] = work[c] BY <1>10, <3>1
      <4>2. \/ fate'[work[c]] = "pending" /\ conn'[c].status # "qsReady"
            \/ fate'[work[c]] = "executed" /\ pc' = "executed"
        BY <1>15, <4>1
      <4> QED BY <3>1, <4>1, <4>2 DEF Dispatching
    <3>2. CASE d # c
      <4>1. d \in Conns /\ d \in InFlight /\ conn'[d] = conn[d] /\ work'[d] = work[d] BY <1>10, <3>2
      <4>2. work[d] \in Queries BY <1>1, <4>1 DEF TypeOK, InFlight
      <4>3. work[d] # work[c]
        <5>1. c \in InFlight => work[d] # work[c] BY <1>1, <3>2, <4>1 DEF Once
        <5>2. c \notin InFlight => work[c] = NIL BY DEF InFlight
        <5> QED BY <4>2, <5>1, <5>2, Distinct
      <4>4. fate'[work[d]] = fate[work[d]] BY <4>2, <4>3
      <4>5. fate[work[d]] = "pending" /\ conn[d].status # "qsReady"
        BY <1>15, <2>1, <3>2, <4>1 DEF Told, Dispatching
      <4> QED BY <4>1, <4>4, <4>5
    <3> QED BY <3>1, <3>2
  <2>10. Told' BY <2>7, <2>8, <2>9 DEF Told
  <2> QED BY <2>5, <2>10
<1>16. Wired(World)' BY DEF Gentle
<1> QED BY <1>5, <1>6, <1>9, <1>11, <1>14, <1>15, <1>16 DEF Inv

LEMMA ReadsIs ==
  ASSUME Inv, NEW h \in batch, Reads(h), NEW c, c = Bound(h)
  PROVE  /\ calls = <<>> /\ pc = "dispatch" /\ h \in Handlers /\ c \in Conns /\ c \in Members(pool)
         /\ c \in Members(World.pool) /\ handler[h].binding = c
         /\ batch' \subseteq batch /\ \A k \in batch' : handler[k].binding # c
         /\ UNCHANGED <<queue, active, timed, calls, at>>
         /\ conn[c] \in ConnRec /\ ObjectsOK /\ World \in Worlds /\ Wired(World)
<1>1. TypeOK /\ Wired(World) /\ Cursor BY DEF Inv
<1>2. /\ calls = <<>> /\ pc = "dispatch" /\ batch' = batch \ {h} /\ c \in Conns
      /\ handler[h].binding = c /\ UNCHANGED <<queue, active, timed, calls, at>>
  BY DEF Reads, Take, Running, Bound, life
<1>3. h \in Handlers /\ conn[c] \in ConnRec /\ ObjectsOK BY <1>1, <1>2 DEF TypeOK, ObjectsOK
<1>4. c \in Members(pool) BY <1>1, <1>2, <1>3 DEF Wired, World
<1>5. \A k \in batch' : handler[k].binding # c BY <1>1, <1>2 DEF Cursor
<1> QED BY <1>1, <1>2, <1>3, <1>4, <1>5, WorldOK DEF World

LEMMA CursorIs ==
  ASSUME Inv, Dispatching, calls = <<>>, NEW c, c = cur.conn
  PROVE  /\ c \in Conns /\ c \in Members(pool) /\ c \in Members(World.pool)
         /\ cur.handler \in Handlers /\ handler[cur.handler].binding = c
         /\ \A k \in batch : handler[k].binding # c
         /\ conn[c] \in ConnRec /\ ObjectsOK /\ World \in Worlds /\ Wired(World)
         /\ cur \in Current /\ cur.saved \in Statuses
<1>1. TypeOK /\ Wired(World) /\ Cursor BY DEF Inv
<1>2. /\ c \in Conns /\ cur.handler \in Handlers /\ handler[cur.handler].binding = c
      /\ \A k \in batch : handler[k].binding # c
  BY <1>1 DEF Cursor
<1>3. conn[c] \in ConnRec /\ ObjectsOK /\ cur \in Current BY <1>1, <1>2 DEF TypeOK, ObjectsOK
<1>4. c \in Members(pool) BY <1>1, <1>2 DEF Wired, World
<1> QED BY <1>1, <1>2, <1>3, <1>4, WorldOK DEF World, Current

LEMMA EventIs ==
  ASSUME NEW h \in Handlers, NEW c \in Conns, NEW out \in BOOLEAN, NEW v \in Statuses,
         NEW e, e = Event(h, c, out, v)
  PROVE  e \in Current /\ e.handler = h /\ e.conn = c /\ e.out = out /\ e.saved = v
BY DEF Event, Current

LEMMA AfterReadIs ==
  ASSUME NEW w, NEW e \in Current, AfterRead(w, e)
  PROVE  pc' \in {"write", "dispatch"} /\ cur' \in Current /\ (pc' = "write" => cur' = e)
BY IdleEvent DEF AfterRead

\* A connection that has an event and works on a query waits for the answer.
LEMMA AwaitsAnswer ==
  ASSUME Busy, Told, calls = <<>>, pc \in {"dispatch", "write"}, NEW c \in Conns, work[c] # NIL,
         (\E h \in batch : handler[h].binding = c) \/ (pc = "write" /\ cur.conn = c)
  PROVE  conn[c].status = "qsWait" /\ conn[c].pq = "ok" /\ fate[work[c]] = "pending"
<1>1. c \in InFlight BY DEF InFlight
<1>2. ~Failing(c) BY DEF Failing
<1>3. ~Doomed(c) BY DEF Doomed, Dispatching
<1> QED BY <1>1, <1>2, <1>3 DEF Busy, Told

LEMMA TouchedServes ==
  ASSUME NEW w \in Worlds, Wired(w), NEW c \in Conns, c \in Members(w.pool), NEW v, v = Touched(w, c)
  PROVE  Serves(w, v, c) /\ v.conn[c].status = w.conn[c].status /\ v.conn[c].pq = w.conn[c].pq
<1>1. PICK r : r = [w.conn[c] EXCEPT !.fresh = TRUE, !.full = FALSE] OBVIOUS
<1>2. w.conn[c] \in ConnRec BY DEF Worlds
<1>3. /\ r \in ConnRec /\ r.fd = w.conn[c].fd /\ r.handler = w.conn[c].handler /\ r.pq = w.conn[c].pq
      /\ r.status = w.conn[c].status
  BY <1>1, <1>2 DEF ConnRec
<1>4. v = SetConn(w, c, r) BY <1>1 DEF Touched
<1>5. Serves(w, v, c) /\ v.conn[c] = r BY <1>3, <1>4, RecordEdited
<1> QED BY <1>3, <1>5

LEMMA ReadPollsOK ==
  ASSUME Inv, NEW h \in batch, NEW out \in BOOLEAN, ReadPolls(h, out)
  PROVE  Inv' /\ (SizeMin > 0 /\ Busy /\ Told => Busy' /\ Told')
<1>1. PICK c : c = Bound(h) OBVIOUS
<1>2. Reads(h) /\ Connecting(c) /\ fate' = fate BY <1>1 DEF ReadPolls
<1>3. /\ calls = <<>> /\ pc = "dispatch" /\ h \in Handlers /\ c \in Conns /\ c \in Members(pool)
      /\ c \in Members(World.pool) /\ handler[h].binding = c
      /\ batch' \subseteq batch /\ \A k \in batch' : handler[k].binding # c
      /\ UNCHANGED <<queue, active, timed, calls, at>>
      /\ conn[c] \in ConnRec /\ ObjectsOK /\ World \in Worlds /\ Wired(World)
  BY <1>1, <1>2, ReadsIs
<1>4. PICK e : e = Event(h, c, out, conn[c].status) OBVIOUS
<1>5. e \in Current /\ e.handler = h /\ e.conn = c
  <2>1. conn[c].status \in Statuses BY <1>3 DEF ConnRec
  <2> QED BY <1>3, <1>4, <2>1, EventIs
<1>6. PICK o \in Polled(World, c) :
        /\ Disturb(o.cost)
        /\ IF Failed(o.world, c)
           THEN Become(o.world) /\ Callback("fault", e)
           ELSE LET w == Touched(CheckSocket(o.world, c), c)
                IN HandlerAtHand(o.world, c) /\ Become(w) /\ AfterRead(w, e)
  BY <1>1, <1>4 DEF ReadPolls
<1>7. PICK w : w = o.world OBVIOUS
<1>8. /\ Serves(World, w, c) /\ w.handler = handler /\ o.cost \in {0, 1}
      /\ w.conn[c].status = conn[c].status
  BY <1>3, <1>7, PolledServes, SocketsAreFds DEF World
<1>9. faults' \in 0 .. MaxFaults
  <2>1. faults \in 0 .. MaxFaults /\ MaxFaults \in Nat BY LimitAssumption DEF Inv, TypeOK
  <2>2. faults + o.cost <= MaxFaults /\ faults' = faults + o.cost BY <1>6 DEF Disturb
  <2> QED BY <1>8, <2>1, <2>2
<1>10. /\ fate \in [Queries -> {"new", "pending", "executed", "failed"}]
       /\ NIL \in Queries \cup {NIL}
  BY DEF Inv, TypeOK
<1>11. ASSUME Busy, Told PROVE work[c] = NIL
  BY <1>2, <1>3, <1>11, AwaitsAnswer DEF Connecting
<1>12. PICK v :
        /\ Serves(World, v, c) /\ v.conn[c].status = conn[c].status /\ Become(v)
        /\ pc' \in {"fault", "write", "dispatch"} /\ cur' \in Current
        /\ Dispatching' => cur' = e
  <2>1. CASE Failed(w, c)
    <3>1. Become(w) /\ pc' = "fault" /\ cur' = e BY <1>6, <1>7, <2>1 DEF Callback
    <3> QED BY <1>5, <1>8, <3>1
  <2>2. CASE ~Failed(w, c)
    <3>1. PICK u : u = CheckSocket(w, c) OBVIOUS
    <3>2. PICK v : v = Touched(u, c) OBVIOUS
    <3>3. HandlerAtHand(w, c) /\ Become(v) /\ AfterRead(v, e) BY <1>6, <1>7, <2>2, <3>1, <3>2
    <3>4. w \in Worlds /\ Wired(w) /\ c \in Members(w.pool) BY <1>3, <1>8 DEF Serves, Keeps, World
    <3>5. w.conn[c].socket # NIL \/ w.conn[c].fd = NIL \/ \E g \in Handlers : w.handler[g].type = "none"
      BY <1>8, <3>3 DEF HandlerAtHand, FreeHandlers
    <3>6. Serves(w, u, c) /\ u.conn[c].status = w.conn[c].status BY <1>3, <3>1, <3>4, <3>5, SocketChecked
    <3>7. u \in Worlds /\ Wired(u) /\ c \in Members(u.pool) BY <3>4, <3>6 DEF Serves, Keeps
    <3>8. Serves(u, v, c) /\ v.conn[c].status = u.conn[c].status BY <1>3, <3>2, <3>7, TouchedServes
    <3>9. Serves(World, v, c) BY <1>8, <3>6, <3>8, ServesTwice
    <3>10. pc' \in {"write", "dispatch"} /\ cur' \in Current /\ (pc' = "write" => cur' = e)
      BY <1>5, <3>3, AfterReadIs
    <3> QED BY <1>8, <3>3, <3>6, <3>8, <3>9, <3>10 DEF Dispatching
  <2> QED BY <2>1, <2>2
<1>13. /\ Gentle(NIL) /\ work' = work /\ conn' = v.conn
       /\ \A d \in Conns \ {c} : conn'[d] = conn[d]
  BY <1>3, <1>12, GentlyServed
<1>14. conn'[c].status \notin {"qsReady", "qsWait"} BY <1>2, <1>12, <1>13 DEF Connecting
<1>15. pc' \notin {"executed", "notify"} BY <1>12
<1>16. Dispatching' => cur'.conn = c /\ cur'.handler = h BY <1>5, <1>12
<1>17. ~Dispatching BY <1>3 DEF Dispatching
<1> QED BY <1>2, <1>3, <1>9, <1>10, <1>11, <1>12, <1>13, <1>14, <1>15, <1>16, <1>17, ServedOK

LEMMA ReadIgnoredOK ==
  ASSUME Inv, NEW h \in batch, NEW out \in BOOLEAN, ReadIgnored(h, out)
  PROVE  Inv' /\ (SizeMin > 0 /\ Busy /\ Told => Busy' /\ Told')
<1>1. PICK c : c = Bound(h) OBVIOUS
<1>2. Reads(h) /\ conn[c].status \in {"qsError", "qsWait"} /\ UNCHANGED <<fate, faults>>
  BY <1>1 DEF ReadIgnored
<1>3. /\ calls = <<>> /\ pc = "dispatch" /\ h \in Handlers /\ c \in Conns /\ c \in Members(pool)
      /\ c \in Members(World.pool) /\ handler[h].binding = c
      /\ batch' \subseteq batch /\ \A k \in batch' : handler[k].binding # c
      /\ UNCHANGED <<queue, active, timed, calls, at>>
      /\ conn[c] \in ConnRec /\ ObjectsOK /\ World \in Worlds /\ Wired(World)
  BY <1>1, <1>2, ReadsIs
<1>4. PICK e : e = Event(h, c, out, conn[c].status) OBVIOUS
<1>5. e \in Current /\ e.handler = h /\ e.conn = c
  <2>1. conn[c].status \in Statuses BY <1>3 DEF ConnRec
  <2> QED BY <1>3, <1>4, <2>1, EventIs
<1>6. PICK v : v = Touched(World, c) OBVIOUS
<1>7. Become(v) /\ AfterRead(v, e) BY <1>1, <1>4, <1>6 DEF ReadIgnored
<1>8. Serves(World, v, c) /\ v.conn[c].status = conn[c].status /\ v.conn[c].pq = conn[c].pq
  BY <1>3, <1>6, TouchedServes DEF World
<1>9. /\ Gentle(NIL) /\ work' = work /\ conn' = v.conn
      /\ \A d \in Conns \ {c} : conn'[d] = conn[d]
  BY <1>3, <1>7, <1>8, GentlyServed
<1>10. pc' \in {"write", "dispatch"} /\ cur' \in Current /\ (pc' = "write" => cur' = e)
  BY <1>5, <1>7, AfterReadIs
<1>11. /\ fate \in [Queries -> {"new", "pending", "executed", "failed"}]
       /\ NIL \in Queries \cup {NIL} /\ faults' \in 0 .. MaxFaults /\ WaitHasWork
  BY <1>2 DEF Inv, TypeOK
<1>12. ~(conn'[c].status = "qsWait" /\ work'[c] = NIL)
  BY <1>3, <1>8, <1>9, <1>11 DEF WaitHasWork, InFlight
<1>13. SizeMin > 0 /\ Busy /\ Told /\ work'[c] # NIL =>
         /\ pc' # "notify" /\ conn'[c].status = "qsWait" /\ conn'[c].pq = "ok"
         /\ fate'[work[c]] = "pending" /\ conn'[c].status # "qsReady"
  BY <1>2, <1>3, <1>8, <1>9, <1>10, AwaitsAnswer
<1>14. pc' \notin {"executed", "notify", "fault"} BY <1>10
<1>15. Dispatching' => cur'.conn = c /\ cur'.handler = h BY <1>5, <1>10 DEF Dispatching
<1>16. ~Dispatching BY <1>3 DEF Dispatching
<1> QED BY <1>2, <1>3, <1>9, <1>10, <1>11, <1>12, <1>13, <1>14, <1>15, <1>16, ServedOK

LEMMA StatusSet ==
  ASSUME NEW w \in Worlds, Wired(w), NEW c \in Conns, c \in Members(w.pool), NEW st \in Statuses,
         NEW v, v = SetStatus(w, c, st)
  PROVE  Serves(w, v, c) /\ v.conn[c].status = st /\ v.conn[c].pq = w.conn[c].pq
<1>1. PICK r : r = [w.conn[c] EXCEPT !.status = st] OBVIOUS
<1>2. w.conn[c] \in ConnRec BY DEF Worlds
<1>3. /\ r \in ConnRec /\ r.fd = w.conn[c].fd /\ r.handler = w.conn[c].handler /\ r.pq = w.conn[c].pq
      /\ r.status = st
  BY <1>1, <1>2 DEF ConnRec
<1>4. v = SetConn(w, c, r) BY <1>1 DEF SetStatus
<1>5. Serves(w, v, c) /\ v.conn[c] = r BY <1>3, <1>4, RecordEdited
<1> QED BY <1>3, <1>5

LEMMA ReadNotifiedOK ==
  ASSUME Inv, NEW h \in batch, NEW out \in BOOLEAN, ReadNotified(h, out)
  PROVE  Inv' /\ (SizeMin > 0 /\ Busy /\ Told => Busy' /\ Told')
<1>1. PICK c : c = Bound(h) OBVIOUS
<1>2. /\ Reads(h) /\ UNCHANGED <<fate, faults>>
      /\ conn[c].status = "qsReady" \/ (conn[c].status = "qsWait" /\ work[c] = NIL)
  BY <1>1 DEF ReadNotified
<1>3. /\ calls = <<>> /\ pc = "dispatch" /\ h \in Handlers /\ c \in Conns /\ c \in Members(pool)
      /\ c \in Members(World.pool) /\ handler[h].binding = c
      /\ batch' \subseteq batch /\ \A k \in batch' : handler[k].binding # c
      /\ UNCHANGED <<queue, active, timed, calls, at>>
      /\ conn[c] \in ConnRec /\ ObjectsOK /\ World \in Worlds /\ Wired(World)
  BY <1>1, <1>2, ReadsIs
<1>4. /\ fate \in [Queries -> {"new", "pending", "executed", "failed"}]
      /\ NIL \in Queries \cup {NIL} /\ faults' \in 0 .. MaxFaults /\ WaitHasWork
  BY <1>2 DEF Inv, TypeOK
<1>5. conn[c].status = "qsReady" BY <1>2, <1>3, <1>4 DEF WaitHasWork, InFlight
<1>6. PICK e : e = Event(h, c, out, conn[c].status) OBVIOUS
<1>7. e \in Current /\ e.handler = h /\ e.conn = c /\ e.saved = "qsReady"
  <2>1. conn[c].status \in Statuses BY <1>3 DEF ConnRec
  <2> QED BY <1>3, <1>5, <1>6, <2>1, EventIs
<1>8. PICK v : v = SetStatus(World, c, "qsWait") OBVIOUS
<1>9. Become(v) /\ pc' = "notify" /\ cur' = e
  BY <1>1, <1>6, <1>8 DEF ReadNotified, CheckNotify, Callback
<1>10. Serves(World, v, c) /\ v.conn[c].status = "qsWait"
  <2>1. "qsWait" \in Statuses BY DEF Statuses
  <2> QED BY <1>3, <1>8, <2>1, StatusSet
<1>11. /\ Gentle(NIL) /\ work' = work /\ conn' = v.conn
       /\ \A d \in Conns \ {c} : conn'[d] = conn[d]
  BY <1>3, <1>9, <1>10, GentlyServed
<1>12. ASSUME Busy, Told PROVE work[c] = NIL BY <1>3, <1>5, <1>12, AwaitsAnswer
<1>13. ~Dispatching BY <1>3 DEF Dispatching
<1>14. conn'[c].status # "qsReady" BY <1>10, <1>11
<1>15. cur'.conn = c /\ cur'.handler = h /\ cur' \in Current /\ cur'.saved # "qsWait" BY <1>7, <1>9
<1> QED BY <1>2, <1>3, <1>4, <1>9, <1>11, <1>12, <1>13, <1>14, <1>15, ServedOK

LEMMA LimitKept ==
  ASSUME TypeOK, Undisturbed \/ Disturb(1)
  PROVE  faults' \in 0 .. MaxFaults
BY LimitAssumption DEF TypeOK, Undisturbed, Disturb

LEMMA ReadThrowsOK ==
  ASSUME Inv, NEW h \in batch, NEW out \in BOOLEAN, ReadThrows(h, out)
  PROVE  Inv' /\ (SizeMin > 0 /\ Busy /\ Told => Busy' /\ Told')
<1>1. PICK c : c = Bound(h) OBVIOUS
<1>2. Reads(h) /\ conn[c].status \in {"qsReady", "qsWait"} /\ fate' = fate /\ (Undisturbed \/ Disturb(1))
  BY <1>1 DEF ReadThrows
<1>3. /\ calls = <<>> /\ pc = "dispatch" /\ h \in Handlers /\ c \in Conns /\ c \in Members(pool)
      /\ c \in Members(World.pool) /\ handler[h].binding = c
      /\ batch' \subseteq batch /\ \A k \in batch' : handler[k].binding # c
      /\ UNCHANGED <<queue, active, timed, calls, at>>
      /\ conn[c] \in ConnRec /\ ObjectsOK /\ World \in Worlds /\ Wired(World)
  BY <1>1, <1>2, ReadsIs
<1>4. /\ fate \in [Queries -> {"new", "pending", "executed", "failed"}]
      /\ NIL \in Queries \cup {NIL} /\ faults' \in 0 .. MaxFaults
  <2>1. TypeOK BY DEF Inv
  <2> QED BY <1>2, <2>1, LimitKept DEF TypeOK
<1>5. PICK e : e = Event(h, c, out, conn[c].status) OBVIOUS
<1>6. e \in Current /\ e.handler = h /\ e.conn = c
  <2>1. conn[c].status \in Statuses BY <1>3 DEF ConnRec
  <2> QED BY <1>3, <1>5, <2>1, EventIs
<1>7. PICK v : v = Moves(World, c, "bad", NIL) OBVIOUS
<1>8. Become(v) /\ pc' = "fault" /\ cur' = e BY <1>1, <1>5, <1>7 DEF ReadThrows, Callback
<1>9. Serves(World, v, c) /\ v.conn[c].status = conn[c].status /\ v.conn[c].pq = "bad"
  BY <1>3, <1>7, SocketMoved DEF World
<1>10. /\ Gentle(NIL) /\ work' = work /\ conn' = v.conn
       /\ \A d \in Conns \ {c} : conn'[d] = conn[d]
  BY <1>3, <1>8, <1>9, GentlyServed
<1>11. ~Dispatching BY <1>3 DEF Dispatching
<1>12. SizeMin > 0 /\ Busy /\ Told /\ work'[c] # NIL =>
         conn'[c].status # "qsReady" /\ fate'[work[c]] = "pending"
  BY <1>2, <1>3, <1>9, <1>10, AwaitsAnswer
<1>13. cur'.conn = c /\ cur'.handler = h /\ cur' \in Current BY <1>6, <1>8
<1> QED BY <1>2, <1>3, <1>4, <1>8, <1>9, <1>10, <1>11, <1>12, <1>13, ServedOK

LEMMA ReadResultOK ==
  ASSUME Inv, NEW h \in batch, NEW out \in BOOLEAN, ReadResult(h, out)
  PROVE  Inv' /\ (SizeMin > 0 /\ Busy /\ Told => Busy' /\ Told')
<1>1. PICK c : c = Bound(h) OBVIOUS
<1>2. /\ Reads(h) /\ conn[c].status = "qsWait" /\ work[c] # NIL
      /\ fate' = [fate EXCEPT ![work[c]] = "executed"]
      /\ \/ Undisturbed /\ UNCHANGED objects
         \/ Disturb(1) /\ Become(Moves(World, c, "bad", NIL))
  BY <1>1 DEF ReadResult
<1>3. /\ calls = <<>> /\ pc = "dispatch" /\ h \in Handlers /\ c \in Conns /\ c \in Members(pool)
      /\ c \in Members(World.pool) /\ handler[h].binding = c
      /\ batch' \subseteq batch /\ \A k \in batch' : handler[k].binding # c
      /\ UNCHANGED <<queue, active, timed, calls, at>>
      /\ conn[c] \in ConnRec /\ ObjectsOK /\ World \in Worlds /\ Wired(World)
  BY <1>1, <1>2, ReadsIs
<1>4. /\ fate \in [Queries -> {"new", "pending", "executed", "failed"}]
      /\ NIL \in Queries \cup {NIL} /\ faults' \in 0 .. MaxFaults /\ work[c] \in Queries
  <2>1. TypeOK BY DEF Inv
  <2> QED BY <1>2, <1>3, <2>1, LimitKept DEF TypeOK
<1>5. PICK e : e = Event(h, c, out, "qsReady") OBVIOUS
<1>6. e \in Current /\ e.handler = h /\ e.conn = c /\ e.saved = "qsReady"
  <2>1. "qsReady" \in Statuses BY DEF Statuses
  <2> QED BY <1>3, <1>5, <2>1, EventIs
<1>7. pc' = "executed" /\ cur' = e BY <1>1, <1>5 DEF ReadResult, Callback
<1>8. /\ Gentle(NIL) /\ work' = work /\ conn'[c].status = "qsWait"
      /\ \A d \in Conns \ {c} : conn'[d] = conn[d]
  <2>1. CASE UNCHANGED objects BY <1>2, <1>3, <2>1, GentlyUnchanged DEF objects
  <2>2. CASE Become(Moves(World, c, "bad", NIL))
    <3>1. PICK v : v = Moves(World, c, "bad", NIL) OBVIOUS
    <3>2. Become(v) BY <2>2, <3>1
    <3>3. Serves(World, v, c) /\ v.conn[c].status = conn[c].status
      BY <1>3, <3>1, SocketMoved DEF World
    <3> QED BY <1>2, <1>3, <3>2, <3>3, GentlyServed
  <2> QED BY <1>2, <2>1, <2>2
<1>9. ~Dispatching BY <1>3 DEF Dispatching
<1>10. /\ fate' \in [Queries -> {"new", "pending", "executed", "failed"}]
       /\ fate'[work[c]] = "executed"
       /\ \A q \in Queries : fate'[q] = fate[q] \/ (q = work[c] /\ fate'[q] = "executed")
  BY <1>2, <1>4
<1>11. cur'.conn = c /\ cur'.handler = h /\ cur' \in Current /\ cur'.saved # "qsWait" BY <1>6, <1>7
<1>12. ~(conn'[c].status = "qsWait" /\ work'[c] = NIL) /\ conn'[c].status # "qsReady"
  BY <1>2, <1>8
<1> QED BY <1>2, <1>3, <1>4, <1>7, <1>8, <1>9, <1>10, <1>11, <1>12, ServedOK

LEMMA DispatchWriteOK ==
  ASSUME Inv, NEW h \in batch, DispatchWrite(h)
  PROVE  Inv' /\ (SizeMin > 0 /\ Busy /\ Told => Busy' /\ Told')
<1>1. PICK c : c = Bound(h) OBVIOUS
<1>2. Reads(h) /\ UNCHANGED <<fate, faults>> BY DEF DispatchWrite
<1>3. /\ calls = <<>> /\ pc = "dispatch" /\ h \in Handlers /\ c \in Conns /\ c \in Members(pool)
      /\ c \in Members(World.pool) /\ handler[h].binding = c
      /\ batch' \subseteq batch /\ \A k \in batch' : handler[k].binding # c
      /\ UNCHANGED <<queue, active, timed, calls, at>>
      /\ conn[c] \in ConnRec /\ ObjectsOK /\ World \in Worlds /\ Wired(World)
  BY <1>1, <1>2, ReadsIs
<1>4. /\ fate \in [Queries -> {"new", "pending", "executed", "failed"}]
      /\ NIL \in Queries \cup {NIL} /\ faults' \in 0 .. MaxFaults /\ WaitHasWork
  BY <1>2 DEF Inv, TypeOK
<1>5. PICK e : e = Event(h, c, FALSE, conn[c].status) OBVIOUS
<1>6. e \in Current /\ e.handler = h /\ e.conn = c
  <2>1. conn[c].status \in Statuses BY <1>3 DEF ConnRec
  <2>2. PICK out \in BOOLEAN : out = FALSE OBVIOUS
  <2>3. e = Event(h, c, out, conn[c].status) BY <1>5, <2>2
  <2> QED BY <1>3, <2>1, <2>3, EventIs
<1>7. PICK r : r = [conn[c] EXCEPT !.full = FALSE] OBVIOUS
<1>8. /\ r \in ConnRec /\ r.fd = conn[c].fd /\ r.handler = conn[c].handler /\ r.pq = conn[c].pq
      /\ r.status = conn[c].status
  BY <1>3, <1>7 DEF ConnRec
<1>9. PICK v : v = SetConn(World, c, r) OBVIOUS
<1>10. Become(v) /\ pc' = "write" /\ cur' = e BY <1>1, <1>5, <1>7, <1>9 DEF DispatchWrite, Callback
<1>11. Serves(World, v, c) /\ v.conn[c] = r
  <2>1. World.conn = conn BY DEF World
  <2> QED BY <1>3, <1>8, <1>9, <2>1, RecordEdited
<1>12. /\ Gentle(NIL) /\ work' = work /\ conn' = v.conn
       /\ \A d \in Conns \ {c} : conn'[d] = conn[d]
  BY <1>3, <1>10, <1>11, GentlyServed
<1>13. ~Dispatching BY <1>3 DEF Dispatching
<1>14. ~(conn'[c].status = "qsWait" /\ work'[c] = NIL)
  BY <1>3, <1>4, <1>8, <1>11, <1>12 DEF WaitHasWork, InFlight
<1>15. SizeMin > 0 /\ Busy /\ Told /\ work'[c] # NIL =>
         /\ conn'[c].status = "qsWait" /\ conn'[c].pq = "ok"
         /\ fate'[work[c]] = "pending" /\ conn'[c].status # "qsReady"
  BY <1>2, <1>3, <1>8, <1>11, <1>12, AwaitsAnswer
<1>16. cur'.conn = c /\ cur'.handler = h /\ cur' \in Current BY <1>6, <1>10
<1> QED BY <1>2, <1>3, <1>4, <1>10, <1>12, <1>13, <1>14, <1>15, <1>16, ServedOK

LEMMA FirstTaken ==
  ASSUME NEW S, NEW s \in Seq(S), s # <<>>, NoDuplicates(s)
  PROVE  /\ Head(s) \in S /\ Head(s) \in Members(s)
         /\ Tail(s) \in Seq(S) /\ NoDuplicates(Tail(s))
         /\ Members(Tail(s)) = Members(s) \ {Head(s)}
<1>1. PICK t : t = Tail(s) OBVIOUS
<1>2. /\ t \in Seq(S) /\ Len(t) = Len(s) - 1
      /\ \A i \in DOMAIN t : i \in Nat /\ i >= 1 /\ i + 1 \in DOMAIN s /\ t[i] = s[i + 1]
  BY <1>1, FirstRemoved
<1>3. /\ Len(s) \in Nat /\ Len(s) > 0 /\ DOMAIN s = 1 .. Len(s) /\ Head(s) = s[1]
      /\ 1 \in DOMAIN s /\ DOMAIN t = 1 .. Len(t)
  BY <1>2, EmptySeq
<1>4. Head(s) \in S /\ Head(s) \in Members(s) BY <1>3 DEF Members
<1>5. NoDuplicates(t)
  <2> SUFFICES ASSUME NEW i \in DOMAIN t, NEW j \in DOMAIN t, t[i] = t[j] PROVE i = j
    BY DEF NoDuplicates
  <2>1. i + 1 = j + 1 BY <1>2 DEF NoDuplicates
  <2> QED BY <1>2, <2>1
<1>6. Members(t) \subseteq Members(s) \ {Head(s)}
  <2> SUFFICES ASSUME NEW i \in DOMAIN t PROVE t[i] \in Members(s) /\ t[i] # Head(s)
    BY DEF Members
  <2>1. i + 1 \in DOMAIN s /\ t[i] = s[i + 1] /\ i + 1 # 1 BY <1>2
  <2> QED BY <1>3, <2>1 DEF Members, NoDuplicates
<1>7. Members(s) \ {Head(s)} \subseteq Members(t)
  <2> SUFFICES ASSUME NEW k \in DOMAIN s, s[k] # Head(s) PROVE s[k] \in Members(t)
    BY DEF Members
  <2>1. k - 1 \in 1 .. Len(t) /\ (k - 1) + 1 = k BY <1>2, <1>3
  <2>2. k - 1 \in DOMAIN t BY <1>3, <2>1
  <2>3. t[k - 1] = s[k] BY <1>2, <2>1, <2>2
  <2> QED BY <2>2, <2>3 DEF Members
<1> QED BY <1>1, <1>2, <1>4, <1>5, <1>6, <1>7

LEMMA WriteStartsOK ==
  ASSUME Inv, WriteStarts
  PROVE  Inv' /\ (SizeMin > 0 /\ Busy /\ Told => Busy' /\ Told')
<1>1. PICK c : c = cur.conn OBVIOUS
<1>2. /\ pc = "write" /\ calls = <<>> /\ UNCHANGED <<fate, active, timed, batch, at, faults>>
      /\ pc' = "dispatch" /\ cur' = Idle
      /\ conn[c].status = "qsReady" \/ Connecting(c)
  BY <1>1 DEF WriteStarts, Running, life
<1>3. Dispatching BY <1>2 DEF Dispatching
<1>4. PICK h : h = cur.handler OBVIOUS
<1>5. /\ c \in Conns /\ c \in Members(pool) /\ c \in Members(World.pool)
      /\ h \in Handlers /\ handler[h].binding = c
      /\ \A k \in batch : handler[k].binding # c
      /\ conn[c] \in ConnRec /\ ObjectsOK /\ World \in Worlds /\ Wired(World)
  BY <1>1, <1>2, <1>3, <1>4, CursorIs
<1>6. PICK v : v = SetStatus(World, c, "qsReady") OBVIOUS
<1>7. Become(v) BY <1>1, <1>6 DEF WriteStarts
<1>8. Serves(World, v, c) /\ v.conn[c].status = "qsReady"
  <2>1. "qsReady" \in Statuses BY DEF Statuses
  <2> QED BY <1>5, <1>6, <2>1, StatusSet
<1>9. /\ Gentle(NIL) /\ work' = work /\ conn' = v.conn
      /\ \A d \in Conns \ {c} : conn'[d] = conn[d]
  BY <1>5, <1>7, <1>8, GentlyServed
<1>10. ASSUME Busy, Told PROVE work[c] = NIL
  BY <1>1, <1>2, <1>5, <1>10, AwaitsAnswer DEF Connecting
<1>11. TypeOK /\ NoDuplicates(queue) BY DEF Inv, Once
<1>12. /\ fate' \in [Queries -> {"new", "pending", "executed", "failed"}] /\ fate' = fate
       /\ faults' \in 0 .. MaxFaults /\ queue \in Seq(Queries) /\ cur' \in Current
  BY <1>2, <1>11, IdleEvent DEF TypeOK
<1>13. PICK p \in Queries \cup {NIL} :
         IF p = NIL
         THEN queue' = queue /\ calls' = <<>>
         ELSE /\ queue' \in Seq(Queries) /\ NoDuplicates(queue') /\ p \in Members(queue)
              /\ Members(queue') = Members(queue) \ {p}
              /\ calls' = <<StartFrame(p)>> /\ pc' = "dispatch"
  <2>1. CASE queue = <<>>
    <3>1. queue' = queue /\ calls' = <<>> BY <1>2, <2>1 DEF WriteStarts, CheckQueue
    <3>2. NIL \in Queries \cup {NIL} OBVIOUS
    <3> QED BY <3>1, <3>2
  <2>2. CASE queue # <<>>
    <3>1. PICK p : p = Head(queue) OBVIOUS
    <3>2. queue' = Tail(queue) /\ calls' = <<StartFrame(p)>>
      BY <2>2, <3>1 DEF WriteStarts, CheckQueue
    <3>3. /\ p \in Queries /\ p \in Members(queue)
          /\ queue' \in Seq(Queries) /\ NoDuplicates(queue')
          /\ Members(queue') = Members(queue) \ {p}
      BY <1>11, <1>12, <2>2, <3>1, <3>2, FirstTaken
    <3>4. p # NIL BY <3>3, Distinct
    <3> QED BY <1>2, <3>2, <3>3, <3>4
  <2> QED BY <2>1, <2>2
<1>14. ~Dispatching' BY <1>2 DEF Dispatching
<1>15. batch' \subseteq batch /\ \A k \in batch' : handler[k].binding # c BY <1>2, <1>5
<1>16. conn'[c].status # "qsWait" BY <1>8, <1>9
<1> QED BY <1>1, <1>2, <1>5, <1>9, <1>10, <1>12, <1>13, <1>14, <1>15, <1>16, ServedOK

LEMMA WritePollsOK ==
  ASSUME Inv, WritePolls
  PROVE  Inv' /\ (SizeMin > 0 /\ Busy /\ Told => Busy' /\ Told')
<1>1. PICK c : c = cur.conn OBVIOUS
<1>2. /\ pc = "write" /\ calls = <<>> /\ Connecting(c)
      /\ UNCHANGED <<queue, fate, active, timed, calls, batch, at>>
  BY <1>1 DEF WritePolls, Running, life, service
<1>3. Dispatching BY <1>2 DEF Dispatching
<1>4. PICK h : h = cur.handler OBVIOUS
<1>5. /\ c \in Conns /\ c \in Members(pool) /\ c \in Members(World.pool)
      /\ h \in Handlers /\ handler[h].binding = c
      /\ \A k \in batch : handler[k].binding # c
      /\ conn[c] \in ConnRec /\ ObjectsOK /\ World \in Worlds /\ Wired(World) /\ cur \in Current
  BY <1>1, <1>2, <1>3, <1>4, CursorIs
<1>6. PICK o \in Polled(World, c) :
        /\ Disturb(o.cost)
        /\ IF Failed(o.world, c)
           THEN Become(o.world) /\ Callback("fault", cur)
           ELSE /\ HandlerAtHand(o.world, c) /\ Become(CheckSocket(o.world, c))
                /\ pc' = "dispatch" /\ cur' = Idle
  BY <1>1 DEF WritePolls
<1>7. PICK w : w = o.world OBVIOUS
<1>8. /\ Serves(World, w, c) /\ w.handler = handler /\ o.cost \in {0, 1}
      /\ w.conn[c].status = conn[c].status
  BY <1>5, <1>7, PolledServes, SocketsAreFds DEF World
<1>9. faults' \in 0 .. MaxFaults
  <2>1. faults \in 0 .. MaxFaults /\ MaxFaults \in Nat BY LimitAssumption DEF Inv, TypeOK
  <2>2. faults + o.cost <= MaxFaults /\ faults' = faults + o.cost BY <1>6 DEF Disturb
  <2> QED BY <1>8, <2>1, <2>2
<1>10. /\ fate' \in [Queries -> {"new", "pending", "executed", "failed"}]
       /\ NIL \in Queries \cup {NIL} /\ Idle \in Current
  BY <1>2, IdleEvent DEF Inv, TypeOK
<1>11. ASSUME Busy, Told PROVE work[c] = NIL
  BY <1>1, <1>2, <1>5, <1>11, AwaitsAnswer DEF Connecting
<1>12. PICK v :
        /\ Serves(World, v, c) /\ v.conn[c].status = conn[c].status /\ Become(v)
        /\ \/ pc' = "fault" /\ cur' = cur
           \/ pc' = "dispatch" /\ cur' = Idle
  <2>1. CASE Failed(w, c)
    <3>1. Become(w) /\ pc' = "fault" /\ cur' = cur BY <1>6, <1>7, <2>1 DEF Callback
    <3> QED BY <1>8, <3>1
  <2>2. CASE ~Failed(w, c)
    <3>1. PICK u : u = CheckSocket(w, c) OBVIOUS
    <3>2. HandlerAtHand(w, c) /\ Become(u) /\ pc' = "dispatch" /\ cur' = Idle
      BY <1>6, <1>7, <2>2, <3>1
    <3>3. w \in Worlds /\ Wired(w) /\ c \in Members(w.pool) BY <1>5, <1>8 DEF Serves, Keeps, World
    <3>4. w.conn[c].socket # NIL \/ w.conn[c].fd = NIL \/ \E g \in Handlers : w.handler[g].type = "none"
      BY <1>8, <3>2 DEF HandlerAtHand, FreeHandlers
    <3>5. Serves(w, u, c) /\ u.conn[c].status = w.conn[c].status BY <1>5, <3>1, <3>3, <3>4, SocketChecked
    <3>6. Serves(World, u, c) BY <1>8, <3>5, ServesTwice
    <3> QED BY <1>8, <3>2, <3>5, <3>6
  <2> QED BY <2>1, <2>2
<1>13. /\ Gentle(NIL) /\ work' = work /\ conn' = v.conn
       /\ \A d \in Conns \ {c} : conn'[d] = conn[d]
  BY <1>5, <1>12, GentlyServed
<1>14. conn'[c].status \notin {"qsReady", "qsWait"} BY <1>2, <1>12, <1>13 DEF Connecting
<1>15. pc' \in {"dispatch", "fault"} /\ cur' \in Current BY <1>5, <1>10, <1>12
<1>16. Dispatching' => cur'.conn = c /\ cur'.handler = h BY <1>1, <1>4, <1>12 DEF Dispatching
<1>17. batch' \subseteq batch /\ \A k \in batch' : handler[k].binding # c BY <1>2, <1>5
<1> QED BY <1>1, <1>2, <1>5, <1>9, <1>10, <1>11, <1>13, <1>14, <1>15, <1>16, <1>17, ServedOK

LEMMA ResultDoneOK ==
  ASSUME Inv, ResultDone
  PROVE  Inv' /\ (SizeMin > 0 /\ Busy /\ Told => Busy' /\ Told')
<1>1. PICK c : c = cur.conn OBVIOUS
<1>2. /\ pc = "executed" /\ calls = <<>> /\ pc' \in {"notify", "fault"}
      /\ UNCHANGED <<queue, fate, active, timed, calls, batch, cur, at, faults>>
  BY DEF ResultDone, Running, life, service
<1>3. Dispatching BY <1>2 DEF Dispatching
<1>4. PICK h : h = cur.handler OBVIOUS
<1>5. /\ c \in Conns /\ c \in Members(pool) /\ c \in Members(World.pool)
      /\ h \in Handlers /\ handler[h].binding = c
      /\ \A k \in batch : handler[k].binding # c
      /\ conn[c] \in ConnRec /\ ObjectsOK /\ World \in Worlds /\ Wired(World) /\ cur \in Current
  BY <1>1, <1>2, <1>3, <1>4, CursorIs
<1>6. PICK x : x = SetWork(World, c, NIL) OBVIOUS
<1>7. PICK y : y = SetStatus(x, c, "qsReady") OBVIOUS
<1>8. PICK v : v = SetStatus(y, c, "qsWait") OBVIOUS
<1>9. Become(v) BY <1>1, <1>6, <1>7, <1>8 DEF ResultDone, CheckNotify, QueryStop
<1>10. "qsReady" \in Statuses /\ "qsWait" \in Statuses BY DEF Statuses
<1>11. NIL \in Queries \cup {NIL} OBVIOUS
<1>12. Serves(x, y, c) /\ c \in Members(y.pool)
  BY <1>5, <1>6, <1>7, <1>10, <1>11, Assigned
<1>13. Serves(y, v, c) /\ v.conn[c].status = "qsWait"
  <2>1. y \in Worlds /\ Wired(y) BY <1>12 DEF Serves
  <2> QED BY <1>5, <1>8, <1>10, <1>12, <2>1, StatusSet
<1>14. Serves(x, v, c) BY <1>12, <1>13, ServesTwice
<1>15. /\ Gentle(NIL) /\ work' = [work EXCEPT ![c] = NIL] /\ conn' = v.conn
       /\ \A d \in Conns \ {c} : conn'[d] = conn[d]
  BY <1>5, <1>6, <1>9, <1>11, <1>14, GentlyWorked
<1>16. TypeOK /\ Cursor BY DEF Inv
<1>17. /\ fate' \in [Queries -> {"new", "pending", "executed", "failed"}] /\ fate' = fate
       /\ faults' \in 0 .. MaxFaults /\ work'[c] = NIL
       /\ \A d \in Conns \ {c} : work'[d] = work[d]
  BY <1>2, <1>5, <1>15, <1>16 DEF TypeOK
<1>18. conn'[c].status = "qsWait" BY <1>13, <1>15
<1>19. cur'.saved # "qsWait" BY <1>2, <1>16 DEF Cursor
<1>20. batch' \subseteq batch /\ \A k \in batch' : handler[k].binding # c BY <1>2, <1>5
<1>21. /\ pc' \in {"dispatch", "write", "executed", "notify", "fault"}
       /\ conn'[c].status # "qsReady" /\ cur' \in Current
       /\ cur'.conn = c /\ cur'.handler = h /\ ~(work'[c] # NIL)
  BY <1>1, <1>2, <1>4, <1>5, <1>17, <1>18
<1> QED
  BY <1>1, <1>2, <1>5, <1>11, <1>15, <1>17, <1>19, <1>20, <1>21, ServedOK

LEMMA NotifyDoneOK ==
  ASSUME Inv, NotifyDone
  PROVE  Inv' /\ (SizeMin > 0 /\ Busy /\ Told => Busy' /\ Told')
<1>1. PICK c : c = cur.conn OBVIOUS
<1>2. /\ pc = "notify" /\ calls = <<>>
      /\ UNCHANGED <<queue, fate, active, timed, calls, batch, at, faults>>
  BY DEF NotifyDone, Running, life, service
<1>3. Dispatching BY <1>2 DEF Dispatching
<1>4. PICK h : h = cur.handler OBVIOUS
<1>5. /\ c \in Conns /\ c \in Members(pool) /\ c \in Members(World.pool)
      /\ h \in Handlers /\ handler[h].binding = c
      /\ \A k \in batch : handler[k].binding # c
      /\ conn[c] \in ConnRec /\ ObjectsOK /\ World \in Worlds /\ Wired(World)
      /\ cur \in Current /\ cur.saved \in Statuses
  BY <1>1, <1>2, <1>3, <1>4, CursorIs
<1>6. PICK r : r = [conn[c] EXCEPT !.status = cur.saved, !.fresh = TRUE, !.full = ~cur.out]
  OBVIOUS
<1>7. /\ r \in ConnRec /\ r.fd = conn[c].fd /\ r.handler = conn[c].handler /\ r.pq = conn[c].pq
      /\ r.status = cur.saved
  <2>1. cur.out \in BOOLEAN BY <1>5 DEF Current
  <2>2. PICK b \in BOOLEAN : b = ~cur.out BY <2>1
  <2>3. r = [conn[c] EXCEPT !.status = cur.saved, !.fresh = TRUE, !.full = b] BY <1>6, <2>2
  <2> QED BY <1>5, <2>2, <2>3 DEF ConnRec
<1>8. PICK v : v = SetConn(World, c, r) OBVIOUS
<1>9. Become(v) /\ AfterRead(v, cur) BY <1>1, <1>6, <1>8 DEF NotifyDone
<1>10. Serves(World, v, c) /\ v.conn[c] = r
  <2>1. World.conn = conn BY DEF World
  <2> QED BY <1>5, <1>7, <1>8, <2>1, RecordEdited
<1>11. /\ Gentle(NIL) /\ work' = work /\ conn' = v.conn
       /\ \A d \in Conns \ {c} : conn'[d] = conn[d]
  BY <1>5, <1>9, <1>10, GentlyServed
<1>12. pc' \in {"write", "dispatch"} /\ cur' \in Current /\ (pc' = "write" => cur' = cur)
  BY <1>5, <1>9, AfterReadIs
<1>13. TypeOK /\ Cursor BY DEF Inv
<1>14. /\ fate' \in [Queries -> {"new", "pending", "executed", "failed"}] /\ fate' = fate
       /\ faults' \in 0 .. MaxFaults /\ NIL \in Queries \cup {NIL}
  BY <1>2, <1>13 DEF TypeOK
<1>15. conn'[c].status # "qsWait" BY <1>2, <1>7, <1>10, <1>11, <1>13 DEF Cursor
<1>16. ASSUME Busy PROVE work'[c] = NIL BY <1>1, <1>2, <1>11, <1>16 DEF Busy
<1>17. batch' \subseteq batch /\ \A k \in batch' : handler[k].binding # c BY <1>2, <1>5
<1>18. Dispatching' => cur'.conn = c /\ cur'.handler = h BY <1>1, <1>4, <1>12 DEF Dispatching
<1>19. pc' \notin {"executed", "notify", "fault"} BY <1>12
<1> QED
  BY <1>1, <1>2, <1>5, <1>11, <1>12, <1>14, <1>15, <1>16, <1>17, <1>18, <1>19, ServedOK

LEMMA NotifyThrowsOK ==
  ASSUME Inv, NotifyThrows
  PROVE  Inv' /\ (SizeMin > 0 /\ Busy /\ Told => Busy' /\ Told')
<1>1. PICK c : c = cur.conn OBVIOUS
<1>2. /\ pc = "notify" /\ calls = <<>> /\ pc' = "fault" /\ Disturb(1)
      /\ UNCHANGED <<queue, fate, active, timed, calls, batch, cur, at>>
  BY DEF NotifyThrows, Running, life, service
<1>3. Dispatching BY <1>2 DEF Dispatching
<1>4. PICK h : h = cur.handler OBVIOUS
<1>5. /\ c \in Conns /\ c \in Members(pool) /\ c \in Members(World.pool)
      /\ h \in Handlers /\ handler[h].binding = c
      /\ \A k \in batch : handler[k].binding # c
      /\ conn[c] \in ConnRec /\ ObjectsOK /\ World \in Worlds /\ Wired(World) /\ cur \in Current
  BY <1>1, <1>2, <1>3, <1>4, CursorIs
<1>6. PICK v : v = Moves(World, c, "bad", NIL) OBVIOUS
<1>7. Become(v) BY <1>1, <1>6 DEF NotifyThrows
<1>8. Serves(World, v, c) /\ v.conn[c].pq = "bad" BY <1>5, <1>6, SocketMoved
<1>9. /\ Gentle(NIL) /\ work' = work /\ conn' = v.conn
      /\ \A d \in Conns \ {c} : conn'[d] = conn[d]
  BY <1>5, <1>7, <1>8, GentlyServed
<1>10. /\ fate' \in [Queries -> {"new", "pending", "executed", "failed"}] /\ fate' = fate
       /\ NIL \in Queries \cup {NIL} /\ faults' \in 0 .. MaxFaults
  <2>1. TypeOK BY DEF Inv
  <2> QED BY <1>2, <2>1, LimitKept DEF TypeOK
<1>11. ASSUME Busy PROVE work'[c] = NIL BY <1>1, <1>2, <1>9, <1>11 DEF Busy
<1>12. batch' \subseteq batch /\ \A k \in batch' : handler[k].binding # c BY <1>2, <1>5
<1>13. conn'[c].pq = "bad" BY <1>8, <1>9
<1>14. cur'.conn = c /\ cur'.handler = h /\ cur' \in Current BY <1>1, <1>2, <1>4, <1>5
<1> QED BY <1>1, <1>2, <1>5, <1>9, <1>10, <1>11, <1>12, <1>13, <1>14, ServedOK

LEMMA HandlerFaulted ==
  ASSUME NEW w \in Worlds, Wired(w), NEW c, NEW h \in Handlers, w.handler[h].binding \in Conns,
         NEW v, v = SetHandler(w, h, [w.handler[h] EXCEPT !.type = "etDelete", !.socket = NIL])
  PROVE  /\ Serves(w, v, c) /\ v.conn = w.conn /\ v.handler[h].type = "etDelete"
         /\ v.handler[h].binding = w.handler[h].binding
<1>1. PICK r : r = [w.handler[h] EXCEPT !.type = "etDelete", !.socket = NIL] OBVIOUS
<1>2. w.handler \in [Handlers -> HandlerRec] /\ w.handler[h] \in HandlerRec BY DEF Worlds
<1>3. r \in HandlerRec /\ r.type = "etDelete" /\ r.binding = w.handler[h].binding
  BY <1>1, <1>2 DEF HandlerRec
<1>4. v = SetHandler(w, h, r) BY <1>1
<1>5. /\ v \in Worlds /\ v.handler = [w.handler EXCEPT ![h] = r] /\ v.conn = w.conn
      /\ v.list = w.list /\ v.pool = w.pool /\ v.epoll = w.epoll /\ v.work = w.work
  BY <1>3, <1>4, HandlerSet
<1>6. v.handler[h] = r /\ \A k \in Handlers \ {h} : v.handler[k] = w.handler[k] BY <1>2, <1>5
<1>7. w.handler[h].type # "none" BY Distinct DEF Wired
<1>8. \A k \in Handlers : /\ v.handler[k].binding = w.handler[k].binding
                          /\ v.handler[k].type = "none" <=> w.handler[k].type = "none"
                          /\ k # h => v.handler[k].socket = w.handler[k].socket
  BY <1>3, <1>6, <1>7
<1>9. Wired(v)
  <2>1. \A s \in Fds : v.epoll[s] # DANGLING /\ (v.epoll[s] \in Handlers => Watches(v, v.epoll[s], s))
    <3> TAKE s \in Fds
    <3>1. w.epoll[s] # DANGLING /\ (w.epoll[s] \in Handlers => Watches(w, w.epoll[s], s)) BY DEF Wired
    <3>2. ASSUME NEW k \in Handlers, Watches(w, k, s) PROVE Watches(v, k, s)
      BY <1>5, <1>8, <3>2, Distinct DEF Watches
    <3> QED BY <1>5, <3>1, <3>2
  <2>2. \A k \in Handlers : v.handler[k].type = "none" => v.handler[k].binding = NIL
    BY <1>8 DEF Wired
  <2>3. \A k \in Handlers : k \in Members(v.list) <=> v.handler[k].type # "none"
    BY <1>5, <1>8 DEF Wired
  <2>4. \A k \in Handlers : v.handler[k].binding \in Conns => v.handler[k].binding \in Members(v.pool)
    BY <1>5, <1>8 DEF Wired
  <2>5. \A d \in Conns : v.conn[d].handler \in Handlers => v.handler[v.conn[d].handler].binding = d
    BY <1>5, <1>8 DEF Wired
  <2> QED BY <1>5, <2>1, <2>2, <2>3, <2>4, <2>5 DEF Wired
<1>10. Keeps(w, v, c) BY <1>3, <1>5, <1>6, <1>7, <1>8 DEF Keeps
<1> QED BY <1>3, <1>5, <1>6, <1>9, <1>10 DEF Serves

\* The connection is freed with its handler, by the PackEventHandlers that follows.
LEMMA FaultOK ==
  ASSUME Inv, Fault
  PROVE  Inv' /\ (SizeMin > 0 /\ Busy /\ Told => Busy' /\ Told')
<1>1. PICK c : c = cur.conn OBVIOUS
<1>2. /\ pc = "fault" /\ calls = <<>> /\ pc' = "dispatch" /\ cur' = Idle
      /\ UNCHANGED <<queue, fate, active, timed, calls, batch, at, faults>>
  BY DEF Fault, Running, life, service
<1>3. Dispatching BY <1>2 DEF Dispatching
<1>4. PICK h : h = cur.handler OBVIOUS
<1>5. /\ c \in Conns /\ c \in Members(pool) /\ c \in Members(World.pool)
      /\ h \in Handlers /\ handler[h].binding = c
      /\ \A k \in batch : handler[k].binding # c
      /\ conn[c] \in ConnRec /\ ObjectsOK /\ World \in Worlds /\ Wired(World)
  BY <1>1, <1>2, <1>3, <1>4, CursorIs
<1>6. PICK w : w = SetStatus(World, c, "qsError") OBVIOUS
<1>7. PICK v : v = SetHandler(w, h, [w.handler[h] EXCEPT !.type = "etDelete", !.socket = NIL])
  OBVIOUS
<1>8. Become(v) BY <1>1, <1>4, <1>6, <1>7 DEF Fault
<1>9. Serves(World, w, c) /\ w.conn[c].status = "qsError"
  <2>1. "qsError" \in Statuses BY DEF Statuses
  <2> QED BY <1>5, <1>6, <2>1, StatusSet
<1>10. w \in Worlds /\ Wired(w) /\ w.handler[h].binding = c
  <2>1. World.handler = handler /\ handler[h].type # "none"
    BY <1>5, Distinct DEF World, Wired
  <2> QED BY <1>5, <1>9, <2>1 DEF Serves, Keeps
<1>11. /\ Serves(w, v, c) /\ v.conn = w.conn /\ v.handler[h].type = "etDelete"
       /\ v.handler[h].binding = c
  BY <1>5, <1>7, <1>10, HandlerFaulted
<1>12. Serves(World, v, c) BY <1>9, <1>11, ServesTwice
<1>13. /\ Gentle(NIL) /\ work' = work /\ conn' = v.conn /\ handler' = v.handler
       /\ \A d \in Conns \ {c} : conn'[d] = conn[d]
  BY <1>5, <1>8, <1>12, GentlyServed
<1>14. TypeOK /\ Cursor BY DEF Inv
<1>15. /\ fate' \in [Queries -> {"new", "pending", "executed", "failed"}] /\ fate' = fate
       /\ faults' \in 0 .. MaxFaults /\ NIL \in Queries \cup {NIL} /\ cur' \in Current
  BY <1>2, <1>14, IdleEvent DEF TypeOK
<1>16. conn'[c].status = "qsError" BY <1>9, <1>11, <1>13
<1>17. batch' \subseteq batch /\ \A k \in batch' : handler[k].binding # c BY <1>2, <1>5
<1>18. ~Dispatching' BY <1>2 DEF Dispatching
<1>19. Doomed(c)'
  <2>1. handler'[h].type = "etDelete" /\ handler'[h].binding = c BY <1>11, <1>13
  <2>2. PICK i \in DOMAIN list : list[i] = h
    <3>1. h \in Members(list) BY <1>5, Distinct DEF World, Wired
    <3> QED BY <3>1 DEF Members
  <2>3. i \in DOMAIN list' /\ list'[i] = h BY <1>13, <2>2 DEF Gentle
  <2>4. \A k \in batch' : handler'[k].binding # c
    <3> TAKE k \in batch'
    <3>1. k \in batch /\ k \in Handlers /\ handler[k].type # "none" /\ handler[k].binding # c
      BY <1>5, <1>14, <1>17 DEF TypeOK, Cursor
    <3> QED BY <1>5, <1>13, <3>1, Distinct DEF Gentle
  <2> QED BY <1>2, <1>18, <2>1, <2>3, <2>4 DEF Doomed
<1>20. ASSUME Busy, Told, work[c] # NIL PROVE fate'[work[c]] = "pending"
  <2>1. c \in InFlight /\ ~Failing(c) BY <1>2, <1>5, <1>20 DEF InFlight, Failing
  <2> QED BY <1>2, <1>15, <1>20, <2>1 DEF Told
<1> QED
  BY <1>1, <1>2, <1>5, <1>13, <1>15, <1>16, <1>17, <1>18, <1>19, <1>20, ServedOK

-----------------------------------------------------------------------------
(* The invariants.                                                          *)

LEMMA InitOK == Init => Inv /\ Busy /\ Told
<1> SUFFICES ASSUME Init PROVE Inv /\ Busy /\ Told OBVIOUS
<1>1. /\ handler = [h \in Handlers |-> NoHandler] /\ list = <<>>
      /\ conn = [c \in Conns |-> Blank] /\ pool = <<>> /\ epoll = [s \in Fds |-> NIL]
      /\ work = [c \in Conns |-> NIL] /\ queue = <<>> /\ fate = [q \in Queries |-> "new"]
      /\ active = FALSE /\ timed = FALSE
      /\ calls = <<>> /\ pc = "wait" /\ batch = {} /\ cur = Idle /\ at = 0 /\ faults = 0
  BY DEF Init
<1>2. NoHandler \in HandlerRec /\ NoHandler.type = "none" /\ NoHandler.binding = NIL
  BY DEF NoHandler, HandlerRec
<1>3. Blank \in ConnRec /\ Blank.handler = NIL /\ Blank.fd = NIL /\ Blank.status = "qsConnect"
  BY DEF Blank, ConnRec, Statuses
<1>4. TypeOK
  <2>1. 0 \in 0 .. MaxFaults BY LimitAssumption
  <2>2. Idle \in Current BY IdleEvent
  <2>3. active \in BOOLEAN /\ timed \in BOOLEAN BY <1>1
  <2> QED BY <1>1, <1>2, <1>3, <2>1, <2>2, <2>3 DEF TypeOK
<1>5. Wired(World)
  <2>1. Members(list) = {} /\ Members(pool) = {} /\ NoDuplicates(list) /\ NoDuplicates(pool)
    BY <1>1 DEF Members, NoDuplicates
  <2> QED BY <1>1, <1>2, <1>3, <2>1, Distinct DEF Wired, World
<1>6. Frames BY <1>1 DEF Frames
<1>7. Cursor BY <1>1 DEF Cursor, Dispatching
<1>8. WaitHasWork BY <1>1, <1>3 DEF WaitHasWork, InFlight
<1>9. InFlight = {} /\ Members(queue) = {} BY <1>1 DEF InFlight, Members
<1>10. Once
  <2>1. NoDuplicates(queue) BY <1>1 DEF NoDuplicates
  <2>2. \A q \in Queries : \A c \in Conns : work[c] # q BY <1>1, Distinct
  <2> QED BY <1>1, <1>9, <2>1, <2>2 DEF Once
<1>11. Busy BY <1>1, <1>9 DEF Busy
<1>12. Told BY <1>1, <1>9 DEF Told
<1> QED BY <1>4, <1>5, <1>6, <1>7, <1>8, <1>10, <1>11, <1>12 DEF Inv

LEMMA StutterOK ==
  ASSUME Inv, UNCHANGED vars
  PROVE  Inv' /\ (SizeMin > 0 /\ Busy /\ Told => Busy' /\ Told')
<1>1. /\ UNCHANGED <<handler, list, conn, pool, epoll, work, queue, fate, active, timed, calls>>
      /\ UNCHANGED <<pc, batch, cur, at, faults>>
  BY DEF vars, objects, service, life, loop
<1>2. TypeOK' BY <1>1 DEF Inv, TypeOK
<1>3. Wired(World)' BY <1>1 DEF Inv, Wired, Watches, World
<1>4. Frames'
  <2>1. Frames BY DEF Inv
  <2>2. /\ \A i \in DOMAIN calls : FrameOK(calls[i])
        /\ \A i \in DOMAIN calls : \A c \in Conns :
             Making(calls[i], c) => Connecting(c) /\ work[c] = NIL
    BY <2>1 DEF Frames
  <2>3. \A i \in DOMAIN calls' : FrameOK(calls[i])'
    BY <1>1, <2>2 DEF FrameOK, RoomFor, FreeConns, Live, Connecting
  <2>4. \A i \in DOMAIN calls' : \A c \in Conns :
          (Making(calls[i], c) => Connecting(c) /\ work[c] = NIL)'
    BY <1>1, <2>2 DEF Making, Connecting
  <2> QED BY <1>1, <2>1, <2>3, <2>4 DEF Frames, Making
<1>5. Cursor' BY <1>1 DEF Inv, Cursor, Dispatching, Making
<1>6. WaitHasWork' BY <1>1 DEF Inv, WaitHasWork, InFlight
<1>7. Once' BY <1>1 DEF Inv, Once, InFlight, Asked
<1>8. Busy => Busy' BY <1>1 DEF Busy, InFlight, Failing, Doomed, Dispatching
<1>9. Told => Told' BY <1>1 DEF Told, InFlight, Failing
<1> QED BY <1>2, <1>3, <1>4, <1>5, <1>6, <1>7, <1>8, <1>9 DEF Inv

LEMMA StepOK ==
  ASSUME Inv, [Next]_vars
  PROVE  Inv' /\ (SizeMin > 0 /\ Busy /\ Told => Busy' /\ Told')
<1>1. CASE UNCHANGED vars BY <1>1, StutterOK
<1>2. CASE AppStep
  BY <1>2, ActivateOK, LifeQuietOK, AppStartsOK DEF AppStep
<1>3. CASE ScanStep
  BY <1>3, ScanPassesOK, ScanClosesOK, ScanResetsOK, ScanReconnectsOK, ScanEndsOK DEF ScanStep
<1>4. CASE ConnectStep
  BY <1>4, ConnectStartOK, PingFailsOK, ConnectStartBadOK, PollInCallOK, NewConnectionFailsOK,
     OpensOK, OpenEndsOK
  DEF ConnectStep
<1>5. CASE QueryStep
  BY <1>5, QueryStartOK, QueryStartThrowsOK, StartFailsOK, ParkOK DEF QueryStep
<1>6. CASE Wait BY <1>6, WaitOK
<1>7. CASE ReadStep
  BY <1>7, ReadPollsOK, ReadIgnoredOK, ReadNotifiedOK, ReadThrowsOK, ReadResultOK,
     ResultDoneOK, NotifyDoneOK, NotifyThrowsOK, FaultOK
  DEF ReadStep
<1>8. CASE WriteStep
  BY <1>8, DispatchWriteOK, WriteStartsOK, WritePollsOK, LifeQuietOK DEF WriteStep
<1>9. CASE DispatchStep
  BY <1>9, DispatchQuietOK, ShrinkQuietOK, ShrinkDeletesOK, EndOfBatchOK DEF DispatchStep
<1>10. CASE PackStep
  BY <1>10, PackQuietOK, PackDeletesOK, ClearOK, LifeQuietOK DEF PackStep
<1>11. CASE FollowsDangling BY <1>11, LifeQuietOK
<1> QED
  BY <1>1, <1>2, <1>3, <1>4, <1>5, <1>6, <1>7, <1>8, <1>9, <1>10, <1>11 DEF Next

\* The invariant of the objects, the calls and the places of the queries, for every pool.
THEOREM PoolInvariant == Spec => []Inv
<1>1. Init => Inv BY InitOK
<1>2. Inv /\ [Next]_vars => Inv' BY StepOK
<1> QED BY <1>1, <1>2, PTL DEF Spec

\* With a pool that keeps a connection, what the application was told fits in.
THEOREM FullInvariant == SizeMin > 0 /\ Spec => []FullInv
<1>1. SUFFICES ASSUME SizeMin > 0 PROVE Spec => []FullInv OBVIOUS
<1>2. Init => FullInv BY InitOK DEF FullInv
<1>3. FullInv /\ [Next]_vars => FullInv' BY <1>1, StepOK DEF FullInv
<1> QED BY <1>2, <1>3, PTL DEF Spec

LEMMA LoopRelies == Inv => LoopAgrees
<1> SUFFICES ASSUME Inv PROVE LoopAgrees OBVIOUS
<1>1. TypeOK /\ Wired(World) BY DEF Inv
<1>2. BackPointer
  <2> SUFFICES ASSUME NEW c \in Conns, conn[c].handler # NIL
               PROVE  handler[conn[c].handler].binding = c
    BY DEF BackPointer
  <2>1. conn[c].handler \in Handlers BY <1>1 DEF TypeOK, ConnRec
  <2> QED BY <1>1, <2>1 DEF Wired, World
<1>3. KernelLive BY <1>1 DEF KernelLive, Wired, World
<1> QED BY <1>2, <1>3 DEF LoopAgrees, Inv

\* Whatever libpq, the network and the server do, and whatever the application starts from its
\* callbacks: a connection that waits has a query to wait for, its handler is the one that serves
\* it, and the kernel holds no pointer to a handler that was freed.
THEOREM LoopAlwaysAgrees == Spec => []LoopAgrees
BY PoolInvariant, LoopRelies, PTL

LEMMA PlacesAreOne == Inv => OnePlace
<1> SUFFICES ASSUME Inv PROVE OnePlace OBVIOUS
<1>1. queue \in Seq(Queries) /\ Once BY DEF Inv, TypeOK
<1>2. Len(queue) \in Nat /\ DOMAIN queue = 1 .. Len(queue) BY <1>1
<1>3. Waiting = Members(queue) BY <1>2 DEF Waiting, Members
<1>4. Cardinality(Waiting) = Len(queue) BY <1>1, <1>3, MembersCounted DEF Once
<1> QED BY <1>1, <1>3, <1>4 DEF OnePlace, Once

\* A query is queued once or is on one connection, through nested starts.
THEOREM AlwaysInOnePlace == Spec => []OnePlace
BY PoolInvariant, PlacesAreOne, PTL

LEMMA PoolRelies == FullInv => PoolAgrees
BY PlacesAreOne DEF FullInv, Inv, PoolAgrees, ReadyIsIdle, Busy, Failing

\* The pool's knowledge of its queries agrees with what its connections do: no query is in two
\* places, and a connection that would be taken for the next query works on none.
THEOREM PoolAlwaysAgrees == SizeMin > 0 /\ Spec => []PoolAgrees
BY FullInvariant, PoolRelies, PTL

-----------------------------------------------------------------------------
(* A pool with which nothing goes wrong: no fault, and always an object for *)
(* a new event handler.  A file too many may still be open: libpq then makes *)
(* no connection, and the one that was to be made is freed again.            *)

\* There is an object for the handler of a connection that is being made.
HandlersSuffice == InCall("start") => FreeHandlers # {}

\* CheckSocket has seen the socket, and only a new connection has no handler.
Steady(r) ==
  /\ r.socket = r.fd
  /\ r.fd = NIL <=> r.pq \in {"none", "bad"}
  /\ r.polling = "failed" => r.pq = "bad"
  /\ r.status # "qsError"
  /\ r.handler = NIL => r.status \in {"qsConnect", "qsReset"}

\* The kernel watches the connection's socket for its handler.
Watching(w, c) ==
  w.conn[c].handler \in Handlers =>
    /\ w.conn[c].fd \in Fds /\ w.handler[w.conn[c].handler].socket = w.conn[c].fd
    /\ w.epoll[w.conn[c].fd] = w.conn[c].handler

\* A handler is free or stopped, or runs for the connection that knows it or for the timer.
Serving(w, h) ==
  \/ w.handler[h].binding = NIL /\ w.handler[h].type \in {"none", "etDelete"}
  \/ /\ w.handler[h].binding \in Conns /\ w.handler[h].type = "etIO"
     /\ w.conn[w.handler[h].binding].handler = h
  \/ /\ w.handler[h].binding = TIMER /\ w.handler[h].type = "etTimer" /\ w.handler[h].socket \in Fds
     /\ \A c \in Conns : w.conn[c].fd # w.handler[h].socket

Sound(w) ==
  /\ \A c \in Conns : Steady(w.conn[c]) /\ Watching(w, c)
  /\ \A h \in Handlers : Serving(w, h)
  /\ \A c, d \in Conns : w.conn[c].fd \in Fds /\ w.conn[c].fd = w.conn[d].fd => c = d

\* All sockets are open.
Exhausted(w) ==
  \A s \in Fds : \/ \E c \in Conns : w.conn[c].fd = s
                 \/ \E h \in Handlers : w.handler[h].binding = TIMER /\ w.handler[h].socket = s

\* A connection without a working PGconn is still NewConnection's, and there was no socket for it.
Unmade(c) == conn[c].pq \in {"none", "bad"}

Calm ==
  /\ pc \notin {"fault", "undefined"} /\ (pc \in {"executed", "notify"} => cur.saved # "qsError")
  /\ \A i \in DOMAIN calls : calls[i].step = "failing" => calls[i].conn = NIL
  /\ \A i \in DOMAIN calls : calls[i].step = "newfail" => conn[calls[i].conn].pq = "bad"
  /\ InCall("poll") => conn[Call.conn].pq # "none"
  /\ \A c \in Members(pool) : Unmade(c) => \E i \in DOMAIN calls : Making(calls[i], c)
  /\ \A c \in Conns : conn[c].pq = "bad" => Exhausted(World)

Quiet == Sound(World) /\ Calm

\* The record of a connection was edited, and its socket and its handler stay.
Edited(w, v, c) ==
  /\ v \in Worlds /\ v.handler = w.handler /\ v.epoll = w.epoll /\ v.pool = w.pool
  /\ \A d \in Conns \ {c} : v.conn[d] = w.conn[d]
  /\ v.conn[c].fd = w.conn[c].fd /\ v.conn[c].socket = w.conn[c].socket
  /\ v.conn[c].handler = w.conn[c].handler

LEMMA EditedTwice ==
  ASSUME NEW w, NEW v, NEW u, NEW c, Edited(w, v, c), Edited(v, u, c)
  PROVE  Edited(w, u, c)
BY DEF Edited

LEMMA EditedBySetConn ==
  ASSUME NEW w \in Worlds, NEW c \in Conns, NEW r \in ConnRec, NEW v, v = SetConn(w, c, r),
         r.fd = w.conn[c].fd, r.socket = w.conn[c].socket, r.handler = w.conn[c].handler
  PROVE  Edited(w, v, c) /\ v.conn[c] = r
<1>1. /\ v \in Worlds /\ v.conn = [w.conn EXCEPT ![c] = r]
      /\ v.handler = w.handler /\ v.pool = w.pool /\ v.epoll = w.epoll
  BY ConnSet
<1>2. w.conn \in [Conns -> ConnRec] BY DEF Worlds
<1>3. v.conn[c] = r /\ \A d \in Conns \ {c} : v.conn[d] = w.conn[d] BY <1>1, <1>2
<1> QED BY <1>1, <1>3 DEF Edited

LEMMA EditedSound ==
  ASSUME NEW w, NEW v, NEW c \in Conns, Sound(w), Edited(w, v, c), Steady(v.conn[c])
  PROVE  Sound(v) /\ (Exhausted(w) => Exhausted(v))
<1>1. /\ v.handler = w.handler /\ v.epoll = w.epoll
      /\ \A d \in Conns : v.conn[d].fd = w.conn[d].fd /\ v.conn[d].handler = w.conn[d].handler
  BY DEF Edited
<1>2. \A d \in Conns : Steady(v.conn[d]) BY DEF Sound, Edited
<1>3. \A d \in Conns : Watching(v, d) BY <1>1 DEF Sound, Watching
<1>4. \A h \in Handlers : Serving(v, h)
  <2> TAKE h \in Handlers
  <2>1. Serving(w, h) BY DEF Sound
  <2> QED BY <1>1, <2>1 DEF Serving
<1>5. \A d, e \in Conns : v.conn[d].fd \in Fds /\ v.conn[d].fd = v.conn[e].fd => d = e
  BY <1>1 DEF Sound
<1>6. Exhausted(w) => Exhausted(v) BY <1>1 DEF Exhausted
<1> QED BY <1>2, <1>3, <1>4, <1>5, <1>6 DEF Sound

\* A connection that is deleted: its handler, if any, is stopped and let go, and its socket is closed.
LEMMA DeletedExactly ==
  ASSUME NEW w \in Worlds, NEW c \in Conns, NEW v, v = Delete(w, c),
         NEW h, h = w.conn[c].handler, NEW s, s = w.conn[c].fd,
         w.conn[c].pq = "none" => s = NIL,
         h \in Handlers => s \in Fds /\ w.handler[h].socket = s /\ w.handler[h].binding = c,
         \A k \in Handlers : w.handler[k].binding = c => k = h
  PROVE  /\ \A k \in Handlers \ {h} : v.handler[k] = w.handler[k]
         /\ h \in Handlers => v.handler[h].type = "etDelete" /\ v.handler[h].binding = NIL
         /\ \A f \in Fds : v.epoll[f] = IF f = s THEN NIL ELSE w.epoll[f]
         /\ v.conn[c] = Blank /\ \A d \in Conns \ {c} : v.conn[d] = w.conn[d]
<1> PICK r : r = w.conn[c] OBVIOUS
<1>1. r \in ConnRec /\ w.conn \in [Conns -> ConnRec] /\ w.handler \in [Handlers -> HandlerRec]
      /\ h \in Handlers \cup {NIL} /\ s \in Fds \cup {NIL}
  BY DEF Worlds, ConnRec
<1>2. PICK u : u = Disconnect(w, c) OBVIOUS
<1>3. /\ u \in Worlds /\ u.conn[c].handler = h /\ \A d \in Conns \ {c} : u.conn[d] = w.conn[d]
      /\ \A k \in Handlers \ {h} : u.handler[k] = w.handler[k]
      /\ h \in Handlers => /\ u.handler[h].type = "etDelete" /\ u.handler[h].binding = c
      /\ \A f \in Fds : u.epoll[f] = IF f = s THEN NIL ELSE w.epoll[f]
  <2>1. CASE r.pq = "none"
    <3>1. u = w BY <1>2, <2>1 DEF Disconnect
    <3>2. s = NIL /\ h \notin Handlers BY <2>1, Distinct
    <3> QED BY <3>1, <3>2, Distinct
  <2>2. CASE r.pq # "none"
    <3>1. PICK q : q = [Blank EXCEPT !.status = r.status, !.handler = r.handler] OBVIOUS
    <3>2. q \in ConnRec /\ q.handler = h BY <1>1, <3>1 DEF ConnRec, Blank
    <3>3. PICK x : x = IF s # NIL /\ h # NIL THEN Stop(w, h) ELSE w OBVIOUS
    <3>4. PICK y : y = CloseFd(x, s) OBVIOUS
    <3>5. u = SetConn(y, c, q) BY <1>2, <2>2, <3>1, <3>3, <3>4 DEF Disconnect
    <3>6. /\ x \in Worlds /\ x.conn = w.conn
          /\ \A k \in Handlers \ {h} : x.handler[k] = w.handler[k]
          /\ h \in Handlers => x.handler[h].type = "etDelete" /\ x.handler[h].binding = c
          /\ \A f \in Fds : f # s => x.epoll[f] = w.epoll[f]
      <4>1. CASE h \in Handlers
        <5>1. x = Stop(w, h) BY <3>3, <4>1, Distinct
        <5>2. PICK g : g = [w.handler[h] EXCEPT !.type = "etDelete"] OBVIOUS
        <5>3. g \in HandlerRec /\ g.type = "etDelete" /\ g.binding = c
          BY <1>1, <4>1, <5>2 DEF HandlerRec
        <5>4. PICK z : z = SetHandler(w, h, g) OBVIOUS
        <5>5. z \in Worlds /\ z.handler = [w.handler EXCEPT ![h] = g] /\ z.conn = w.conn /\ z.epoll = w.epoll
          BY <4>1, <5>3, <5>4, HandlerSet
        <5>6. x = z \/ x = CloseFd(z, s) BY <4>1, <5>1, <5>2, <5>4 DEF Stop
        <5>7. x \in Worlds /\ x.handler = z.handler /\ x.conn = z.conn
              /\ \A f \in Fds : f # s => x.epoll[f] = z.epoll[f]
          BY <1>1, <5>5, <5>6, FdClosed
        <5> QED BY <1>1, <4>1, <5>3, <5>5, <5>7
      <4>2. CASE h = NIL BY <3>3, <4>2, Distinct
      <4> QED BY <1>1, <4>1, <4>2
    <3>7. /\ y \in Worlds /\ y.handler = x.handler /\ y.conn = x.conn
          /\ \A f \in Fds : y.epoll[f] = IF f = s THEN NIL ELSE x.epoll[f]
      BY <1>1, <3>4, <3>6, FdClosed
    <3>8. u \in Worlds /\ u.conn = [y.conn EXCEPT ![c] = q] /\ u.handler = y.handler /\ u.epoll = y.epoll
      BY <3>2, <3>5, <3>7, ConnSet
    <3> QED BY <1>1, <3>2, <3>6, <3>7, <3>8
  <2> QED BY <2>1, <2>2
<1>4. PICK x : x = SetWork(SetConn(u, c, Blank), c, NIL) OBVIOUS
<1>5. v = [x EXCEPT !.pool = RemoveFirst(@, c), !.handler = Unbound(@, c, {h})]
  BY <1>2, <1>3, <1>4 DEF Delete
<1>6. /\ x \in Worlds /\ x.handler = u.handler /\ x.epoll = u.epoll /\ x.conn = [u.conn EXCEPT ![c] = Blank]
  <2>1. PICK y : y = SetConn(u, c, Blank) OBVIOUS
  <2>2. y \in Worlds /\ y.conn = [u.conn EXCEPT ![c] = Blank] /\ y.handler = u.handler /\ y.epoll = u.epoll
    BY <1>3, <2>1, BlankRecord, ConnSet
  <2>3. x = [y EXCEPT !.work = [y.work EXCEPT ![c] = NIL]] BY <1>4, <2>1, <2>2 DEF SetWork, Worlds
  <2>4. [y.work EXCEPT ![c] = NIL] \in [Conns -> Queries \cup {NIL}] BY <2>2 DEF Worlds
  <2> QED BY <2>2, <2>3, <2>4 DEF Worlds
<1>7. v.handler = Unbound(u.handler, c, {h}) /\ v.epoll = u.epoll /\ v.conn = x.conn
  BY <1>5, <1>6 DEF Worlds
<1>8. v.conn[c] = Blank /\ \A d \in Conns \ {c} : v.conn[d] = w.conn[d]
  BY <1>3, <1>6, <1>7 DEF Worlds
<1>9. \A k \in Handlers \ {h} : v.handler[k] = w.handler[k]
  BY <1>3, <1>7 DEF Unbound
<1>10. h \in Handlers => v.handler[h].type = "etDelete" /\ v.handler[h].binding = NIL
  <2> HAVE h \in Handlers
  <2>1. u.handler[h] \in HandlerRec BY <1>3 DEF Worlds
  <2>2. v.handler[h] = [u.handler[h] EXCEPT !.binding = NIL] BY <1>3, <1>7 DEF Unbound
  <2> QED BY <1>3, <2>1, <2>2 DEF HandlerRec
<1> QED BY <1>3, <1>7, <1>8, <1>9, <1>10

LEMMA BlankSteady == Steady(Blank)
BY BlankRecord DEF Steady, Blank

LEMMA DeletedSound ==
  ASSUME NEW w \in Worlds, Wired(w), Sound(w), NEW c \in Conns, NEW v, v = Delete(w, c)
  PROVE  /\ Sound(v) /\ v.conn[c] = Blank /\ \A d \in Conns \ {c} : v.conn[d] = w.conn[d]
         /\ w.conn[c].fd = NIL /\ Exhausted(w) => Exhausted(v)
<1> PICK h, s : h = w.conn[c].handler /\ s = w.conn[c].fd OBVIOUS
<1>1. w.conn[c].pq = "none" => s = NIL BY DEF Wired
<1>2. h \in Handlers => s \in Fds /\ w.handler[h].socket = s /\ w.handler[h].binding = c
  BY DEF Sound, Watching, Wired
<1>3. \A k \in Handlers : w.handler[k].binding = c => k = h
  <2> TAKE k \in Handlers
  <2>1. Serving(w, k) BY DEF Sound
  <2> QED BY <2>1, Distinct DEF Serving
<1>4. /\ \A k \in Handlers \ {h} : v.handler[k] = w.handler[k]
      /\ h \in Handlers => v.handler[h].type = "etDelete" /\ v.handler[h].binding = NIL
      /\ \A f \in Fds : v.epoll[f] = IF f = s THEN NIL ELSE w.epoll[f]
      /\ v.conn[c] = Blank /\ \A d \in Conns \ {c} : v.conn[d] = w.conn[d]
  BY <1>1, <1>2, <1>3, DeletedExactly
<1>5. \A d \in Conns : Steady(v.conn[d]) BY <1>4, BlankSteady DEF Sound
<1>6. ASSUME NEW d \in Conns PROVE Watching(v, d)
  <2>1. CASE d = c BY <1>4, <2>1, BlankRecord, Distinct DEF Watching
  <2>2. CASE d # c /\ w.conn[d].handler \in Handlers
    <3>1. PICK k \in Handlers : k = w.conn[d].handler BY <2>2
    <3>2. w.conn[d].fd \in Fds /\ w.handler[k].socket = w.conn[d].fd /\ w.epoll[w.conn[d].fd] = k
      BY <3>1 DEF Sound, Watching
    <3>3. w.handler[k].binding = d BY <3>1 DEF Wired
    <3>4. k # h BY <1>2, <2>2, <3>3
    <3>5. w.conn[d].fd # s BY <2>2, <3>2 DEF Sound
    <3> QED BY <1>4, <2>2, <3>1, <3>2, <3>4, <3>5 DEF Watching
  <2>3. CASE d # c /\ w.conn[d].handler \notin Handlers BY <1>4, <2>3 DEF Watching
  <2> QED BY <2>1, <2>2, <2>3
<1>7. \A d \in Conns : v.conn[d].fd = IF d = c THEN NIL ELSE w.conn[d].fd BY <1>4, BlankRecord
<1>8. ASSUME NEW k \in Handlers PROVE Serving(v, k)
  <2>1. CASE k = h BY <1>4, <2>1 DEF Serving
  <2>2. CASE k # h
    <3>1. Serving(w, k) /\ v.handler[k] = w.handler[k] BY <1>4, <2>2 DEF Sound
    <3>2. w.handler[k].binding # c BY <1>3, <2>2
    <3> QED BY <1>4, <1>7, <3>1, <3>2, Distinct DEF Serving
  <2> QED BY <2>1, <2>2
<1>9. \A d, e \in Conns : v.conn[d].fd \in Fds /\ v.conn[d].fd = v.conn[e].fd => d = e
  BY <1>7, Distinct DEF Sound
<1>10. w.conn[c].fd = NIL /\ Exhausted(w) => Exhausted(v)
  <2> HAVE w.conn[c].fd = NIL /\ Exhausted(w)
  <2>1. \A d \in Conns : v.conn[d].fd = w.conn[d].fd BY <1>7
  <2>2. h \notin Handlers BY <1>2, Distinct
  <2>3. \A k \in Handlers : v.handler[k] = w.handler[k] BY <1>4, <2>2
  <2> QED BY <2>1, <2>3 DEF Exhausted
<1> QED BY <1>4, <1>5, <1>6, <1>8, <1>9, <1>10 DEF Sound

\* A handler that is stopped, and what the kernel forgets.
LEMMA StoppedExactly ==
  ASSUME NEW w \in Worlds, NEW h \in Handlers, NEW v, v = Stop(w, h)
  PROVE  /\ v \in Worlds /\ v.conn = w.conn
         /\ \A k \in Handlers \ {h} : v.handler[k] = w.handler[k]
         /\ v.handler[h].type = "etDelete"
         /\ v.handler[h].binding = w.handler[h].binding /\ v.handler[h].socket = w.handler[h].socket
         /\ \A f \in Fds : f # w.handler[h].socket => v.epoll[f] = w.epoll[f]
         /\ w.handler[h].type \in {"none", "etDelete"} => v.epoll = w.epoll
<1>1. PICK g : g = [w.handler[h] EXCEPT !.type = "etDelete"] OBVIOUS
<1>2. w.handler \in [Handlers -> HandlerRec] BY DEF Worlds
<1>3. /\ g \in HandlerRec /\ g.type = "etDelete" /\ g.binding = w.handler[h].binding
      /\ g.socket = w.handler[h].socket
      /\ w.handler[h].socket \in Fds \cup {NIL}
  BY <1>1, <1>2 DEF HandlerRec
<1>4. PICK z : z = SetHandler(w, h, g) OBVIOUS
<1>5. z \in Worlds /\ z.handler = [w.handler EXCEPT ![h] = g] /\ z.conn = w.conn /\ z.epoll = w.epoll
  BY <1>3, <1>4, HandlerSet
<1>6. v = IF w.handler[h].type \in {"etIO", "etTimer"} THEN CloseFd(z, w.handler[h].socket) ELSE z
  BY <1>1, <1>4 DEF Stop
<1>7. v \in Worlds /\ v.handler = z.handler /\ v.conn = z.conn
      /\ \A f \in Fds : f # w.handler[h].socket => v.epoll[f] = z.epoll[f]
  <2>1. CASE w.handler[h].type \in {"etIO", "etTimer"}
    <3>1. v = CloseFd(z, w.handler[h].socket) BY <1>6, <2>1
    <3> QED BY <1>3, <1>5, <3>1, FdClosed
  <2>2. CASE w.handler[h].type \notin {"etIO", "etTimer"} BY <1>5, <1>6, <2>2
  <2> QED BY <2>1, <2>2
<1>8. w.handler[h].type \in {"none", "etDelete"} => v.epoll = w.epoll BY <1>5, <1>6
<1> QED BY <1>2, <1>3, <1>5, <1>7, <1>8

\* A handler is freed, with its connection or its timer.
LEMMA DestroyedSound ==
  ASSUME NEW w \in Worlds, Wired(w), Sound(w), NEW h \in Handlers, h \in Members(w.list),
         NEW v, v = Destroy(w, h)
  PROVE  Sound(v)
<1> PICK b, t : b = w.handler[h].binding /\ t = w.handler[h].socket OBVIOUS
<1>1. PICK x : x = Stop(w, h) OBVIOUS
<1>2. PICK u : u = CASE b \in Conns -> Delete(x, b)
                     [] b = TIMER   -> CloseFd(x, t)
                     [] OTHER       -> x
  OBVIOUS
<1>3. v = Forget(u, h) BY <1>1, <1>2 DEF Destroy
<1>4. /\ w.conn \in [Conns -> ConnRec] /\ w.handler \in [Handlers -> HandlerRec]
      /\ t \in Fds \cup {NIL} /\ b \in Conns \cup {NIL, TIMER}
  <2>1. Serving(w, h) BY DEF Sound
  <2> QED BY <2>1 DEF Worlds, HandlerRec, Serving
<1>5. /\ x \in Worlds /\ x.conn = w.conn
      /\ \A k \in Handlers \ {h} : x.handler[k] = w.handler[k]
      /\ x.handler[h].type = "etDelete" /\ x.handler[h].binding = b /\ x.handler[h].socket = t
      /\ \A f \in Fds : f # t => x.epoll[f] = w.epoll[f]
      /\ w.handler[h].type \in {"none", "etDelete"} => x.epoll = w.epoll
  BY <1>1, StoppedExactly
<1>6. Wired(x) /\ x.pool = w.pool
  <2>1. /\ x.handler = [w.handler EXCEPT ![h] = [@ EXCEPT !.type = "etDelete"]]
        /\ x.list = w.list /\ x.pool = w.pool /\ x.work = w.work /\ x.conn = w.conn
        /\ \A f \in Fds : x.epoll[f] \in {w.epoll[f], NIL}
    BY <1>1, HandlerStopped
  <2>2. Serves(w, x, b) BY <1>5, <2>1, StoppedServes
  <2> QED BY <2>1, <2>2 DEF Serves
<1>7. b \in Conns => /\ w.conn[b].handler = h /\ w.conn[b].fd = t /\ t \in Fds
                     /\ b \in Members(w.pool)
  <2>1. Serving(w, h) /\ (b \in Conns => Watching(w, b)) BY DEF Sound
  <2> QED BY <2>1, Distinct DEF Serving, Watching, Wired
<1>8. \A k \in Handlers : k # h /\ b \in Conns => w.handler[k].binding # b
  <2> TAKE k \in Handlers
  <2>1. Serving(w, k) BY DEF Sound
  <2> QED BY <1>7, <2>1, Distinct DEF Serving
<1>9. /\ u \in Worlds
      /\ \A k \in Handlers \ {h} : u.handler[k] = w.handler[k]
      /\ \A d \in Conns : u.conn[d] = IF d = b THEN Blank ELSE w.conn[d]
      /\ \A f \in Fds : b = NIL \/ f # t => u.epoll[f] = w.epoll[f]
  <2>1. CASE b \in Conns
    <3>1. u = Delete(x, b) BY <1>2, <2>1, Distinct
    <3>2. x.conn[b].handler = h /\ x.conn[b].fd = t /\ b \in Members(x.pool) BY <1>5, <1>6, <1>7, <2>1
    <3>3. x.conn[b].pq = "none" => t = NIL BY <1>6, <2>1, <3>2 DEF Wired
    <3>4. \A k \in Handlers : x.handler[k].binding = b => k = h BY <1>5, <1>8, <2>1
    <3>5. /\ \A k \in Handlers \ {h} : u.handler[k] = x.handler[k]
          /\ \A f \in Fds : u.epoll[f] = IF f = t THEN NIL ELSE x.epoll[f]
          /\ u.conn[b] = Blank /\ \A d \in Conns \ {b} : u.conn[d] = x.conn[d]
      BY <1>5, <1>7, <2>1, <3>1, <3>2, <3>3, <3>4, DeletedExactly
    <3>6. u \in Worlds
      <4>1. x \in Worlds /\ Wired(x) /\ b \in Conns /\ b \in Members(x.pool) /\ u = Delete(x, b)
        BY <1>5, <1>6, <2>1, <3>1, <3>2
      <4> QED BY ONLY SMTT(40), <4>1, Deleted
    <3> QED BY <1>5, <2>1, <3>5, <3>6, Distinct
  <2>2. CASE b = TIMER
    <3>1. u = CloseFd(x, t) BY <1>2, <2>2, Distinct
    <3>2. /\ u \in Worlds /\ u.handler = x.handler /\ u.conn = x.conn
          /\ \A f \in Fds : u.epoll[f] = IF f = t THEN NIL ELSE x.epoll[f]
      BY <1>4, <1>5, <3>1, FdClosed
    <3> QED BY <1>5, <2>2, <3>2, Distinct
  <2>3. CASE b = NIL
    <3>1. u = x BY <1>2, <2>3, Distinct
    <3>2. w.handler[h].type \in {"none", "etDelete"}
      <4>1. Serving(w, h) BY DEF Sound
      <4> QED BY <2>3, <4>1, Distinct DEF Serving
    <3> QED BY <1>5, <2>3, <3>1, <3>2, Distinct
  <2> QED BY <1>4, <2>1, <2>2, <2>3
<1>10. /\ v.handler[h] = NoHandler /\ \A k \in Handlers \ {h} : v.handler[k] = w.handler[k]
       /\ v.conn = u.conn
       /\ \A f \in Fds : u.epoll[f] # h => v.epoll[f] = u.epoll[f]
  <2>1. NoHandler \in HandlerRec BY Distinct DEF NoHandler, HandlerRec
  <2>2. PICK y : y = SetHandler(u, h, NoHandler) OBVIOUS
  <2>3. y \in Worlds /\ y.handler = [u.handler EXCEPT ![h] = NoHandler] /\ y.conn = u.conn /\ y.epoll = u.epoll
    BY <1>9, <2>1, <2>2, HandlerSet
  <2>4. v = [y EXCEPT !.list = RemoveFirst(@, h),
                      !.epoll = [s \in Fds |-> IF @[s] = h THEN DANGLING ELSE @[s]]]
    BY <1>3, <2>2 DEF Forget
  <2>5. v.handler = y.handler /\ v.conn = y.conn
        /\ v.epoll = [s \in Fds |-> IF y.epoll[s] = h THEN DANGLING ELSE y.epoll[s]]
    BY <2>3, <2>4 DEF Worlds
  <2>6. u.handler \in [Handlers -> HandlerRec] BY <1>9 DEF Worlds
  <2> QED BY <1>9, <2>3, <2>5, <2>6
<1>11. \A d \in Conns : Steady(v.conn[d]) BY <1>9, <1>10, BlankSteady DEF Sound
<1>12. ASSUME NEW d \in Conns PROVE Watching(v, d)
  <2>1. CASE d = b BY <1>9, <1>10, <2>1, BlankRecord, Distinct DEF Watching
  <2>2. CASE d # b /\ w.conn[d].handler \in Handlers
    <3>1. PICK k \in Handlers : k = w.conn[d].handler BY <2>2
    <3>2. w.conn[d].fd \in Fds /\ w.handler[k].socket = w.conn[d].fd /\ w.epoll[w.conn[d].fd] = k
      BY <3>1 DEF Sound, Watching
    <3>3. w.handler[k].binding = d BY <3>1 DEF Wired
    <3>4. k # h BY <2>2, <3>3
    <3>5. b = NIL \/ w.conn[d].fd # t
      <4>1. CASE b \in Conns BY <1>7, <2>2, <3>2, <4>1 DEF Sound
      <4>2. CASE b = TIMER
        <5>1. Serving(w, h) BY DEF Sound
        <5> QED BY <4>2, <5>1, Distinct DEF Serving
      <4> QED BY <1>4, <4>1, <4>2
    <3>6. u.epoll[w.conn[d].fd] = k BY <1>9, <3>2, <3>5
    <3> QED BY <1>9, <1>10, <2>2, <3>1, <3>2, <3>4, <3>6 DEF Watching
  <2>3. CASE d # b /\ w.conn[d].handler \notin Handlers BY <1>9, <1>10, <2>3 DEF Watching
  <2> QED BY <2>1, <2>2, <2>3
<1>13. \A d \in Conns : v.conn[d].fd = IF d = b THEN NIL ELSE w.conn[d].fd BY <1>9, <1>10, BlankRecord
<1>14. ASSUME NEW k \in Handlers PROVE Serving(v, k)
  <2>1. CASE k = h BY <1>10, <2>1 DEF Serving, NoHandler
  <2>2. CASE k # h
    <3>1. Serving(w, k) /\ v.handler[k] = w.handler[k] BY <1>10, <2>2 DEF Sound
    <3>2. b \in Conns => w.handler[k].binding # b BY <1>8, <2>2
    <3> QED BY <1>9, <1>10, <1>13, <3>1, <3>2, Distinct DEF Serving
  <2> QED BY <2>1, <2>2
<1>15. \A d, e \in Conns : v.conn[d].fd \in Fds /\ v.conn[d].fd = v.conn[e].fd => d = e
  BY <1>13, Distinct DEF Sound
<1> QED BY <1>11, <1>12, <1>14, <1>15 DEF Sound

\* No connection and no timer has this socket.
Unused(w, s) ==
  /\ \A c \in Conns : w.conn[c].fd # s
  /\ \A h \in Handlers : w.handler[h].binding = TIMER => w.handler[h].socket # s

\* A connection gets its first socket, and a handler for it.
LEMMA Started ==
  ASSUME NEW w \in Worlds, Wired(w), Sound(w), NEW c \in Conns, w.conn[c].fd = NIL,
         NEW s \in Fds, Unused(w, s), NEW r \in ConnRec,
         r.pq = "started", r.fd = s, r.socket = w.conn[c].socket, r.handler = w.conn[c].handler,
         r.status \in {"qsConnect", "qsReset"}, r.polling # "failed",
         \E g \in Handlers : w.handler[g].type = "none",
         NEW v \in Worlds, v.conn = [w.conn EXCEPT ![c] = r], v.handler = w.handler, v.epoll = w.epoll,
         NEW u, u = CheckSocket(v, c)
  PROVE  /\ Sound(u) /\ u.conn[c].pq = "started" /\ \A d \in Conns \ {c} : u.conn[d] = w.conn[d]
         /\ u.pool = v.pool
<1>1. w.conn \in [Conns -> ConnRec] /\ w.handler \in [Handlers -> HandlerRec]
      /\ w.epoll \in [Fds -> Handlers \cup {NIL, DANGLING}]
  BY DEF Worlds
<1>2. r.socket = NIL /\ w.conn[c].handler = NIL
  <2>1. Steady(w.conn[c]) /\ Watching(w, c) /\ w.conn[c].handler \in Handlers \cup {NIL}
    BY <1>1 DEF Sound, ConnRec
  <2> QED BY <2>1, Distinct DEF Steady, Watching
<1>3. w.epoll[s] = NIL
  <2>1. w.epoll[s] # DANGLING /\ (w.epoll[s] \in Handlers => Watches(w, w.epoll[s], s)) BY DEF Wired
  <2> QED BY <1>1, <2>1 DEF Watches, Unused
<1>4. /\ v \in Worlds /\ v.conn = [w.conn EXCEPT ![c] = r]
      /\ v.handler = w.handler /\ v.epoll = w.epoll
  OBVIOUS
<1>5. PICK q : q = [r EXCEPT !.socket = s] OBVIOUS
<1>6. /\ q \in ConnRec /\ q.pq = r.pq /\ q.fd = s /\ q.socket = s /\ q.handler = NIL /\ q.status = r.status
      /\ q.polling = r.polling
  BY <1>2, <1>5 DEF ConnRec
<1>7. PICK x : x = SetConn(v, c, q) OBVIOUS
<1>8. /\ x \in Worlds /\ x.conn = [v.conn EXCEPT ![c] = q] /\ x.handler = w.handler /\ x.epoll = w.epoll
      /\ x.pool = v.pool
  BY <1>4, <1>6, <1>7, ConnSet
<1>9. x.conn[c] = q /\ v.conn[c] = r /\ \A d \in Conns \ {c} : x.conn[d] = w.conn[d]
  BY <1>1, <1>4, <1>8
<1>10. u = NewEventHandler(x, c)
  BY <1>2, <1>5, <1>7, <1>9, Distinct DEF CheckSocket
<1>11. PICK h : h = CHOOSE g \in Handlers : x.handler[g].type = "none" OBVIOUS
<1>12. h \in Handlers /\ w.handler[h].type = "none" BY <1>8, <1>11
<1>13. PICK g : g = [type |-> "etIO", socket |-> s, binding |-> c] OBVIOUS
<1>14. g \in HandlerRec BY <1>13 DEF HandlerRec
<1>15. PICK y : y = SetHandler(x, h, g) OBVIOUS
<1>16. y \in Worlds /\ y.handler = [w.handler EXCEPT ![h] = g] /\ y.conn = x.conn /\ y.epoll = w.epoll
       /\ y.pool = v.pool
  BY <1>8, <1>12, <1>14, <1>15, HandlerSet
<1>17. PICK p : p = [q EXCEPT !.handler = h] OBVIOUS
<1>18. p \in ConnRec /\ p.pq = "started" /\ p.fd = s /\ p.socket = s /\ p.handler = h
       /\ p.status = r.status /\ p.polling # "failed"
  BY <1>6, <1>12, <1>17 DEF ConnRec
<1>19. PICK z : z = SetConn(y, c, p) OBVIOUS
<1>20. z \in Worlds /\ z.conn = [x.conn EXCEPT ![c] = p] /\ z.handler = y.handler /\ z.epoll = w.epoll
       /\ z.pool = v.pool
  BY <1>16, <1>18, <1>19, ConnSet
<1>21. u = [z EXCEPT !.list = Append(x.list, h), !.epoll = [x.epoll EXCEPT ![s] = IF @ = NIL THEN h ELSE @]]
  BY <1>6, <1>9, <1>10, <1>11, <1>13, <1>15, <1>17, <1>19 DEF NewEventHandler
<1>22. u.conn = z.conn /\ u.handler = z.handler /\ u.epoll = [x.epoll EXCEPT ![s] = IF @ = NIL THEN h ELSE @]
       /\ u.pool = v.pool
  BY <1>20, <1>21 DEF Worlds
<1>23. /\ u.conn[c] = p /\ \A d \in Conns \ {c} : u.conn[d] = w.conn[d]
       /\ u.handler[h] = g /\ \A k \in Handlers \ {h} : u.handler[k] = w.handler[k]
       /\ u.epoll[s] = h /\ \A f \in Fds \ {s} : u.epoll[f] = w.epoll[f]
  <2>1. x.conn \in [Conns -> ConnRec] BY <1>8 DEF Worlds
  <2>2. u.conn[c] = p /\ \A d \in Conns \ {c} : u.conn[d] = w.conn[d] BY <1>9, <1>20, <1>22, <2>1
  <2>3. u.handler = [w.handler EXCEPT ![h] = g] BY <1>16, <1>20, <1>22
  <2>4. u.handler[h] = g /\ \A k \in Handlers \ {h} : u.handler[k] = w.handler[k]
    BY <1>1, <1>12, <2>3
  <2>5. u.epoll = [w.epoll EXCEPT ![s] = h] BY <1>3, <1>8, <1>22
  <2>6. u.epoll[s] = h /\ \A f \in Fds \ {s} : u.epoll[f] = w.epoll[f] BY <1>1, <2>5
  <2> QED BY <2>2, <2>4, <2>6
<1>24. \A d \in Conns : w.conn[d].handler # h
  BY <1>12, Distinct DEF Wired
<1>25. \A d \in Conns : Steady(u.conn[d])
  <2>1. Steady(p) BY <1>12, <1>18, Distinct DEF Steady
  <2> QED BY <1>23, <2>1 DEF Sound
<1>26. ASSUME NEW d \in Conns PROVE Watching(u, d)
  <2>1. CASE d = c BY <1>13, <1>18, <1>23, <2>1 DEF Watching
  <2>2. CASE d # c
    <3>1. Watching(w, d) /\ u.conn[d] = w.conn[d] BY <1>23, <2>2 DEF Sound
    <3>2. w.conn[d].handler # h /\ w.conn[d].fd # s BY <1>24 DEF Unused
    <3> QED BY <1>23, <3>1, <3>2 DEF Watching
  <2> QED BY <2>1, <2>2
<1>27. ASSUME NEW k \in Handlers PROVE Serving(u, k)
  <2>1. CASE k = h BY <1>13, <1>18, <1>23, <2>1 DEF Serving
  <2>2. CASE k # h
    <3>1. Serving(w, k) /\ u.handler[k] = w.handler[k] BY <1>23, <2>2 DEF Sound
    <3>2. w.handler[k].binding = TIMER => w.handler[k].socket # s BY DEF Unused
    <3>3. w.handler[k].binding # c
      BY <1>2, <3>1, Distinct DEF Serving
    <3> QED BY <1>18, <1>23, <3>1, <3>2, <3>3 DEF Serving
  <2> QED BY <2>1, <2>2
<1>28. \A d, e \in Conns : u.conn[d].fd \in Fds /\ u.conn[d].fd = u.conn[e].fd => d = e
  BY <1>18, <1>23 DEF Sound, Unused
<1> QED BY <1>18, <1>22, <1>23, <1>25, <1>26, <1>27, <1>28 DEF Sound

\* CheckSocket has nothing to do.
LEMMA NothingToCheck ==
  ASSUME NEW w, NEW c, w.conn[c].socket = w.conn[c].fd
  PROVE  CheckSocket(w, c) = w
BY DEF CheckSocket

LEMMA FreeAreUnused ==
  ASSUME ObjectsOK
  PROVE  /\ \A s \in FreeFds : s \in Fds /\ Unused(World, s)
         /\ FreeFds = {} <=> Exhausted(World)
<1>1. FreeFds \subseteq Fds \ OpenFds /\ (FreeFds = {} <=> Fds \ OpenFds = {}) BY DEF FreeFds
<1>2. \A s \in Fds : s \notin OpenFds <=> Unused(World, s) BY DEF OpenFds, Unused, World
<1>3. Exhausted(World) <=> \A s \in Fds : ~Unused(World, s) BY DEF Exhausted, Unused
<1> QED BY <1>1, <1>2, <1>3

\* What one call of PQconnectPoll does when nothing fails.
LEMMA PollingQuietly ==
  ASSUME NEW w \in Worlds, NEW c \in Conns, NEW p \in {"writing", "reading", "ok", "failed"},
         NEW v, v = Polling(w, c, p)
  PROVE  /\ Edited(w, v, c) /\ v.conn[c].polling = p
         /\ v.conn[c].status = w.conn[c].status /\ v.conn[c].pq = w.conn[c].pq
<1>1. w.conn[c] \in ConnRec BY DEF Worlds
<1>2. PICK b \in BOOLEAN : b = (w.conn[c].fresh \/ p = "writing") OBVIOUS
<1>3. PICK r : r = [w.conn[c] EXCEPT !.polling = p, !.fresh = b] OBVIOUS
<1>4. /\ r \in ConnRec /\ r.polling = p /\ r.status = w.conn[c].status /\ r.pq = w.conn[c].pq
      /\ r.fd = w.conn[c].fd /\ r.socket = w.conn[c].socket /\ r.handler = w.conn[c].handler
  BY <1>1, <1>3 DEF ConnRec
<1>5. v = SetConn(w, c, r) BY <1>2, <1>3 DEF Polling
<1> QED BY <1>4, <1>5, EditedBySetConn

LEMMA GoesQuietly ==
  ASSUME NEW w \in Worlds, NEW c \in Conns, NEW st \in {"late", "ok"}, NEW v, v = Goes(w, c, st)
  PROVE  Edited(w, v, c) /\ v.conn[c].status = w.conn[c].status /\ v.conn[c].pq = st
<1>1. w.conn[c] \in ConnRec BY DEF Worlds
<1>2. PICK r : r = [w.conn[c] EXCEPT !.pq = st] OBVIOUS
<1>3. /\ r \in ConnRec /\ r.pq = st /\ r.status = w.conn[c].status
      /\ r.fd = w.conn[c].fd /\ r.socket = w.conn[c].socket /\ r.handler = w.conn[c].handler
  BY <1>1, <1>2 DEF ConnRec
<1>4. v = SetConn(w, c, r) BY <1>2 DEF Goes
<1> QED BY <1>3, <1>4, EditedBySetConn

LEMMA PolledQuietly ==
  ASSUME NEW w \in Worlds, NEW c \in Conns, w.conn[c].pq # "none", Steady(w.conn[c]),
         NEW o \in Polled(w, c), o.cost = 0
  PROVE  /\ Edited(w, o.world, c) /\ Steady(o.world.conn[c])
         /\ w.conn[c].pq = "bad" => o.world.conn[c].pq = "bad" /\ Failed(o.world, c)
         /\ w.conn[c].pq # "bad" =>
              o.world.conn[c].pq \in {"started", "late", "ok"} /\ ~Failed(o.world, c)
         /\ CheckSocket(o.world, c) = o.world
<1>1. \A u, n : Outcome(u, n).world = u /\ Outcome(u, n).cost = n BY DEF Outcome
<1>2. w.conn[c].pq \in {"started", "late", "ok", "bad"}
  <2>1. w.conn[c] \in ConnRec BY DEF Worlds
  <2> QED BY <2>1 DEF ConnRec
<1>3. Edited(w, w, c) BY DEF Edited
<1>4. \E u, p : /\ o.world = Polling(u, c, p) /\ p \in {"writing", "reading", "ok", "failed"}
                /\ u \in Worlds /\ Edited(w, u, c) /\ u.conn[c].status = w.conn[c].status
                /\ IF w.conn[c].pq = "bad" THEN u.conn[c].pq = "bad" /\ p = "failed"
                   ELSE u.conn[c].pq \in {"started", "late", "ok"} /\ p # "failed"
  <2>1. CASE w.conn[c].pq = "bad"
    <3>1. o = Outcome(Polling(w, c, "failed"), 0) BY <2>1 DEF Polled
    <3> QED BY <1>1, <1>3, <2>1, <3>1
  <2>2. CASE w.conn[c].pq = "ok"
    <3>1. o = Outcome(Polling(w, c, "ok"), 0) BY <2>2 DEF Polled
    <3> QED BY <1>1, <1>3, <2>2, <3>1
  <2>3. CASE w.conn[c].pq \in {"started", "late"}
    <3>1. \/ o = Outcome(Polling(Goes(w, c, "late"), c, "reading"), 0)
          \/ o = Outcome(Polling(Goes(w, c, "ok"), c, "ok"), 0)
          \/ o = Outcome(Polling(Goes(w, c, "bad"), c, "failed"), 1)
          \/ o = Outcome(Polling(Moves(w, c, "bad", NIL), c, "failed"), 1)
          \/ \E s \in SocketsFor(c) : o = Outcome(Polling(Moves(w, c, "started", s), c, "writing"), 1)
          \/ o = Outcome(Polling(w, c, "writing"), 0)
      BY <2>3 DEF Polled
    <3>2. 0 # 1 OBVIOUS
    <3>3. \/ o = Outcome(Polling(Goes(w, c, "late"), c, "reading"), 0)
          \/ o = Outcome(Polling(Goes(w, c, "ok"), c, "ok"), 0)
          \/ o = Outcome(Polling(w, c, "writing"), 0)
      BY <1>1, <3>1, <3>2
    <3>4. PICK x, y : x = Goes(w, c, "late") /\ y = Goes(w, c, "ok") OBVIOUS
    <3>5. /\ Edited(w, x, c) /\ x.conn[c].status = w.conn[c].status /\ x.conn[c].pq = "late"
          /\ Edited(w, y, c) /\ y.conn[c].status = w.conn[c].status /\ y.conn[c].pq = "ok"
      BY <3>4, GoesQuietly
    <3>6. x \in Worlds /\ y \in Worlds BY <3>5 DEF Edited
    <3>7. CASE o = Outcome(Polling(Goes(w, c, "late"), c, "reading"), 0)
      <4>1. o.world = Polling(x, c, "reading") BY <1>1, <3>4, <3>7
      <4> QED BY <2>3, <3>5, <3>6, <4>1
    <3>8. CASE o = Outcome(Polling(Goes(w, c, "ok"), c, "ok"), 0)
      <4>1. o.world = Polling(y, c, "ok") BY <1>1, <3>4, <3>8
      <4> QED BY <2>3, <3>5, <3>6, <4>1
    <3>9. CASE o = Outcome(Polling(w, c, "writing"), 0)
      <4>1. o.world = Polling(w, c, "writing") BY <1>1, <3>9
      <4> QED BY <1>3, <2>3, <4>1
    <3> QED BY <3>3, <3>7, <3>8, <3>9
  <2> QED BY <1>2, <2>1, <2>2, <2>3
<1>5. PICK u, p : /\ o.world = Polling(u, c, p) /\ p \in {"writing", "reading", "ok", "failed"}
                  /\ u \in Worlds /\ Edited(w, u, c) /\ u.conn[c].status = w.conn[c].status
                  /\ IF w.conn[c].pq = "bad" THEN u.conn[c].pq = "bad" /\ p = "failed"
                     ELSE u.conn[c].pq \in {"started", "late", "ok"} /\ p # "failed"
  BY <1>4
<1>6. PICK v : v = o.world OBVIOUS
<1>7. /\ Edited(u, v, c) /\ v.conn[c].polling = p
      /\ v.conn[c].status = u.conn[c].status /\ v.conn[c].pq = u.conn[c].pq
  BY <1>5, <1>6, PollingQuietly
<1>8. Edited(w, v, c) BY <1>5, <1>7, EditedTwice
<1>9. Steady(v.conn[c]) BY <1>5, <1>7, <1>8 DEF Steady, Edited
<1>10. CheckSocket(v, c) = v
  <2>1. v.conn[c].socket = v.conn[c].fd BY <1>9 DEF Steady
  <2> QED BY <2>1, NothingToCheck
<1> QED BY <1>2, <1>5, <1>6, <1>7, <1>8, <1>9, <1>10 DEF Failed

-----------------------------------------------------------------------------
(* The invariant of such a pool, from the objects to the variables.         *)

LEMMA BecameSound ==
  ASSUME NEW v, Become(v), Sound(v)
  PROVE  Sound(World)' /\ (Exhausted(v) => Exhausted(World)')
<1>1. World'.handler = v.handler /\ World'.conn = v.conn /\ World'.epoll = v.epoll
  BY DEF Become, World
<1> QED BY <1>1 DEF Sound, Steady, Watching, Serving, Exhausted

LEMMA SoundStays ==
  ASSUME Sound(World), UNCHANGED <<handler, conn, epoll>>
  PROVE  Sound(World)' /\ (Exhausted(World) => Exhausted(World)')
BY DEF World, Sound, Steady, Watching, Serving, Exhausted

\* A step in which the record of connection c is edited.
LEMMA EditedQuietly ==
  ASSUME Sound(World), NEW c \in Conns, NEW v, Edited(World, v, c), Steady(v.conn[c]), Become(v)
  PROVE  /\ Sound(World)' /\ (Exhausted(World) => Exhausted(World)')
         /\ pool' = pool /\ conn' = v.conn /\ \A d \in Conns \ {c} : conn'[d] = conn[d]
<1>1. Sound(v) /\ (Exhausted(World) => Exhausted(v)) BY EditedSound
<1>2. Sound(World)' /\ (Exhausted(v) => Exhausted(World)') BY <1>1, BecameSound
<1>3. pool' = pool /\ conn' = v.conn /\ \A d \in Conns \ {c} : conn'[d] = conn[d]
  BY DEF Become, Edited, World
<1> QED BY <1>1, <1>2, <1>3

LEMMA NoneUnmade ==
  ASSUME Inv, Calm, calls = <<>>
  PROVE  /\ \A c \in Members(pool) : c \in Conns /\ conn[c].pq \in {"started", "late", "ok"}
         /\ \A c \in Conns : conn[c].pq # "bad"
<1>1. TypeOK /\ Wired(World) BY DEF Inv
<1>2. pool \in Seq(Conns) /\ conn \in [Conns -> ConnRec] BY <1>1 DEF TypeOK
<1>3. DOMAIN calls = {} OBVIOUS
<1>4. \A c \in Members(pool) : c \in Conns /\ conn[c].pq \notin {"none", "bad"}
  BY <1>2, <1>3 DEF Calm, Unmade, Members
<1>5. \A c \in Conns : conn[c].pq \in {"none", "started", "late", "ok", "bad"} BY <1>2 DEF ConnRec
<1>6. \A c \in Conns : c \notin Members(pool) => conn[c].pq = "none"
  BY <1>1, BlankRecord DEF Wired, World
<1> QED BY <1>4, <1>5, <1>6

\* The connection that a frame is about
LEMMA FrameConn ==
  ASSUME Inv, NEW i \in DOMAIN calls
  PROVE  /\ calls[i].step = "newfail" =>
              calls[i].new /\ calls[i].conn \in Conns /\ Making(calls[i], calls[i].conn)
         /\ i # 1 => calls[i].step \in Callbacks
<1>1. TypeOK /\ Frames BY DEF Inv
<1>2. calls[i] \in Frame /\ i \in Nat /\ i >= 1 BY <1>1 DEF TypeOK
<1>3. FrameOK(calls[i]) /\ (i > 1 => calls[i].step \in Callbacks) BY <1>1 DEF Frames
<1>4. calls[i].step = "newfail" => calls[i].new /\ calls[i].conn \in Conns
  BY <1>2, <1>3 DEF FrameOK, Frame
<1>5. calls[i].step = "newfail" => Making(calls[i], calls[i].conn) BY <1>4 DEF Making
<1> QED BY <1>2, <1>3, <1>4, <1>5

\* The innermost call goes on as frame f.
LEMMA CalmGoes ==
  ASSUME Inv, Quiet, calls # <<>>, NEW f \in Frame, Goto(f), UNCHANGED <<pc, cur>>, Sound(World)',
         f.step = "failing" => f.conn = NIL,
         f.step = "newfail" => conn'[f.conn].pq = "bad",
         f.step = "poll" => conn'[f.conn].pq # "none",
         \A d \in Conns : conn[d].pq = "bad" => conn'[d].pq = "bad" \/ Making(Call, d),
         \A d \in Members(pool') : conn'[d].pq \in {"none", "bad"} =>
           Making(f, d) \/ (d \in Members(pool) /\ conn[d].pq \in {"none", "bad"} /\ ~Making(Call, d)),
         \A d \in Conns : conn'[d].pq = "bad" => Exhausted(World)'
  PROVE  Quiet'
<1>1. TypeOK /\ Calm /\ Frames BY DEF Inv, Quiet
<1>2. /\ DOMAIN calls' = DOMAIN calls /\ 1 \in DOMAIN calls /\ calls' # <<>>
      /\ calls'[1] = f /\ calls[1] = Call
      /\ \A i \in DOMAIN calls : i # 1 => calls'[i] = calls[i]
  BY <1>1, WentTo
<1>3. Head(calls') = f
  <2>1. calls' \in Seq(Frame) BY <1>1, WentTo
  <2> QED BY <1>2, <2>1
<1>4. pc' \notin {"fault", "undefined"} /\ (pc' \in {"executed", "notify"} => cur'.saved # "qsError")
  BY <1>1 DEF Calm
<1>5. \A i \in DOMAIN calls' : calls'[i].step = "failing" => calls'[i].conn = NIL
  BY <1>1, <1>2 DEF Calm
<1>6. ASSUME NEW i \in DOMAIN calls', calls'[i].step = "newfail" PROVE conn'[calls'[i].conn].pq = "bad"
  <2>1. CASE i = 1 BY <1>2, <1>6, <2>1
  <2>2. CASE i # 1
    <3>1. i \in DOMAIN calls /\ calls'[i] = calls[i] BY <1>2, <2>2
    <3>2. PICK d : d = calls[i].conn OBVIOUS
    <3>3. d \in Conns /\ Making(calls[i], d) BY <1>6, <3>1, <3>2, FrameConn
    <3>4. conn[d].pq = "bad" BY <1>1, <1>6, <3>1, <3>2 DEF Calm
    <3>5. ~Making(Call, d)
      BY <1>1, <1>2, <1>6, <2>2, <3>1, <3>2, <3>3 DEF Frames, Callbacks
    <3> QED BY <3>1, <3>2, <3>3, <3>4, <3>5
  <2> QED BY <2>1, <2>2
<1>7. InCall("poll")' => conn'[Call'.conn].pq # "none" BY <1>3 DEF InCall, Call
<1>8. ASSUME NEW d \in Members(pool'), conn'[d].pq \in {"none", "bad"}
      PROVE  \E i \in DOMAIN calls' : Making(calls'[i], d)
  <2>1. CASE Making(f, d) BY <1>2, <2>1
  <2>2. CASE d \in Members(pool) /\ conn[d].pq \in {"none", "bad"} /\ ~Making(Call, d)
    <3>1. PICK i \in DOMAIN calls : Making(calls[i], d) BY <1>1, <2>2 DEF Calm, Unmade
    <3>2. i # 1 BY <1>2, <2>2, <3>1
    <3> QED BY <1>2, <3>1, <3>2
  <2> QED BY <1>8, <2>1, <2>2
<1>9. \A d \in Members(pool') : Unmade(d)' => \E i \in DOMAIN calls' : Making(calls'[i], d)
  BY <1>8 DEF Unmade
<1>10. Calm' BY <1>4, <1>5, <1>6, <1>7, <1>9 DEF Calm, Making
<1> QED BY <1>10 DEF Quiet

\* The innermost call returns; the ones around it are in callbacks.
LEMMA CalmReturns ==
  ASSUME Inv, Quiet, calls # <<>>, Return, UNCHANGED <<pc, cur, pool>>, Sound(World)',
         Call.step \notin {"start", "poll", "newfail"},
         Exhausted(World) => Exhausted(World)',
         \A d \in Conns : conn[d].pq = conn'[d].pq
  PROVE  Quiet'
<1>1. TypeOK /\ Calm /\ Frames BY DEF Inv, Quiet
<1>2. /\ calls' \in Seq(Frame)
      /\ \A i \in DOMAIN calls' : i \in Nat /\ i >= 1 /\ i + 1 \in DOMAIN calls /\ calls'[i] = calls[i + 1]
      /\ \A i \in DOMAIN calls : i # 1 =>
           i \in Nat /\ i - 1 \in DOMAIN calls' /\ calls'[i - 1] = calls[i]
  BY <1>1, Returned
<1>3. pc' \notin {"fault", "undefined"} /\ (pc' \in {"executed", "notify"} => cur'.saved # "qsError")
  BY <1>1 DEF Calm
<1>4. \A i \in DOMAIN calls' : calls'[i].step = "failing" => calls'[i].conn = NIL
  BY <1>1, <1>2 DEF Calm
<1>5. ASSUME NEW i \in DOMAIN calls', calls'[i].step = "newfail" PROVE conn'[calls'[i].conn].pq = "bad"
  <2>1. i + 1 \in DOMAIN calls /\ calls'[i] = calls[i + 1] BY <1>2
  <2>2. calls[i + 1].conn \in Conns BY <1>5, <2>1, FrameConn
  <2>3. conn[calls[i + 1].conn].pq = "bad" BY <1>1, <1>5, <2>1 DEF Calm
  <2> QED BY <2>1, <2>2, <2>3
<1>6. ~InCall("poll")'
  <2> SUFFICES ASSUME calls' # <<>> PROVE Head(calls').step # "poll" BY DEF InCall, Call
  <2>1. 1 \in DOMAIN calls' /\ Head(calls') = calls'[1] BY <1>2
  <2>2. 1 + 1 \in DOMAIN calls /\ calls'[1] = calls[1 + 1] BY <1>2, <2>1
  <2>3. calls[1 + 1].step \in Callbacks BY <2>2, FrameConn
  <2> QED BY <2>1, <2>2, <2>3 DEF Callbacks
<1>7. ASSUME NEW d \in Members(pool'), conn'[d].pq \in {"none", "bad"}
      PROVE  \E i \in DOMAIN calls' : Making(calls'[i], d)
  <2>1. d \in Members(pool) /\ d \in Conns BY <1>1 DEF TypeOK, Members
  <2>2. PICK i \in DOMAIN calls : Making(calls[i], d) BY <1>1, <1>7, <2>1 DEF Calm, Unmade
  <2>3. i # 1
    <3>1. Call = calls[1] BY CallIs
    <3> QED BY <2>2, <3>1 DEF Making
  <2> QED BY <1>2, <2>2, <2>3
<1>8. \A d \in Members(pool') : Unmade(d)' => \E i \in DOMAIN calls' : Making(calls'[i], d)
  BY <1>7 DEF Unmade
<1>9. \A d \in Conns : conn'[d].pq = "bad" => Exhausted(World)' BY <1>1 DEF Calm
<1>10. Calm' BY <1>3, <1>4, <1>5, <1>6, <1>8, <1>9 DEF Calm, Making
<1> QED BY <1>10 DEF Quiet

\* A step of the loop; it may start a call.
LEMMA RunningCalm ==
  ASSUME Inv', Sound(World)', pc' \notin {"fault", "undefined"}, pc' \in {"executed", "notify"} => cur'.saved # "qsError",
         \A i \in DOMAIN calls' : calls'[i].step \in {"scan", "open"},
         \A d \in Members(pool') : conn'[d].pq \notin {"none", "bad"}
  PROVE  Quiet'
<1>1. TypeOK' /\ Wired(World)' BY DEF Inv
<1>2. \A d \in Conns : d \notin Members(pool') => conn'[d] = Blank BY <1>1 DEF Wired, World
<1>3. \A d \in Conns : conn'[d].pq # "bad" BY <1>2, BlankRecord
<1>4. ~InCall("poll")'
  <2> SUFFICES ASSUME calls' # <<>> PROVE Head(calls').step # "poll" BY DEF InCall, Call
  <2>1. calls' \in Seq(Frame) BY <1>1 DEF TypeOK
  <2>2. 1 \in DOMAIN calls' /\ Head(calls') = calls'[1] BY <2>1
  <2> QED BY <2>2
<1>5. Calm' BY <1>3, <1>4 DEF Calm, Unmade
<1> QED BY <1>5 DEF Quiet

LEMMA NoFault ==
  ASSUME Inv, MaxFaults = 0
  PROVE  ~Disturb(1) /\ \A n \in {0, 1} : Disturb(n) => n = 0
<1>1. faults \in 0 .. MaxFaults BY DEF Inv, TypeOK
<1>2. faults = 0 BY <1>1
<1> QED BY <1>2 DEF Disturb

\* The frame that a call goes on with
LEMMA FrameAfter ==
  ASSUME Inv, Inv', calls # <<>>, NEW f, Goto(f)
  PROVE  f \in Frame
<1> DEFINE S == Frame \cup {f}
<1>1. calls \in Seq(Frame) /\ calls' \in Seq(Frame) BY DEF Inv, TypeOK
<1>2. Tail(calls) \in Seq(S) /\ f \in S BY <1>1
<1>3. PICK t \in Seq(S) : t = Tail(calls) BY <1>2
<1>4. calls' = <<f>> \o t BY <1>3 DEF Goto
<1> HIDE DEF S
<1>5. 1 \in DOMAIN calls' /\ calls'[1] = f BY <1>2, <1>4, Pushed
<1> QED BY <1>1, <1>5

\* What a member of the pool is, that nobody has made
LEMMA UnmadeIs ==
  ASSUME Inv, Quiet, calls # <<>>, Call.step \notin {"start", "poll", "newfail"},
         NEW c \in Members(pool), conn[c].pq \in {"none", "bad"}
  PROVE  conn[c].pq = "bad" /\ ~Making(Call, c) /\ FreeFds = {}
<1>1. TypeOK /\ Calm /\ Frames /\ ObjectsOK BY CallIs DEF Inv, Quiet
<1>2. c \in Conns BY <1>1 DEF TypeOK, Members
<1>3. ~Making(Call, c) BY DEF Making
<1>4. PICK i \in DOMAIN calls : Making(calls[i], c) BY <1>1 DEF Calm, Unmade
<1>5. i # 1 BY <1>3, <1>4, CallIs
<1>6. calls[i].step = "newfail" BY <1>4, <1>5, FrameConn DEF Making, Callbacks
<1>7. conn[c].pq = "bad" BY <1>1, <1>4, <1>6 DEF Calm, Making
<1>8. FreeFds = {} BY <1>1, <1>2, <1>7, FreeAreUnused DEF Calm
<1> QED BY <1>3, <1>7, <1>8

\* The call goes on, and nothing changes for the connections.
LEMMA GoesQuiet ==
  ASSUME Inv, Quiet, calls # <<>>, NEW f \in Frame, Goto(f), UNCHANGED <<objects, pc, cur>>,
         Call.step \notin {"start", "poll", "newfail"}, f.step \notin {"newfail", "poll"},
         f.step = "failing" => f.conn = NIL
  PROVE  Quiet'
<1>1. UNCHANGED <<handler, conn, epoll, pool, pc, cur>> BY DEF objects
<1>2. Sound(World) /\ Calm BY DEF Quiet
<1>3. Sound(World)' /\ (Exhausted(World) => Exhausted(World)') BY <1>1, <1>2, SoundStays
<1>4. \A d \in Members(pool') : ~Making(Call, d) BY DEF Making
<1>5. \A d \in Conns : conn'[d].pq = "bad" => Exhausted(World)' BY <1>1, <1>2, <1>3 DEF Calm
<1> QED BY <1>1, <1>3, <1>4, <1>5, CalmGoes

LEMMA ScanPassesQuiet ==
  ASSUME Inv, Inv', Quiet, ScanPasses
  PROVE  Quiet'
<1>1. /\ Scanning /\ NextConnection /\ UNCHANGED <<objects, pc, cur>>
  BY DEF ScanPasses, loop
<1>2. calls # <<>> /\ Call.step = "scan" BY <1>1, ScanIs
<1>3. PICK f : f = [Call EXCEPT !.step = "scan", !.conn = NIL, !.at = @ + 1] OBVIOUS
<1>4. Goto(f) BY <1>1, <1>3 DEF NextConnection
<1>5. f \in Frame BY <1>2, <1>4, FrameAfter
<1>6. Call \in Frame BY <1>2, CallIs
<1>7. f.step = "scan" BY <1>3, <1>6 DEF Frame
<1> QED BY <1>1, <1>2, <1>4, <1>5, <1>7, GoesQuiet

LEMMA ScanEnters ==
  ASSUME Inv, Quiet, MaxFaults = 0
  PROVE  ~ScanCloses /\ ~ScanResets
<1>1. ~ScanCloses BY NoFault DEF ScanCloses
<1>2. ASSUME ScanResets PROVE FALSE
  <2>1. Scanning /\ conn[Visited].pq = "bad" /\ SocketsFor(Visited) # {} BY <1>2 DEF ScanResets
  <2>2. calls # <<>> /\ Call.step = "scan" /\ Visited \in Members(pool) /\ Visited \in Conns BY <2>1, ScanIs
  <2>3. PICK c \in Conns : c = Visited BY <2>2
  <2>4. FreeFds = {} BY <2>1, <2>2, <2>3, UnmadeIs
  <2>5. conn[c].fd = NIL BY <2>1, <2>3 DEF Quiet, Sound, Steady, World
  <2> QED BY <2>1, <2>3, <2>4, <2>5 DEF SocketsFor
<1> QED BY <1>1, <1>2

\* A connection that NewConnection failed to make, in a callback of which Start resets it.
LEMMA ScanReconnectsQuiet ==
  ASSUME Inv, Inv', Quiet, ScanReconnects
  PROVE  Quiet'
<1>1. /\ Scanning /\ conn[Visited].pq \in {"none", "bad"}
      /\ Become(IF conn[Visited].pq = "none" THEN Reset(Visited)
                ELSE Moves(Reset(Visited), Visited, "bad", NIL))
      /\ Goto([Call EXCEPT !.step = "start", !.conn = Visited, !.again = TRUE])
      /\ UNCHANGED <<pc, cur>>
  BY DEF ScanReconnects, loop
<1>2. /\ calls # <<>> /\ Call.step = "scan" /\ Visited \in Conns /\ Visited \in Members(pool)
      /\ conn[Visited] \in ConnRec /\ World \in Worlds /\ ObjectsOK
  BY <1>1, ScanIs
<1>3. PICK c \in Conns : c = Visited BY <1>2
<1>4. conn[c].pq = "bad" BY <1>1, <1>2, <1>3, UnmadeIs
<1>5. Sound(World) /\ Steady(conn[c]) /\ conn[c].fd = NIL
  BY <1>4 DEF Quiet, Sound, Steady, World
<1>6. PICK r : r = [conn[c] EXCEPT !.status = "qsReset"] OBVIOUS
<1>7. /\ r \in ConnRec /\ r.pq = "bad" /\ r.status = "qsReset" /\ r.fd = NIL
      /\ r.socket = conn[c].socket /\ r.handler = conn[c].handler
  <2>1. conn[c] \in ConnRec BY <1>2, <1>3
  <2> QED BY <1>4, <1>5, <1>6, <2>1 DEF ConnRec, Statuses
<1>8. PICK x : x = Reset(c) OBVIOUS
<1>9. x = SetConn(World, c, r) BY <1>6, <1>8 DEF Reset, SetStatus, World
<1>10. Edited(World, x, c) /\ x.conn[c] = r
  BY <1>2, <1>5, <1>7, <1>9, EditedBySetConn DEF World
<1>11. PICK v : v = Moves(x, c, "bad", NIL) OBVIOUS
<1>12. PICK p : p = [r EXCEPT !.pq = "bad", !.fd = NIL] OBVIOUS
<1>13. /\ p \in ConnRec /\ p.pq = "bad" /\ p.status = "qsReset" /\ p.fd = NIL
       /\ p.socket = conn[c].socket /\ p.handler = conn[c].handler
  BY <1>7, <1>12 DEF ConnRec
<1>14. v = SetConn(x, c, p) BY <1>7, <1>10, <1>11, <1>12 DEF Moves, CloseFd
<1>15. Edited(x, v, c) /\ v.conn[c] = p
  <2>1. x \in Worlds BY <1>10 DEF Edited
  <2> QED BY <1>7, <1>10, <1>13, <1>14, <2>1, EditedBySetConn
<1>16. Edited(World, v, c) BY <1>10, <1>15, EditedTwice
<1>17. Steady(p) BY <1>5, <1>13 DEF Steady
<1>18. Become(v) BY <1>1, <1>3, <1>4, <1>8, <1>11
<1>19. /\ Sound(World)' /\ (Exhausted(World) => Exhausted(World)')
       /\ pool' = pool /\ conn' = v.conn /\ \A d \in Conns \ {c} : conn'[d] = conn[d]
  BY <1>5, <1>15, <1>16, <1>17, <1>18, EditedQuietly
<1>20. PICK f : f = [Call EXCEPT !.step = "start", !.conn = Visited, !.again = TRUE] OBVIOUS
<1>21. Goto(f) /\ f \in Frame BY <1>1, <1>2, <1>20, FrameAfter
<1>22. f.step = "start"
  <2>1. Call \in Frame BY <1>2, CallIs
  <2> QED BY <1>20, <2>1 DEF Frame
<1>23. \A d \in Conns : conn'[d].pq = conn[d].pq BY <1>4, <1>13, <1>15, <1>19
<1>24. \A d \in Members(pool') : d \in Conns /\ ~Making(Call, d)
  BY <1>2, <1>19 DEF Making, ObjectsOK, Members
<1>25. \A d \in Conns : conn'[d].pq = "bad" => Exhausted(World)' BY <1>19, <1>23 DEF Quiet, Calm
<1> QED BY <1>1, <1>2, <1>19, <1>21, <1>22, <1>23, <1>24, <1>25, CalmGoes

\* NewConnection has an object.
LEMMA CreatesQuiet ==
  ASSUME Inv, Inv', Quiet, calls # <<>>, NEW g \in Frame, Create(g), UNCHANGED <<pc, cur>>,
         Call.step \notin {"start", "poll", "newfail"}
  PROVE  Quiet'
<1>1. PICK c : c = CHOOSE d \in FreeConns : TRUE OBVIOUS
<1>2. PICK f : f = [g EXCEPT !.step = "start", !.conn = c, !.new = TRUE] OBVIOUS
<1>3. /\ pool' = Append(pool, c) /\ Goto(f) /\ UNCHANGED <<handler, list, conn, epoll, work>>
  BY <1>1, <1>2 DEF Create
<1>4. f \in Frame BY <1>3, FrameAfter
<1>5. f.step = "start" /\ f.conn = c /\ f.new BY <1>2 DEF Frame
<1>6. ObjectsOK /\ Sound(World) /\ Calm BY CallIs DEF Quiet
<1>7. Sound(World)' /\ (Exhausted(World) => Exhausted(World)') BY <1>3, <1>6, SoundStays
<1>8. Members(pool') = Members(pool) \cup {c}
  <2>1. pool \in Seq(Conns \cup {c}) BY <1>6 DEF ObjectsOK
  <2> QED BY <1>3, <2>1, Appended
<1>9. \A d \in Members(pool') : ~Making(Call, d) /\ (d = c => Making(f, d)) BY <1>5 DEF Making
<1>10. \A d \in Conns : conn'[d].pq = "bad" => Exhausted(World)' BY <1>3, <1>6, <1>7 DEF Calm
<1> QED BY <1>3, <1>4, <1>5, <1>7, <1>8, <1>9, <1>10, CalmGoes

LEMMA ScanEndsQuiet ==
  ASSUME Inv, Inv', Quiet, ScanEnds
  PROVE  Quiet'
<1>1. calls # <<>> /\ Call.step = "scan" /\ UNCHANGED <<pc, cur>> BY DEF ScanEnds, InCall, loop
<1>2. Call \in Frame BY <1>1, CallIs
<1>3. Create(Call) \/ (Goto([Call EXCEPT !.step = "park"]) /\ UNCHANGED objects) BY DEF ScanEnds
<1>4. CASE Create(Call) BY <1>1, <1>2, <1>4, CreatesQuiet
<1>5. CASE Goto([Call EXCEPT !.step = "park"]) /\ UNCHANGED objects
  <2>1. PICK f : f = [Call EXCEPT !.step = "park"] OBVIOUS
  <2>2. f \in Frame /\ f.step = "park" BY <1>2, <2>1 DEF Frame
  <2>3. Goto(f) BY <1>5, <2>1
  <2> QED BY <1>1, <1>5, <2>2, <2>3, GoesQuiet
<1> QED BY <1>3, <1>4, <1>5

LEMMA OpensQuiet ==
  ASSUME Inv, Inv', Quiet, Opens
  PROVE  Quiet'
<1>1. calls # <<>> /\ Call.step = "open" /\ UNCHANGED <<pc, cur>> BY DEF Opens, InCall, loop
<1>2. Call \in Frame /\ Call.at \in Nat BY <1>1, CallIs
<1>3. PICK g : g = [Call EXCEPT !.at = Call.at + 1] OBVIOUS
<1>4. g \in Frame
  <2>1. Call.at + 1 \in Nat BY <1>2
  <2> QED BY <1>2, <1>3, <2>1 DEF Frame
<1>5. Create(g) BY <1>3 DEF Opens
<1> QED BY <1>1, <1>4, <1>5, CreatesQuiet

\* libpq has a socket and the connection a handler.
LEMMA ConnectStartQuiet ==
  ASSUME Inv, Inv', Quiet, HandlersSuffice, ConnectStart
  PROVE  Quiet'
<1>1. InCall("start") /\ UNCHANGED <<pc, cur>> BY DEF ConnectStart, loop
<1>2. calls # <<>> /\ Call.step = "start" BY <1>1 DEF InCall
<1>3. /\ Call.conn \in Conns /\ Connecting(Call.conn) /\ conn[Call.conn].fd = NIL
      /\ conn[Call.conn] \in ConnRec /\ Call \in Frame /\ ObjectsOK /\ World \in Worlds /\ Wired(World)
  BY <1>2, MakingIs
<1>4. PICK c \in Conns : c = Call.conn BY <1>3
<1>5. conn[c].fd = NIL /\ Connecting(c) /\ conn[c] \in ConnRec BY <1>3, <1>4
<1>6. Sound(World) /\ Calm /\ Steady(conn[c]) BY DEF Quiet, Sound, World
<1>7. PICK s \in FreeFds :
        LET w == SetConn(World, c, [conn[c] EXCEPT !.pq = "started", !.fd = s])
            v == Polling(w, c, conn[c].polling)
        IN IF Failed(w, c) THEN Become(w) /\ Throw
           ELSE /\ HandlerAtHand(v, c) /\ Become(CheckSocket(v, c))
                /\ Goto([Call EXCEPT !.step = "poll"]) /\ UNCHANGED service
  BY <1>4 DEF ConnectStart
<1>8. s \in Fds /\ Unused(World, s) /\ ~Exhausted(World) BY <1>3, FreeAreUnused
<1>9. \A d \in Conns : conn[d].pq # "bad" BY <1>6, <1>8 DEF Calm
<1>10. conn[c].polling \in {"writing", "reading", "ok"} BY <1>5, <1>6, <1>9 DEF Steady, ConnRec
<1>11. PICK p : p = [conn[c] EXCEPT !.pq = "started", !.fd = s] OBVIOUS
<1>12. /\ p \in ConnRec /\ p.pq = "started" /\ p.fd = s /\ p.status = conn[c].status
       /\ p.socket = conn[c].socket /\ p.handler = conn[c].handler /\ p.polling = conn[c].polling
  BY <1>5, <1>8, <1>11 DEF ConnRec
<1>13. PICK w : w = SetConn(World, c, p) OBVIOUS
<1>14. /\ w \in Worlds /\ w.conn = [conn EXCEPT ![c] = p]
       /\ w.handler = handler /\ w.epoll = epoll /\ w.pool = pool
  <2>1. /\ w \in Worlds /\ w.conn = [World.conn EXCEPT ![c] = p]
        /\ w.handler = World.handler /\ w.epoll = World.epoll /\ w.pool = World.pool
    BY <1>3, <1>12, <1>13, ConnSet
  <2> QED BY <2>1 DEF World
<1>15. conn \in [Conns -> ConnRec] BY <1>3 DEF ObjectsOK
<1>16. w.conn[c] = p BY <1>14, <1>15
<1>17. PICK b \in BOOLEAN : b = (p.fresh \/ conn[c].polling = "writing") BY <1>12 DEF ConnRec
<1>18. PICK r : r = [p EXCEPT !.polling = conn[c].polling, !.fresh = b] OBVIOUS
<1>19. /\ r \in ConnRec /\ r.pq = "started" /\ r.fd = s /\ r.status = conn[c].status
       /\ r.socket = conn[c].socket /\ r.handler = conn[c].handler /\ r.polling = conn[c].polling
  BY <1>12, <1>18 DEF ConnRec
<1>20. PICK v : v = Polling(w, c, conn[c].polling) OBVIOUS
<1>21. v = SetConn(w, c, r) BY <1>16, <1>17, <1>18, <1>20 DEF Polling
<1>22. /\ v \in Worlds /\ v.conn = [conn EXCEPT ![c] = r]
       /\ v.handler = handler /\ v.epoll = epoll /\ v.pool = pool
  <2>1. /\ v \in Worlds /\ v.conn = [w.conn EXCEPT ![c] = r]
        /\ v.handler = w.handler /\ v.epoll = w.epoll /\ v.pool = w.pool
    <3>1. w \in Worlds /\ r \in ConnRec /\ c \in Conns /\ v = SetConn(w, c, r) BY <1>14, <1>19, <1>21
    <3> QED BY ONLY <3>1, ConnSet
  <2> QED BY <1>14, <1>15, <2>1
<1>23. ~Failed(w, c) BY <1>10, <1>12, <1>16 DEF Failed
<1>24. PICK u : u = CheckSocket(v, c) OBVIOUS
<1>25. Become(u) /\ Goto([Call EXCEPT !.step = "poll"]) BY <1>7, <1>11, <1>13, <1>20, <1>23, <1>24
<1>26. /\ Sound(u) /\ u.conn[c].pq = "started" /\ \A d \in Conns \ {c} : u.conn[d] = conn[d]
       /\ u.pool = pool
  <2>1. \E g \in Handlers : World.handler[g].type = "none"
    BY <1>1 DEF HandlersSuffice, FreeHandlers, World
  <2>2. r.status \in {"qsConnect", "qsReset"} /\ r.polling # "failed" BY <1>5, <1>10, <1>19 DEF Connecting
  <2>3. /\ v.conn = [World.conn EXCEPT ![c] = r] /\ v.handler = World.handler /\ v.epoll = World.epoll
        /\ World.conn[c].fd = NIL /\ r.socket = World.conn[c].socket /\ r.handler = World.conn[c].handler
        /\ World.conn = conn
    BY <1>5, <1>19, <1>22 DEF World
  <2>4. PICK x : x = World OBVIOUS
  <2>5. /\ x \in Worlds /\ Wired(x) /\ Sound(x) /\ x.conn[c].fd = NIL /\ Unused(x, s)
        /\ r.socket = x.conn[c].socket /\ r.handler = x.conn[c].handler
        /\ \E g \in Handlers : x.handler[g].type = "none"
        /\ v.conn = [x.conn EXCEPT ![c] = r] /\ v.handler = x.handler /\ v.epoll = x.epoll
    BY <1>3, <1>6, <1>8, <2>1, <2>3, <2>4
  <2>6. /\ Sound(u) /\ u.conn[c].pq = "started" /\ \A d \in Conns \ {c} : u.conn[d] = x.conn[d]
        /\ u.pool = v.pool
    BY ONLY <1>4, <1>8, <1>19, <1>22, <1>24, <2>2, <2>5, Started
  <2> QED BY <1>22, <2>3, <2>4, <2>6
<1>27. Sound(World)' /\ conn' = u.conn BY <1>25, <1>26, BecameSound DEF Become
<1>28. pool' = pool BY <1>25, <1>26 DEF Become
<1>29. PICK f : f = [Call EXCEPT !.step = "poll"] OBVIOUS
<1>30. f \in Frame /\ f.step = "poll" /\ f.conn = c BY <1>3, <1>4, <1>29 DEF Frame
<1>31. Goto(f) BY <1>25, <1>29
<1>32. \A d \in Conns : conn'[d].pq # "bad" BY <1>9, <1>26, <1>27
<1>33. ASSUME NEW d \in Members(pool'), conn'[d].pq \in {"none", "bad"}
       PROVE  d \in Members(pool) /\ conn[d].pq \in {"none", "bad"} /\ ~Making(Call, d)
  <2>1. d \in Conns /\ d \in Members(pool) BY <1>3, <1>28, <1>33 DEF ObjectsOK, Members
  <2>2. d # c BY <1>26, <1>27, <1>33
  <2> QED BY <1>4, <1>26, <1>27, <1>33, <2>1, <2>2 DEF Making
<1> QED BY <1>1, <1>2, <1>9, <1>26, <1>27, <1>30, <1>31, <1>32, <1>33, CalmGoes

\* There is no socket: the PGconn is bad, and it has none.
LEMMA BadMade ==
  ASSUME ObjectsOK, Sound(World), NEW c \in Conns, conn[c].fd = NIL, conn[c].pq \in {"none", "bad"},
         NEW w, w = SetConn(World, c, [conn[c] EXCEPT !.pq = "bad", !.fd = NIL])
  PROVE  /\ Edited(World, w, c) /\ Steady(w.conn[c]) /\ w.conn[c].pq = "bad"
         /\ w.conn[c].polling = conn[c].polling /\ CheckSocket(w, c) = w
<1>1. conn[c] \in ConnRec /\ World \in Worlds BY WorldOK DEF ObjectsOK
<1>2. PICK r : r = [conn[c] EXCEPT !.pq = "bad", !.fd = NIL] OBVIOUS
<1>3. /\ r \in ConnRec /\ r.pq = "bad" /\ r.fd = NIL /\ r.status = conn[c].status
      /\ r.socket = conn[c].socket /\ r.handler = conn[c].handler /\ r.polling = conn[c].polling
  BY <1>1, <1>2 DEF ConnRec
<1>4. w = SetConn(World, c, r) BY <1>2
<1>5. r.fd = World.conn[c].fd /\ r.socket = World.conn[c].socket /\ r.handler = World.conn[c].handler
  BY <1>3 DEF World
<1>6. Edited(World, w, c) /\ w.conn[c] = r
  BY ONLY <1>1, <1>3, <1>4, <1>5, c \in Conns, EditedBySetConn
<1>7. Steady(conn[c]) BY DEF Sound, World
<1>8. Steady(r) BY <1>3, <1>7 DEF Steady
<1>9. CheckSocket(w, c) = w
  <2>1. w.conn[c].socket = w.conn[c].fd BY <1>6, <1>8 DEF Steady
  <2> QED BY <2>1, NothingToCheck
<1> QED BY <1>3, <1>6, <1>8, <1>9

\* A connection is edited that stays bad, or that was made, by the call that makes or resets it.
LEMMA MakingQuiet ==
  ASSUME Inv, Quiet, calls # <<>>, Call.step \in {"start", "poll"}, UNCHANGED <<pc, cur>>,
         NEW c, c = Call.conn, NEW v, Edited(World, v, c), Steady(v.conn[c]), Become(v),
         NEW f \in Frame, Goto(f),
         IF v.conn[c].pq = "bad" THEN conn[c].pq \in {"none", "bad"} /\ Exhausted(World)
         ELSE v.conn[c].pq \in {"started", "late", "ok"} /\ conn[c].pq # "bad",
         IF Call.new THEN v.conn[c].pq = "bad" => Making(f, c)
         ELSE v.conn[c].pq = "bad" => conn[c].pq = "bad",
         f.step = "failing" => f.conn = NIL,
         f.step = "newfail" => f.conn = c /\ v.conn[c].pq = "bad",
         f.step = "poll" => f.conn = c
  PROVE  Quiet'
<1>1. c \in Conns /\ ObjectsOK BY MakingIs
<1>2. Sound(World) /\ Calm BY DEF Quiet
<1>3. /\ Sound(World)' /\ (Exhausted(World) => Exhausted(World)')
      /\ pool' = pool /\ conn' = v.conn /\ \A d \in Conns \ {c} : conn'[d] = conn[d]
  BY <1>1, <1>2, EditedQuietly
<1>4. \A d \in Conns : conn[d].pq = "bad" => conn'[d].pq = "bad" BY <1>3
<1>5. \A d \in Members(pool') : conn'[d].pq \in {"none", "bad"} =>
        Making(f, d) \/ (d \in Members(pool) /\ conn[d].pq \in {"none", "bad"} /\ ~Making(Call, d))
  <2> TAKE d \in Members(pool')
  <2> HAVE conn'[d].pq \in {"none", "bad"}
  <2>1. d \in Conns /\ d \in Members(pool) BY <1>1, <1>3 DEF ObjectsOK, Members
  <2>2. CASE d = c
    <3>1. v.conn[c].pq = "bad" BY <1>3, <2>2
    <3>2. CASE Call.new BY <2>2, <3>1, <3>2
    <3>3. CASE ~Call.new BY <2>1, <2>2, <3>1, <3>3 DEF Making
    <3> QED BY <3>2, <3>3
  <2>3. CASE d # c BY <1>3, <2>1, <2>3 DEF Making
  <2> QED BY <2>2, <2>3
<1>6. \A d \in Conns : conn'[d].pq = "bad" => Exhausted(World)' BY <1>2, <1>3 DEF Calm
<1>7. f.step = "poll" => conn'[f.conn].pq # "none" BY <1>3
<1>8. f.step = "newfail" => conn'[f.conn].pq = "bad" BY <1>3
<1> QED BY <1>3, <1>4, <1>5, <1>6, <1>7, <1>8, CalmGoes

\* The call goes on with an exception.
LEMMA ThrowsWith ==
  ASSUME Inv, calls # <<>>, Throw
  PROVE  \E f \in Frame : /\ Goto(f)
                          /\ IF Call.new THEN f.step = "newfail" /\ f.conn = Call.conn /\ f.new
                             ELSE f.step = "failing" /\ f.conn = NIL
<1>1. Call \in Frame BY CallIs
<1>2. CASE Call.new
  <2>1. PICK f : f = [Call EXCEPT !.step = "newfail"] OBVIOUS
  <2>2. f \in Frame /\ f.step = "newfail" /\ f.conn = Call.conn /\ f.new = Call.new
    BY <1>1, <2>1 DEF Frame
  <2>3. Goto(f) BY <1>2, <2>1 DEF Throw
  <2> QED BY <1>2, <2>2, <2>3
<1>3. CASE ~Call.new
  <2>1. PICK f : f = [Call EXCEPT !.step = "failing", !.conn = NIL] OBVIOUS
  <2>2. f \in Frame /\ f.step = "failing" /\ f.conn = NIL BY <1>1, <2>1 DEF Frame
  <2>3. Goto(f) BY <1>3, <2>1 DEF Throw, StartThrows
  <2> QED BY <1>3, <2>2, <2>3
<1> QED BY <1>2, <1>3

LEMMA ConnectStartBadQuiet ==
  ASSUME Inv, Quiet, HandlersSuffice, MaxFaults = 0, ConnectStartBad
  PROVE  Quiet'
<1>1. InCall("start") /\ UNCHANGED <<pc, cur>> BY DEF ConnectStartBad, loop
<1>2. calls # <<>> /\ Call.step = "start" BY <1>1 DEF InCall
<1>3. /\ Call.conn \in Conns /\ conn[Call.conn].fd = NIL /\ Call \in Frame /\ ObjectsOK
  BY <1>2, MakingIs
<1>4. PICK c \in Conns : c = Call.conn BY <1>3
<1>5. Sound(World) /\ Calm /\ Steady(conn[c]) BY DEF Quiet, Sound, World
<1>6. conn[c].pq \in {"none", "bad"} BY <1>3, <1>4, <1>5 DEF Steady
<1>7. FreeFds = {} /\ Exhausted(World)
  <2>1. FreeHandlers # {} BY <1>1 DEF HandlersSuffice
  <2>2. FreeFds = {} BY <2>1, NoFault DEF ConnectStartBad
  <2> QED BY <1>3, <2>2, FreeAreUnused
<1>8. PICK w : w = SetConn(World, c, [conn[c] EXCEPT !.pq = "bad", !.fd = NIL]) OBVIOUS
<1>9. IF Failed(w, c) THEN Become(w) /\ Throw
      ELSE Become(CheckSocket(w, c)) /\ Goto([Call EXCEPT !.step = "poll"])
  BY <1>4, <1>7, <1>8 DEF ConnectStartBad
<1>10. /\ Edited(World, w, c) /\ Steady(w.conn[c]) /\ w.conn[c].pq = "bad"
       /\ w.conn[c].polling = conn[c].polling /\ CheckSocket(w, c) = w
  BY <1>3, <1>4, <1>5, <1>6, <1>8, BadMade
<1>11. ~Call.new => conn[c].pq = "bad"
  <2> HAVE ~Call.new
  <2>1. c \in Members(pool) BY <1>2, <1>4, MakingIs
  <2>2. PICK i \in DOMAIN calls : Making(calls[i], c) BY <1>5, <1>6, <2>1 DEF Calm, Unmade
  <2>3. Call = calls[1] BY <1>2, CallIs
  <2>4. i # 1 BY <2>2, <2>3 DEF Making
  <2>5. calls[i].step = "newfail" /\ calls[i].conn = c
    BY <2>2, <2>4, FrameConn DEF Making, Callbacks
  <2> QED BY <1>5, <2>5 DEF Calm
<1>12. CASE Failed(w, c)
  <2>1. PICK f \in Frame : /\ Goto(f)
                           /\ IF Call.new THEN f.step = "newfail" /\ f.conn = Call.conn /\ f.new
                              ELSE f.step = "failing" /\ f.conn = NIL
    BY <1>2, <1>9, <1>12, ThrowsWith
  <2>2. Call.new => Making(f, c) BY <1>4, <2>1 DEF Making
  <2> QED BY <1>1, <1>2, <1>4, <1>6, <1>7, <1>9, <1>10, <1>11, <1>12, <2>1, <2>2, MakingQuiet
<1>13. CASE ~Failed(w, c)
  <2>1. PICK f : f = [Call EXCEPT !.step = "poll"] OBVIOUS
  <2>2. f \in Frame /\ f.step = "poll" /\ f.conn = c /\ f.new = Call.new BY <1>3, <1>4, <2>1 DEF Frame
  <2>3. Goto(f) /\ Become(w) BY <1>9, <1>10, <1>13, <2>1
  <2>4. Call.new => Making(f, c) BY <2>2 DEF Making
  <2> QED BY <1>1, <1>2, <1>4, <1>6, <1>7, <1>10, <1>11, <2>2, <2>3, <2>4, MakingQuiet
<1> QED BY <1>12, <1>13

\* The call goes on after a poll that did not fail.
LEMMA SucceedsWith ==
  ASSUME Inv, calls # <<>>, PollSucceeded, Call.step = "poll"
  PROVE  \E f \in Frame : /\ Goto(f) /\ f.step \in {"poll", "scan", "open", "park"}
                          /\ f.step = "poll" => f.conn = Call.conn
<1>1. Call \in Frame /\ Call.at \in Nat BY CallIs
<1>2. Call.again \in BOOLEAN /\ Call.new \in BOOLEAN BY <1>1 DEF Frame
<1>3. CASE Call.again
  <2>1. PICK f : f = [Call EXCEPT !.again = FALSE] OBVIOUS
  <2>2. f \in Frame /\ f.step = "poll" /\ f.conn = Call.conn BY <1>1, <2>1 DEF Frame
  <2>3. Goto(f) BY <1>3, <2>1 DEF PollSucceeded
  <2> QED BY <2>2, <2>3
<1>4. CASE ~Call.again /\ ~Call.new
  <2>1. PICK f : f = [Call EXCEPT !.step = "scan", !.conn = NIL, !.at = Call.at + 1] OBVIOUS
  <2>2. Call.at + 1 \in Nat BY <1>1
  <2>3. f \in Frame /\ f.step = "scan" BY <1>1, <2>1, <2>2 DEF Frame
  <2>4. Goto(f) BY <1>4, <2>1 DEF PollSucceeded, NextConnection
  <2> QED BY <2>3, <2>4
<1>5. CASE ~Call.again /\ Call.new
  <2>1. PICK f : f = [Call EXCEPT !.step = IF Call.query = NIL THEN "open" ELSE "park",
                                  !.conn = NIL, !.new = FALSE]
    OBVIOUS
  <2>2. f \in Frame /\ f.step \in {"open", "park"} BY <1>1, <2>1 DEF Frame
  <2>3. Goto(f) BY <1>5, <2>1 DEF PollSucceeded
  <2> QED BY <2>2, <2>3
<1> QED BY <1>2, <1>3, <1>4, <1>5

LEMMA PollInCallQuiet ==
  ASSUME Inv, Quiet, MaxFaults = 0, PollInCall
  PROVE  Quiet'
<1>1. InCall("poll") /\ UNCHANGED <<pc, cur>> BY DEF PollInCall, loop
<1>2. calls # <<>> /\ Call.step = "poll" BY <1>1 DEF InCall
<1>3. /\ Call.conn \in Conns /\ Call.conn \in Members(pool) /\ Call \in Frame /\ ObjectsOK
      /\ World \in Worlds /\ Wired(World)
  BY <1>2, MakingIs
<1>4. PICK c \in Conns : c = Call.conn BY <1>3
<1>5. Sound(World) /\ Calm /\ Steady(conn[c]) BY DEF Quiet, Sound, World
<1>6. conn[c].pq # "none" BY <1>1, <1>4, <1>5 DEF Calm
<1>7. PICK o \in Polled(World, c) :
        /\ Disturb(o.cost)
        /\ IF Failed(o.world, c) THEN Become(o.world) /\ Throw
           ELSE /\ HandlerAtHand(o.world, c) /\ Become(CheckSocket(o.world, c))
                /\ PollSucceeded /\ UNCHANGED service
  BY <1>4 DEF PollInCall
<1>8. o.cost = 0
  <2>1. o.cost \in {0, 1}
    <3>1. SocketsFor(c) \subseteq Fds BY <1>3, SocketsAreFds
    <3>2. c \in Members(World.pool) BY <1>2, <1>4, MakingIs
    <3> QED BY <1>3, <3>1, <3>2, PolledServes
  <2> QED BY <1>7, <2>1, NoFault
<1>9. PICK v : v = o.world OBVIOUS
<1>10. /\ Edited(World, v, c) /\ Steady(v.conn[c])
       /\ conn[c].pq = "bad" => v.conn[c].pq = "bad" /\ Failed(v, c)
       /\ conn[c].pq # "bad" => v.conn[c].pq \in {"started", "late", "ok"} /\ ~Failed(v, c)
       /\ CheckSocket(v, c) = v
  <2>1. World.conn[c] = conn[c] BY DEF World
  <2> QED BY <1>3, <1>5, <1>6, <1>7, <1>8, <1>9, <2>1, PolledQuietly
<1>11. Become(v) BY <1>7, <1>9, <1>10
<1>12. CASE conn[c].pq = "bad"
  <2>1. Throw BY <1>7, <1>9, <1>10, <1>12
  <2>2. PICK f \in Frame : /\ Goto(f)
                           /\ IF Call.new THEN f.step = "newfail" /\ f.conn = Call.conn /\ f.new
                              ELSE f.step = "failing" /\ f.conn = NIL
    BY <1>2, <2>1, ThrowsWith
  <2>3. Call.new => Making(f, c) BY <1>4, <2>2 DEF Making
  <2>4. Exhausted(World) BY <1>5, <1>12 DEF Calm
  <2> QED BY <1>1, <1>2, <1>4, <1>10, <1>11, <1>12, <2>2, <2>3, <2>4, MakingQuiet
<1>13. CASE conn[c].pq # "bad"
  <2>1. PollSucceeded BY <1>7, <1>9, <1>10, <1>13
  <2>2. PICK f \in Frame : /\ Goto(f) /\ f.step \in {"poll", "scan", "open", "park"}
                           /\ f.step = "poll" => f.conn = Call.conn
    BY <1>2, <2>1, SucceedsWith
  <2> QED BY <1>1, <1>2, <1>4, <1>10, <1>11, <1>13, <2>2, MakingQuiet
<1> QED BY <1>12, <1>13

LEMMA NewConnectionFailsQuiet ==
  ASSUME Inv, Inv', Quiet, NewConnectionFails
  PROVE  Quiet'
<1>1. InCall("newfail") /\ Become(Delete(World, Call.conn)) /\ UNCHANGED <<pc, cur>>
  BY DEF NewConnectionFails, loop
<1>2. calls # <<>> /\ Call.step = "newfail" BY <1>1 DEF InCall
<1>3. /\ Call.conn \in Conns /\ Call.conn \in Members(pool) /\ ObjectsOK /\ World \in Worlds /\ Wired(World)
  BY <1>2, MakingIs
<1>4. PICK c \in Conns : c = Call.conn BY <1>3
<1>5. Sound(World) /\ Calm /\ Steady(conn[c]) BY DEF Quiet, Sound, World
<1>6. Call \in Frame /\ Call.new /\ Call = calls[1] /\ 1 \in DOMAIN calls
  BY <1>2, CallIs DEF FrameOK
<1>7. conn[c].pq = "bad" BY <1>2, <1>4, <1>5, <1>6 DEF Calm
<1>8. conn[c].fd = NIL /\ Exhausted(World) BY <1>5, <1>7 DEF Steady, Calm
<1>9. PICK v : v = Delete(World, c) OBVIOUS
<1>10. Sound(v) /\ Exhausted(v)
  <2>1. World.conn[c].fd = NIL BY <1>8 DEF World
  <2> QED BY <1>3, <1>5, <1>8, <1>9, <2>1, DeletedSound
<1>11. Become(v) BY <1>1, <1>4, <1>9
<1>12. Sound(World)' /\ Exhausted(World)' BY <1>10, <1>11, BecameSound
<1>13. /\ Members(pool') = Members(pool) \ {c} /\ conn'[c] = Blank
       /\ \A d \in Conns \ {c} : conn'[d] = conn[d]
  BY <1>3, <1>4, <1>9, <1>11, GentlyDeleted
<1>14. PICK f : /\ Goto(f)
                /\ \/ f = [Call EXCEPT !.step = "open", !.conn = NIL, !.new = FALSE, !.at = SizeMin]
                   \/ f = [Call EXCEPT !.step = "failing", !.conn = NIL]
  BY DEF NewConnectionFails, StartThrows
<1>15. f \in Frame BY <1>2, <1>14, FrameAfter
<1>16. f.step \in {"open", "failing"} /\ f.conn = NIL BY <1>6, <1>14 DEF Frame
<1>17. Making(Call, c) BY <1>2, <1>4, <1>6 DEF Making
<1>18. \A d \in Conns : conn[d].pq = "bad" => conn'[d].pq = "bad" \/ Making(Call, d)
  BY <1>13, <1>17
<1>19. \A d \in Members(pool') : d \in Members(pool) /\ conn'[d] = conn[d] /\ ~Making(Call, d)
  <2> TAKE d \in Members(pool')
  <2>1. d \in Members(pool) /\ d # c BY <1>13
  <2>2. d \in Conns BY <1>3, <2>1 DEF ObjectsOK, Members
  <2> QED BY <1>4, <1>13, <2>1, <2>2 DEF Making
<1> QED BY <1>1, <1>2, <1>12, <1>14, <1>15, <1>16, <1>18, <1>19, CalmGoes

LEMMA ParkQuiet ==
  ASSUME Inv, Inv', Quiet, Park
  PROVE  Quiet'
<1>1. InCall("park") /\ UNCHANGED <<objects, pc, cur>> /\ (StartThrows \/ Return)
  BY DEF Park, loop
<1>2. calls # <<>> /\ Call.step = "park" BY <1>1 DEF InCall
<1>3. CASE StartThrows
  <2>1. PICK f : f = [Call EXCEPT !.step = "failing", !.conn = NIL] OBVIOUS
  <2>2. Call \in Frame BY <1>2, CallIs
  <2>3. f \in Frame /\ f.step = "failing" /\ f.conn = NIL BY <2>1, <2>2 DEF Frame
  <2>4. Goto(f) BY <1>3, <2>1 DEF StartThrows
  <2> QED BY <1>1, <1>2, <2>3, <2>4, GoesQuiet
<1>4. CASE Return
  <2>1. UNCHANGED <<handler, conn, epoll, pool>> BY <1>1 DEF objects
  <2>2. Sound(World)' /\ (Exhausted(World) => Exhausted(World)') BY <2>1, SoundStays DEF Quiet
  <2> QED BY <1>1, <1>2, <1>4, <2>1, <2>2, CalmReturns
<1> QED BY <1>1, <1>3, <1>4

LEMMA StartFailsQuiet ==
  ASSUME Inv, Quiet, StartFails
  PROVE  Quiet'
<1>1. InCall("failing") /\ Return /\ UNCHANGED <<pc, cur>> BY DEF StartFails, loop
<1>2. calls # <<>> /\ Call.step = "failing" BY <1>1 DEF InCall
<1>3. Call.conn = NIL
  <2>1. Call = calls[1] /\ 1 \in DOMAIN calls BY <1>2, CallIs
  <2> QED BY <1>2, <2>1 DEF Quiet, Calm
<1>4. UNCHANGED objects BY <1>3 DEF StartFails
<1>5. UNCHANGED <<handler, conn, epoll, pool>> BY <1>4 DEF objects
<1>6. Sound(World)' /\ (Exhausted(World) => Exhausted(World)') BY <1>5, SoundStays DEF Quiet
<1> QED BY <1>1, <1>2, <1>5, <1>6, CalmReturns

\* The status of a connection and its query
LEMMA AssignedQuietly ==
  ASSUME NEW w \in Worlds, NEW c \in Conns, NEW q \in Queries \cup {NIL}, NEW st \in Statuses,
         NEW v, v = SetStatus(SetWork(w, c, q), c, st)
  PROVE  /\ Edited(w, v, c) /\ v.conn[c].status = st /\ v.conn[c].pq = w.conn[c].pq
         /\ v.conn[c].polling = w.conn[c].polling
<1>1. PICK x : x = SetWork(w, c, q) OBVIOUS
<1>2. /\ x \in Worlds /\ x.conn = w.conn /\ x.handler = w.handler /\ x.epoll = w.epoll /\ x.pool = w.pool
  <2>1. x = [w EXCEPT !.work = [w.work EXCEPT ![c] = q]] BY <1>1 DEF SetWork, Worlds
  <2>2. [w.work EXCEPT ![c] = q] \in [Conns -> Queries \cup {NIL}] BY DEF Worlds
  <2> QED BY <2>1, <2>2 DEF Worlds
<1>3. w.conn[c] \in ConnRec BY DEF Worlds
<1>4. PICK r : r = [w.conn[c] EXCEPT !.status = st] OBVIOUS
<1>5. /\ r \in ConnRec /\ r.status = st /\ r.pq = w.conn[c].pq /\ r.fd = w.conn[c].fd
      /\ r.socket = w.conn[c].socket /\ r.handler = w.conn[c].handler /\ r.polling = w.conn[c].polling
  BY <1>3, <1>4 DEF ConnRec
<1>6. v = SetConn(x, c, r) BY <1>1, <1>2, <1>4 DEF SetStatus
<1>7. Edited(x, v, c) /\ v.conn[c] = r BY <1>2, <1>5, <1>6, EditedBySetConn
<1>8. Edited(w, x, c) BY <1>2 DEF Edited
<1>9. Edited(w, v, c) BY <1>7, <1>8, EditedTwice
<1> QED BY <1>5, <1>7, <1>9

LEMMA QueryStartQuiet ==
  ASSUME Inv, Quiet, QueryStart
  PROVE  Quiet'
<1>1. /\ Scanning /\ Ready(Visited) /\ Return /\ UNCHANGED <<pc, cur>>
      /\ Become(SetStatus(SetWork(World, Visited, Call.query), Visited, "qsWait"))
  BY DEF QueryStart, loop
<1>2. /\ calls # <<>> /\ Call.step = "scan" /\ Visited \in Conns /\ World \in Worlds
      /\ Call.query \in Queries
  BY <1>1, ScanIs
<1>3. PICK c \in Conns : c = Visited BY <1>2
<1>4. Sound(World) /\ Steady(conn[c]) BY DEF Quiet, Sound, World
<1>5. conn[c].status = "qsReady" BY <1>1, <1>3 DEF Ready
<1>6. PICK v : v = SetStatus(SetWork(World, c, Call.query), c, "qsWait") OBVIOUS
<1>7. /\ Edited(World, v, c) /\ v.conn[c].status = "qsWait" /\ v.conn[c].pq = conn[c].pq
      /\ v.conn[c].polling = conn[c].polling
  <2>1. World.conn[c] = conn[c] BY DEF World
  <2>2. "qsWait" \in Statuses BY DEF Statuses
  <2> QED BY <1>2, <1>6, <2>1, <2>2, AssignedQuietly
<1>8. Steady(v.conn[c]) BY <1>4, <1>5, <1>7 DEF Steady, Edited, World
<1>9. Become(v) BY <1>1, <1>3, <1>6
<1>10. /\ Sound(World)' /\ (Exhausted(World) => Exhausted(World)')
       /\ pool' = pool /\ conn' = v.conn /\ \A d \in Conns \ {c} : conn'[d] = conn[d]
  BY <1>4, <1>7, <1>8, <1>9, EditedQuietly
<1>11. \A d \in Conns : conn[d].pq = conn'[d].pq BY <1>7, <1>10
<1> QED BY <1>1, <1>2, <1>10, <1>11, CalmReturns

\* The timer gets a socket that nobody has.
LEMMA TimerSound ==
  ASSUME ObjectsOK, Wired(World), Sound(World), NEW h \in Handlers, handler[h].type = "none",
         NEW s \in FreeFds, conn' = conn,
         handler' = [handler EXCEPT ![h] = [type |-> "etTimer", socket |-> s, binding |-> TIMER]],
         epoll' = [epoll EXCEPT ![s] = IF @ = NIL THEN h ELSE @]
  PROVE  Sound(World)' /\ (Exhausted(World) => Exhausted(World)')
<1>1. s \in Fds /\ Unused(World, s) BY FreeAreUnused
<1>2. /\ handler \in [Handlers -> HandlerRec] /\ conn \in [Conns -> ConnRec]
      /\ epoll \in [Fds -> Handlers \cup {NIL, DANGLING}]
  BY DEF ObjectsOK
<1>3. \A f \in Fds \ {s} : epoll'[f] = epoll[f] BY <1>2
<1>4. PICK g : g = [type |-> "etTimer", socket |-> s, binding |-> TIMER] OBVIOUS
<1>5. handler'[h] = g /\ \A k \in Handlers \ {h} : handler'[k] = handler[k] BY <1>2, <1>4
<1>6. handler[h].binding = NIL BY DEF Wired, World
<1>7. \A d \in Conns : conn[d].handler # h BY <1>6, Distinct DEF Wired, World
<1>8. \A d \in Conns : conn[d].fd # s BY <1>1 DEF Unused, World
<1>9. \A d \in Conns : Steady(conn'[d]) BY DEF Sound, World
<1>10. ASSUME NEW d \in Conns PROVE Watching(World, d)'
  <2>1. Watching(World, d) BY DEF Sound
  <2> QED BY <1>3, <1>5, <1>7, <1>8, <2>1 DEF Watching, World
<1>11. ASSUME NEW k \in Handlers PROVE Serving(World, k)'
  <2>1. CASE k = h BY <1>1, <1>4, <1>5, <1>8, <2>1 DEF Serving, World
  <2>2. CASE k # h
    <3>1. Serving(World, k) BY DEF Sound
    <3> QED BY <1>5, <2>2, <3>1 DEF Serving, World
  <2> QED BY <2>1, <2>2
<1>12. \A d, e \in Conns : conn'[d].fd \in Fds /\ conn'[d].fd = conn'[e].fd => d = e
  BY DEF Sound, World
<1>13. Sound(World)' BY <1>9, <1>10, <1>11, <1>12 DEF Sound, World
<1>14. Exhausted(World) => Exhausted(World)'
  <2> HAVE Exhausted(World)
  <2>1. \A f \in Fds : \/ \E c \in Conns : conn[c].fd = f
                       \/ \E k \in Handlers : handler[k].binding = TIMER /\ handler[k].socket = f
    BY DEF Exhausted, World
  <2>2. \A k \in Handlers : handler[k].binding = TIMER => handler'[k] = handler[k]
    BY <1>5, <1>6, Distinct
  <2> QED BY <2>1, <2>2 DEF Exhausted, World
<1> QED BY <1>13, <1>14

LEMMA OpenEndsQuiet ==
  ASSUME Inv, Quiet, OpenEnds
  PROVE  Quiet'
<1>1. InCall("open") /\ Return /\ UNCHANGED <<pc, cur>> BY DEF OpenEnds, loop
<1>2. calls # <<>> /\ Call.step = "open" BY <1>1 DEF InCall
<1>3. Sound(World) /\ ObjectsOK /\ Wired(World) BY <1>2, CallIs DEF Quiet
<1>4. /\ Sound(World)' /\ (Exhausted(World) => Exhausted(World)') /\ conn' = conn /\ pool' = pool
  <2>1. CASE UNCHANGED objects
    <3>1. UNCHANGED <<handler, conn, epoll, pool>> BY <2>1 DEF objects
    <3> QED BY <1>3, <3>1, SoundStays
  <2>2. CASE ~UNCHANGED objects
    <3>1. FreeHandlers # {} BY <2>2 DEF OpenEnds
    <3>2. PICK h : h = CHOOSE g \in FreeHandlers : TRUE OBVIOUS
    <3>3. h \in Handlers /\ handler[h].type = "none" BY <3>1, <3>2 DEF FreeHandlers
    <3>4. PICK s \in FreeFds :
            /\ handler' = [handler EXCEPT ![h] = [type |-> "etTimer", socket |-> s, binding |-> TIMER]]
            /\ epoll' = [epoll EXCEPT ![s] = IF @ = NIL THEN h ELSE @]
            /\ UNCHANGED <<conn, pool>>
      BY <2>2, <3>2 DEF OpenEnds
    <3> QED BY <1>3, <3>3, <3>4, TimerSound
  <2> QED BY <2>1, <2>2
<1> QED BY <1>1, <1>2, <1>4, CalmReturns

LEMMA AppStartsQuiet ==
  ASSUME Inv, Quiet, NEW q \in Queries, AppStarts(q)
  PROVE  Quiet'
<1>1. calls' = <<StartFrame(q)>> \o calls /\ UNCHANGED <<objects, pc, cur>> BY DEF AppStarts, loop
<1>2. UNCHANGED <<handler, conn, epoll, pool>> BY <1>1 DEF objects
<1>3. Sound(World) /\ Calm /\ calls \in Seq(Frame) BY DEF Quiet, Inv, TypeOK
<1>4. Sound(World)' /\ (Exhausted(World) => Exhausted(World)') BY <1>2, <1>3, SoundStays
<1>5. PICK f : f = StartFrame(q) OBVIOUS
<1>6. f \in Frame /\ f.step = "scan" BY <1>5, StartFrameOK
<1>7. /\ calls' # <<>> /\ calls'[1] = f /\ 1 \in DOMAIN calls'
      /\ \A i \in DOMAIN calls' : i # 1 => i - 1 \in DOMAIN calls /\ calls'[i] = calls[i - 1]
      /\ calls' \in Seq(Frame) /\ Len(calls') = Len(calls) + 1
  BY <1>1, <1>3, <1>5, <1>6, Pushed
<1>8. \A i \in DOMAIN calls : i + 1 \in DOMAIN calls' /\ calls'[i + 1] = calls[i]
  <2> TAKE i \in DOMAIN calls
  <2>1. i \in 1 .. Len(calls) BY <1>3
  <2>2. i + 1 \in 1 .. Len(calls') /\ i + 1 # 1 /\ i + 1 - 1 = i BY <1>3, <1>7, <2>1
  <2>3. DOMAIN calls' = 1 .. Len(calls') BY <1>7
  <2> QED BY <1>7, <2>2, <2>3
<1>9. ~InCall("poll")'
  <2>1. Head(calls') = f BY <1>7
  <2> QED BY <1>6, <2>1 DEF InCall, Call
<1>10. \A i \in DOMAIN calls' : calls'[i].step = "failing" => calls'[i].conn = NIL
  BY <1>3, <1>6, <1>7 DEF Calm
<1>11. \A i \in DOMAIN calls' : calls'[i].step = "newfail" => conn'[calls'[i].conn].pq = "bad"
  BY <1>2, <1>3, <1>6, <1>7 DEF Calm
<1>12. \A d \in Members(pool') : Unmade(d)' => \E i \in DOMAIN calls' : Making(calls'[i], d)
  BY <1>2, <1>3, <1>8 DEF Calm, Unmade
<1>13. \A d \in Conns : conn'[d].pq = "bad" => Exhausted(World)' BY <1>2, <1>3, <1>4 DEF Calm
<1>14. pc' \notin {"fault", "undefined"} /\ (pc' \in {"executed", "notify"} => cur'.saved # "qsError")
  BY <1>1, <1>3 DEF Calm
<1>15. Calm' BY <1>9, <1>10, <1>11, <1>12, <1>13, <1>14 DEF Calm, Making
<1> QED BY <1>4, <1>15 DEF Quiet

\* No call is in progress, or one that starts a query over.
StartsOver(s) == s = <<>> \/ \E q \in Queries : s = <<StartFrame(q)>>

LEMMA StartsScan ==
  ASSUME NEW s, StartsOver(s)
  PROVE  \A i \in DOMAIN s : s[i].step \in {"scan", "open"}
<1>1. CASE s = <<>>
  <2>1. DOMAIN s = {} BY <1>1
  <2> QED BY <2>1
<1>2. CASE \E q \in Queries : s = <<StartFrame(q)>>
  <2>1. PICK q \in Queries : s = <<StartFrame(q)>> BY <1>2
  <2>2. PICK f : f = StartFrame(q) OBVIOUS
  <2>3. f.step = "scan" BY <2>2, StartFrameOK
  <2>4. s = <<f>> BY <2>1, <2>2
  <2>5. DOMAIN s = {1} /\ s[1] = f BY <2>4
  <2> QED BY <2>3, <2>5
<1> QED BY <1>1, <1>2 DEF StartsOver

\* A step of the loop that edits connection c.
LEMMA LoopEdits ==
  ASSUME Inv, Inv', Quiet, calls = <<>>, NEW c \in Conns, NEW v, Become(v),
         Edited(World, v, c), Steady(v.conn[c]), v.conn[c].pq \in {"started", "late", "ok"},
         StartsOver(calls'), pc' \notin {"fault", "undefined"},
         pc' \in {"executed", "notify"} => cur'.saved # "qsError"
  PROVE  Quiet'
<1>1. Sound(World) /\ Calm BY DEF Quiet
<1>2. Sound(World)' /\ pool' = pool /\ conn' = v.conn /\ \A d \in Conns \ {c} : conn'[d] = conn[d]
  BY <1>1, EditedQuietly
<1>3. \A d \in Members(pool') : conn'[d].pq \notin {"none", "bad"} BY <1>1, <1>2, NoneUnmade
<1>4. \A i \in DOMAIN calls' : calls'[i].step \in {"scan", "open"} BY StartsScan
<1> QED BY <1>2, <1>3, <1>4, RunningCalm

\* A step of the loop that leaves the objects alone.
LEMMA LoopKeeps ==
  ASSUME Inv, Inv', Quiet, calls = <<>>, UNCHANGED <<handler, conn, epoll, pool>>,
         \A i \in DOMAIN calls' : calls'[i].step \in {"scan", "open"}, pc' \notin {"fault", "undefined"},
         pc' \in {"executed", "notify"} => cur'.saved # "qsError"
  PROVE  Quiet'
<1>1. Sound(World) /\ Calm BY DEF Quiet
<1>2. Sound(World)' BY <1>1, SoundStays
<1>3. \A d \in Members(pool') : conn'[d].pq \notin {"none", "bad"} BY <1>1, NoneUnmade
<1> QED BY <1>2, <1>3, RunningCalm

\* The connection of an event, in such a pool
LEMMA ReadsQuietly ==
  ASSUME Inv, Quiet, NEW h \in batch, Reads(h), NEW c, c = Bound(h)
  PROVE  /\ c \in Conns /\ calls = <<>> /\ calls' = <<>> /\ World \in Worlds /\ conn[c] \in ConnRec
         /\ Steady(conn[c]) /\ conn[c].handler \in Handlers
         /\ conn[c].pq \in {"started", "late", "ok"} /\ h \in Handlers
<1>1. /\ calls = <<>> /\ h \in Handlers /\ c \in Conns /\ c \in Members(pool) /\ handler[h].binding = c
      /\ UNCHANGED calls /\ World \in Worlds /\ conn[c] \in ConnRec
  BY ReadsIs
<1>2. Sound(World) /\ Calm BY DEF Quiet
<1>3. Steady(conn[c]) BY <1>1, <1>2 DEF Sound, World
<1>4. conn[c].handler = h
  <2>1. Serving(World, h) BY <1>1, <1>2 DEF Sound
  <2> QED BY <1>1, <2>1, Distinct DEF Serving, World
<1> QED BY <1>1, <1>2, <1>3, <1>4, NoneUnmade

LEMMA CursorQuietly ==
  ASSUME Inv, Quiet, Dispatching, calls = <<>>, NEW c, c = cur.conn
  PROVE  /\ c \in Conns /\ World \in Worlds /\ conn[c] \in ConnRec
         /\ Steady(conn[c]) /\ conn[c].handler \in Handlers
         /\ conn[c].pq \in {"started", "late", "ok"} /\ cur \in Current
<1>1. /\ cur.handler \in Handlers /\ c \in Conns /\ c \in Members(pool) /\ handler[cur.handler].binding = c
      /\ World \in Worlds /\ conn[c] \in ConnRec /\ cur \in Current
  BY CursorIs
<1>2. Sound(World) /\ Calm BY DEF Quiet
<1>3. Steady(conn[c]) BY <1>1, <1>2 DEF Sound, World
<1>4. conn[c].handler = cur.handler
  <2>1. Serving(World, cur.handler) BY <1>1, <1>2 DEF Sound
  <2> QED BY <1>1, <2>1, Distinct DEF Serving, World
<1> QED BY <1>1, <1>2, <1>3, <1>4, NoneUnmade

\* Edits of a record
LEMMA StatusQuietly ==
  ASSUME NEW w \in Worlds, NEW c \in Conns, NEW st \in Statuses, NEW v, v = SetStatus(w, c, st)
  PROVE  /\ Edited(w, v, c) /\ v.conn[c].status = st /\ v.conn[c].pq = w.conn[c].pq
         /\ v.conn[c].polling = w.conn[c].polling
<1>1. w.conn[c] \in ConnRec BY DEF Worlds
<1>2. PICK r : r = [w.conn[c] EXCEPT !.status = st] OBVIOUS
<1>3. /\ r \in ConnRec /\ r.status = st /\ r.pq = w.conn[c].pq /\ r.fd = w.conn[c].fd
      /\ r.socket = w.conn[c].socket /\ r.handler = w.conn[c].handler /\ r.polling = w.conn[c].polling
  BY <1>1, <1>2 DEF ConnRec
<1>4. v = SetConn(w, c, r) BY <1>2 DEF SetStatus
<1> QED BY <1>3, <1>4, EditedBySetConn

LEMMA TouchedQuietly ==
  ASSUME NEW w \in Worlds, NEW c \in Conns, NEW v, v = Touched(w, c)
  PROVE  /\ Edited(w, v, c) /\ v.conn[c].status = w.conn[c].status /\ v.conn[c].pq = w.conn[c].pq
         /\ v.conn[c].polling = w.conn[c].polling
<1>1. w.conn[c] \in ConnRec BY DEF Worlds
<1>2. PICK r : r = [w.conn[c] EXCEPT !.fresh = TRUE, !.full = FALSE] OBVIOUS
<1>3. /\ r \in ConnRec /\ r.status = w.conn[c].status /\ r.pq = w.conn[c].pq /\ r.fd = w.conn[c].fd
      /\ r.socket = w.conn[c].socket /\ r.handler = w.conn[c].handler /\ r.polling = w.conn[c].polling
  BY <1>1, <1>2 DEF ConnRec
<1>4. v = SetConn(w, c, r) BY <1>2 DEF Touched
<1> QED BY <1>3, <1>4, EditedBySetConn

\* A record that says the same of its PGconn, of a connection that has a handler
LEMMA StillSteady ==
  ASSUME NEW w, NEW v, NEW c, Edited(w, v, c), Steady(w.conn[c]), w.conn[c].handler \in Handlers,
         v.conn[c].pq = w.conn[c].pq, v.conn[c].polling = w.conn[c].polling,
         v.conn[c].status # "qsError"
  PROVE  Steady(v.conn[c])
BY Distinct DEF Steady, Edited

\* A poll of a connection that is there: it does not fail, and its socket stays.
LEMMA LoopPolls ==
  ASSUME Inv, Quiet, calls = <<>>, MaxFaults = 0, NEW c \in Conns, World \in Worlds,
         c \in Members(pool), NEW o \in Polled(World, c), Disturb(o.cost)
  PROVE  /\ Edited(World, o.world, c) /\ Steady(o.world.conn[c]) /\ ~Failed(o.world, c)
         /\ o.world.conn[c].pq \in {"started", "late", "ok"} /\ CheckSocket(o.world, c) = o.world
<1>1. /\ Sound(World) /\ Calm /\ Wired(World) /\ ObjectsOK
  BY DEF Quiet, Inv, TypeOK, ObjectsOK
<1>2. conn[c].pq \in {"started", "late", "ok"} /\ Steady(conn[c])
  BY <1>1, NoneUnmade DEF Sound, World
<1>3. o.cost = 0
  <2>1. SocketsFor(c) \subseteq Fds /\ c \in Members(World.pool) BY <1>1, SocketsAreFds DEF World
  <2>2. o.cost \in {0, 1} BY <1>1, <2>1, PolledServes
  <2> QED BY <2>2, NoFault
<1>4. World.conn[c] = conn[c] BY DEF World
<1> QED BY <1>2, <1>3, <1>4, PolledQuietly

LEMMA ReadPollsQuiet ==
  ASSUME Inv, Inv', Quiet, MaxFaults = 0, NEW h \in batch, NEW out \in BOOLEAN, ReadPolls(h, out)
  PROVE  Quiet'
<1> PICK c : c = Bound(h) OBVIOUS
<1>1. PICK o \in Polled(World, c) :
        /\ Disturb(o.cost)
        /\ IF Failed(o.world, c)
           THEN Become(o.world) /\ Callback("fault", Event(h, c, out, conn[c].status))
           ELSE LET w == Touched(CheckSocket(o.world, c), c)
                IN HandlerAtHand(o.world, c) /\ Become(w) /\ AfterRead(w, Event(h, c, out, conn[c].status))
  BY DEF ReadPolls
<1>2. Reads(h) BY DEF ReadPolls
<1>3. /\ c \in Conns /\ calls = <<>> /\ calls' = <<>> /\ World \in Worlds /\ conn[c] \in ConnRec
      /\ h \in Handlers /\ c \in Members(pool)
  BY <1>2, ReadsQuietly, ReadsIs
<1>4. PICK x : x = o.world OBVIOUS
<1>5. /\ Edited(World, x, c) /\ Steady(x.conn[c]) /\ ~Failed(x, c)
      /\ x.conn[c].pq \in {"started", "late", "ok"} /\ CheckSocket(x, c) = x
  BY <1>1, <1>3, <1>4, LoopPolls
<1>6. PICK v : v = Touched(x, c) OBVIOUS
<1>7. Become(v) /\ AfterRead(v, Event(h, c, out, conn[c].status)) BY <1>1, <1>4, <1>5, <1>6
<1>8. /\ Edited(x, v, c) /\ v.conn[c].status = x.conn[c].status /\ v.conn[c].pq = x.conn[c].pq
      /\ v.conn[c].polling = x.conn[c].polling
  <2>1. x \in Worlds BY <1>5 DEF Edited
  <2> QED BY <1>3, <1>6, <2>1, TouchedQuietly
<1>9. Edited(World, v, c) BY <1>5, <1>8, EditedTwice
<1>10. Steady(v.conn[c]) BY <1>5, <1>8 DEF Steady, Edited
<1>11. pc' \in {"write", "dispatch"} BY <1>7 DEF AfterRead
<1>12. StartsOver(calls') BY <1>3 DEF StartsOver
<1> QED BY <1>3, <1>5, <1>7, <1>8, <1>9, <1>10, <1>11, <1>12, LoopEdits

LEMMA ReadIgnoredQuiet ==
  ASSUME Inv, Inv', Quiet, NEW h \in batch, NEW out \in BOOLEAN, ReadIgnored(h, out)
  PROVE  Quiet'
<1> PICK c : c = Bound(h) OBVIOUS
<1>1. PICK v : v = Touched(World, c) OBVIOUS
<1>2. Reads(h) /\ Become(v) /\ AfterRead(v, Event(h, c, out, conn[c].status)) BY <1>1 DEF ReadIgnored
<1>3. /\ c \in Conns /\ calls = <<>> /\ calls' = <<>> /\ World \in Worlds /\ Steady(conn[c])
      /\ conn[c].handler \in Handlers /\ conn[c].pq \in {"started", "late", "ok"}
  BY <1>2, ReadsQuietly
<1>4. /\ Edited(World, v, c) /\ v.conn[c].status = conn[c].status /\ v.conn[c].pq = conn[c].pq
      /\ v.conn[c].polling = conn[c].polling /\ World.conn[c] = conn[c]
  BY <1>1, <1>3, TouchedQuietly DEF World
<1>5. Steady(v.conn[c]) BY <1>3, <1>4 DEF Steady, Edited
<1>6. pc' \in {"write", "dispatch"} BY <1>2 DEF AfterRead
<1>7. StartsOver(calls') BY <1>3 DEF StartsOver
<1> QED BY <1>2, <1>3, <1>4, <1>5, <1>6, <1>7, LoopEdits

LEMMA ReadNotifiedQuiet ==
  ASSUME Inv, Inv', Quiet, NEW h \in batch, NEW out \in BOOLEAN, ReadNotified(h, out)
  PROVE  Quiet'
<1> PICK c : c = Bound(h) OBVIOUS
<1>1. PICK v : v = SetStatus(World, c, "qsWait") OBVIOUS
<1>2. PICK e : e = Event(h, c, out, conn[c].status) OBVIOUS
<1>3. Reads(h) /\ Become(v) /\ pc' = "notify" /\ cur' = e
  BY <1>1, <1>2 DEF ReadNotified, CheckNotify, Callback
<1>4. /\ c \in Conns /\ calls = <<>> /\ calls' = <<>> /\ World \in Worlds /\ Steady(conn[c])
      /\ conn[c].handler \in Handlers /\ conn[c].pq \in {"started", "late", "ok"}
      /\ World.conn[c] = conn[c]
  BY <1>3, ReadsQuietly DEF World
<1>5. "qsWait" \in Statuses BY DEF Statuses
<1>6. /\ Edited(World, v, c) /\ v.conn[c].status = "qsWait" /\ v.conn[c].pq = conn[c].pq
      /\ v.conn[c].polling = conn[c].polling
  BY <1>1, <1>4, <1>5, StatusQuietly
<1>7. Steady(v.conn[c]) BY <1>4, <1>6, StillSteady
<1>8. cur'.saved # "qsError" BY <1>2, <1>3, <1>4 DEF Event, Steady
<1>9. StartsOver(calls') BY <1>4 DEF StartsOver
<1> QED BY <1>3, <1>4, <1>6, <1>7, <1>8, <1>9, LoopEdits

LEMMA ReadResultQuiet ==
  ASSUME Inv, Inv', Quiet, MaxFaults = 0, NEW h \in batch, NEW out \in BOOLEAN, ReadResult(h, out)
  PROVE  Quiet'
<1> PICK c : c = Bound(h) OBVIOUS
<1>1. PICK e : e = Event(h, c, out, "qsReady") OBVIOUS
<1>2. Reads(h) /\ UNCHANGED objects /\ pc' = "executed" /\ cur' = e
  BY <1>1, NoFault DEF ReadResult, Callback
<1>3. calls = <<>> /\ calls' = <<>> BY <1>2, ReadsQuietly
<1>4. cur'.saved # "qsError" BY <1>1, <1>2 DEF Event
<1>5. \A i \in DOMAIN calls' : calls'[i].step \in {"scan", "open"}
  <2>1. StartsOver(calls') BY <1>3 DEF StartsOver
  <2> QED BY <2>1, StartsScan
<1>6. UNCHANGED <<handler, conn, epoll, pool>> BY <1>2 DEF objects
<1> QED BY <1>2, <1>3, <1>4, <1>5, <1>6, LoopKeeps

\* There is always something to consume.
LEMMA NothingThrows ==
  ASSUME Inv, Quiet, MaxFaults = 0
  PROVE  /\ ~NotifyThrows /\ ~Fault /\ ~PingFails /\ ~QueryStartThrows /\ ~FollowsDangling
         /\ \A h \in batch, out \in BOOLEAN : ~ReadThrows(h, out)
<1>1. ~Disturb(1) BY NoFault
<1>2. ~NotifyThrows /\ ~PingFails /\ ~QueryStartThrows
  BY <1>1 DEF NotifyThrows, PingFails, QueryStartThrows
<1>3. ~Fault BY DEF Fault, Running, Quiet, Calm
<1>4. ASSUME NEW h \in batch, NEW out \in BOOLEAN, ReadThrows(h, out) PROVE FALSE
  <2>1. PICK c : c = Bound(h) OBVIOUS
  <2>2. Reads(h) /\ ~Consumable(c) BY <1>1, <1>4, <2>1 DEF ReadThrows
  <2>3. conn[c].pq \in {"started", "late", "ok"} BY <2>1, <2>2, ReadsQuietly
  <2> QED BY <2>2, <2>3 DEF Consumable
<1>5. ASSUME FollowsDangling PROVE FALSE
  <2>1. PICK h \in Handlers : handler[h].binding = DANGLING BY <1>5 DEF FollowsDangling, Bound
  <2>2. Serving(World, h) BY DEF Quiet, Sound
  <2> QED BY <2>1, <2>2, Distinct DEF Serving, World
<1> QED BY <1>2, <1>3, <1>4, <1>5

LEMMA ResultDoneQuiet ==
  ASSUME Inv, Inv', Quiet, ResultDone
  PROVE  Quiet'
<1> PICK c : c = cur.conn OBVIOUS
<1>1. /\ pc = "executed" /\ calls = <<>> /\ UNCHANGED <<calls, cur>>
      /\ Become(CheckNotify(QueryStop(World, c), c))
      /\ pc' = IF Consumable(c) THEN "notify" ELSE "fault"
  BY DEF ResultDone, Running
<1>2. /\ c \in Conns /\ World \in Worlds /\ Steady(conn[c]) /\ conn[c].handler \in Handlers
      /\ conn[c].pq \in {"started", "late", "ok"} /\ World.conn[c] = conn[c]
  BY <1>1, CursorQuietly DEF Dispatching, World
<1>3. PICK x : x = QueryStop(World, c) OBVIOUS
<1>4. "qsReady" \in Statuses /\ "qsWait" \in Statuses BY DEF Statuses
<1>5. /\ Edited(World, x, c) /\ x.conn[c].pq = conn[c].pq /\ x.conn[c].polling = conn[c].polling
  BY <1>2, <1>3, <1>4, AssignedQuietly DEF QueryStop
<1>6. PICK v : v = SetStatus(x, c, "qsWait") OBVIOUS
<1>7. /\ Edited(x, v, c) /\ v.conn[c].status = "qsWait" /\ v.conn[c].pq = x.conn[c].pq
      /\ v.conn[c].polling = x.conn[c].polling
  <2>1. x \in Worlds BY <1>5 DEF Edited
  <2> QED BY <1>2, <1>4, <1>6, <2>1, StatusQuietly
<1>8. Edited(World, v, c) BY <1>5, <1>7, EditedTwice
<1>9. Steady(v.conn[c]) BY <1>2, <1>5, <1>7, <1>8, StillSteady
<1>10. Become(v) BY <1>1, <1>3, <1>6 DEF CheckNotify
<1>11. pc' = "notify" BY <1>1, <1>2 DEF Consumable
<1>12. cur'.saved # "qsError" BY <1>1 DEF Quiet, Calm
<1>13. StartsOver(calls') BY <1>1 DEF StartsOver
<1> QED BY <1>1, <1>2, <1>5, <1>7, <1>8, <1>9, <1>10, <1>11, <1>12, <1>13, LoopEdits

LEMMA NotifyDoneQuiet ==
  ASSUME Inv, Inv', Quiet, NotifyDone
  PROVE  Quiet'
<1> PICK c : c = cur.conn OBVIOUS
<1>1. PICK r : r = [conn[c] EXCEPT !.status = cur.saved, !.fresh = TRUE, !.full = ~cur.out] OBVIOUS
<1>2. PICK v : v = SetConn(World, c, r) OBVIOUS
<1>3. /\ pc = "notify" /\ calls = <<>> /\ UNCHANGED calls /\ Become(v) /\ AfterRead(v, cur)
  BY <1>1, <1>2 DEF NotifyDone, Running
<1>4. /\ c \in Conns /\ World \in Worlds /\ conn[c] \in ConnRec /\ Steady(conn[c])
      /\ conn[c].handler \in Handlers /\ conn[c].pq \in {"started", "late", "ok"}
      /\ World.conn[c] = conn[c] /\ cur \in Current
  BY <1>3, CursorQuietly DEF Dispatching, World
<1>5. cur.saved \in Statuses /\ cur.saved # "qsError" BY <1>3, <1>4 DEF Current, Quiet, Calm
<1>6. /\ r \in ConnRec /\ r.status = cur.saved /\ r.pq = conn[c].pq /\ r.fd = conn[c].fd
      /\ r.socket = conn[c].socket /\ r.handler = conn[c].handler /\ r.polling = conn[c].polling
  <2>1. cur.out \in BOOLEAN BY <1>4 DEF Current
  <2>2. PICK b \in BOOLEAN : b = ~cur.out BY <2>1
  <2>3. r = [conn[c] EXCEPT !.status = cur.saved, !.fresh = TRUE, !.full = b] BY <1>1, <2>2
  <2> QED BY <1>4, <1>5, <2>3 DEF ConnRec
<1>7. Edited(World, v, c) /\ v.conn[c] = r BY <1>2, <1>4, <1>6, EditedBySetConn
<1>8. Steady(v.conn[c]) BY <1>4, <1>5, <1>6, <1>7, StillSteady
<1>9. pc' \in {"write", "dispatch"} BY <1>3 DEF AfterRead
<1>10. StartsOver(calls') BY <1>3 DEF StartsOver
<1> QED BY <1>3, <1>4, <1>6, <1>7, <1>8, <1>9, <1>10, LoopEdits

LEMMA DispatchWriteQuiet ==
  ASSUME Inv, Inv', Quiet, NEW h \in batch, DispatchWrite(h)
  PROVE  Quiet'
<1> PICK c : c = Bound(h) OBVIOUS
<1>1. PICK r : r = [conn[c] EXCEPT !.full = FALSE] OBVIOUS
<1>2. PICK v : v = SetConn(World, c, r) OBVIOUS
<1>3. Reads(h) /\ Become(v) /\ pc' = "write" BY <1>1, <1>2 DEF DispatchWrite, Callback
<1>4. /\ c \in Conns /\ calls = <<>> /\ calls' = <<>> /\ World \in Worlds /\ conn[c] \in ConnRec
      /\ Steady(conn[c]) /\ conn[c].handler \in Handlers /\ conn[c].pq \in {"started", "late", "ok"}
      /\ World.conn[c] = conn[c]
  BY <1>3, ReadsQuietly DEF World
<1>5. /\ r \in ConnRec /\ r.status = conn[c].status /\ r.pq = conn[c].pq /\ r.fd = conn[c].fd
      /\ r.socket = conn[c].socket /\ r.handler = conn[c].handler /\ r.polling = conn[c].polling
  BY <1>1, <1>4 DEF ConnRec
<1>6. Edited(World, v, c) /\ v.conn[c] = r BY <1>2, <1>4, <1>5, EditedBySetConn
<1>7. conn[c].status # "qsError" BY <1>4 DEF Steady
<1>8. Steady(v.conn[c]) BY <1>4, <1>5, <1>6, <1>7, StillSteady
<1>9. StartsOver(calls') BY <1>4 DEF StartsOver
<1> QED BY <1>3, <1>4, <1>5, <1>6, <1>8, <1>9, LoopEdits

LEMMA WriteStartsQuiet ==
  ASSUME Inv, Inv', Quiet, WriteStarts
  PROVE  Quiet'
<1> PICK c : c = cur.conn OBVIOUS
<1>1. PICK v : v = SetStatus(World, c, "qsReady") OBVIOUS
<1>2. pc = "write" /\ calls = <<>> /\ Become(v) /\ CheckQueue /\ pc' = "dispatch"
  BY <1>1 DEF WriteStarts, Running
<1>3. /\ c \in Conns /\ World \in Worlds /\ Steady(conn[c]) /\ conn[c].handler \in Handlers
      /\ conn[c].pq \in {"started", "late", "ok"} /\ World.conn[c] = conn[c]
  BY <1>2, CursorQuietly DEF Dispatching, World
<1>4. "qsReady" \in Statuses BY DEF Statuses
<1>5. /\ Edited(World, v, c) /\ v.conn[c].status = "qsReady" /\ v.conn[c].pq = conn[c].pq
      /\ v.conn[c].polling = conn[c].polling
  BY <1>1, <1>3, <1>4, StatusQuietly
<1>6. Steady(v.conn[c]) BY <1>3, <1>5, StillSteady
<1>7. StartsOver(calls')
  <2>1. CASE queue = <<>> BY <1>2, <2>1 DEF CheckQueue, StartsOver
  <2>2. CASE queue # <<>>
    <3>1. queue \in Seq(Queries) BY DEF Inv, TypeOK
    <3>2. Head(queue) \in Queries BY <2>2, <3>1
    <3>3. calls' = <<StartFrame(Head(queue))>> BY <1>2, <2>2 DEF CheckQueue
    <3> QED BY <3>2, <3>3 DEF StartsOver
  <2> QED BY <2>1, <2>2
<1> QED BY <1>2, <1>3, <1>5, <1>6, <1>7, LoopEdits

LEMMA WritePollsQuiet ==
  ASSUME Inv, Inv', Quiet, MaxFaults = 0, WritePolls
  PROVE  Quiet'
<1> PICK c : c = cur.conn OBVIOUS
<1>1. PICK o \in Polled(World, c) :
        /\ Disturb(o.cost)
        /\ IF Failed(o.world, c) THEN Become(o.world) /\ Callback("fault", cur)
           ELSE /\ HandlerAtHand(o.world, c) /\ Become(CheckSocket(o.world, c))
                /\ pc' = "dispatch" /\ cur' = Idle
  BY DEF WritePolls
<1>2. pc = "write" /\ calls = <<>> /\ UNCHANGED calls BY DEF WritePolls, Running
<1>3. c \in Conns /\ World \in Worlds /\ c \in Members(pool)
  BY <1>2, CursorIs DEF Dispatching
<1>4. PICK v : v = o.world OBVIOUS
<1>5. /\ Edited(World, v, c) /\ Steady(v.conn[c]) /\ ~Failed(v, c)
      /\ v.conn[c].pq \in {"started", "late", "ok"} /\ CheckSocket(v, c) = v
  BY <1>1, <1>2, <1>3, <1>4, LoopPolls
<1>6. Become(v) /\ pc' = "dispatch" BY <1>1, <1>4, <1>5
<1>7. StartsOver(calls') BY <1>2 DEF StartsOver
<1> QED BY <1>2, <1>3, <1>5, <1>6, <1>7, LoopEdits

\* A connection, or a handler with its connection, is freed.
LEMMA LoopFrees ==
  ASSUME Inv, Inv', Quiet, calls = <<>>, calls' = <<>>, NEW v, Become(v), Sound(v),
         pc' = pc, pc \in {"shrink", "pack", "clear"},
         \A d \in Members(pool') : d \in Members(pool) /\ conn'[d] = conn[d]
  PROVE  Quiet'
<1>1. Sound(World)' BY BecameSound
<1>2. \A d \in Members(pool') : conn'[d].pq \notin {"none", "bad"} BY NoneUnmade DEF Quiet
<1>3. \A i \in DOMAIN calls' : calls'[i].step \in {"scan", "open"}
  <2>1. StartsOver(calls') BY DEF StartsOver
  <2> QED BY <2>1, StartsScan
<1> QED BY <1>1, <1>2, <1>3, RunningCalm

LEMMA ShrinkDeletesQuiet ==
  ASSUME Inv, Inv', Quiet, ShrinkDeletes
  PROVE  Quiet'
<1>1. /\ pc = "shrink" /\ calls = <<>> /\ at > SizeMin /\ Become(Delete(World, pool[at]))
      /\ UNCHANGED <<calls, pc>>
  BY DEF ShrinkDeletes, Running
<1>2. /\ pool \in Seq(Conns) /\ ObjectsOK /\ World \in Worlds /\ Wired(World) /\ at \in SizeMin .. Len(pool)
      /\ Sound(World)
  BY <1>1, WorldOK DEF Inv, TypeOK, ObjectsOK, Cursor, Quiet
<1>3. pool[at] \in Conns /\ pool[at] \in Members(pool)
  <2>1. SizeMin \in Nat BY SizeAssumption
  <2>2. at \in 1 .. Len(pool) BY <1>1, <1>2, <2>1
  <2> QED BY <1>2, <2>2 DEF Members
<1>4. PICK c \in Conns : c = pool[at] BY <1>3
<1>5. PICK v : v = Delete(World, c) OBVIOUS
<1>6. Sound(v) BY <1>2, <1>5, DeletedSound
<1>7. Members(pool') = Members(pool) \ {c} /\ \A d \in Conns \ {c} : conn'[d] = conn[d]
  BY <1>1, <1>2, <1>3, <1>4, GentlyDeleted
<1>8. \A d \in Members(pool') : d \in Members(pool) /\ conn'[d] = conn[d]
  <2>1. \A d \in Members(pool) : d \in Conns BY <1>2 DEF Members
  <2> QED BY <1>7, <2>1
<1>9. Become(v) BY <1>1, <1>4, <1>5
<1> QED BY <1>1, <1>6, <1>8, <1>9, LoopFrees

LEMMA HandlerFreedQuiet ==
  ASSUME Inv, Inv', Quiet, NEW h \in Members(list), Become(Destroy(World, h)), calls = <<>>,
         UNCHANGED <<calls, pc>>, pc \in {"pack", "clear"}
  PROVE  Quiet'
<1>1. /\ list \in Seq(Handlers) /\ pool \in Seq(Conns) /\ World \in Worlds /\ Wired(World) /\ Sound(World)
  BY WorldOK DEF Inv, TypeOK, ObjectsOK, Quiet
<1>2. h \in Handlers /\ h \in Members(World.list) BY <1>1 DEF Members, World
<1>3. handler[h].binding # DANGLING
  <2>1. Serving(World, h) BY <1>1, <1>2 DEF Sound
  <2> QED BY <2>1, Distinct DEF Serving, World
<1>4. PICK v : v = Destroy(World, h) OBVIOUS
<1>5. Sound(v) BY <1>1, <1>2, <1>4, DestroyedSound
<1>6. /\ \A c \in Conns : IF c = handler[h].binding THEN conn'[c] = Blank /\ work'[c] = NIL
                          ELSE conn'[c] = conn[c] /\ work'[c] = work[c]
      /\ Members(pool') = Members(pool) \ {handler[h].binding}
  BY <1>3, HandlerFreed
<1>7. \A d \in Members(pool') : d \in Members(pool) /\ conn'[d] = conn[d]
  <2>1. \A d \in Members(pool) : d \in Conns BY <1>1 DEF Members
  <2> QED BY <1>6, <2>1
<1> QED BY <1>4, <1>5, <1>7, LoopFrees

LEMMA ListLast ==
  ASSUME NEW S, NEW s \in Seq(S), s # <<>>
  PROVE  Last(s) \in Members(s)
<1>1. Len(s) \in 1 .. Len(s)
  <2>1. Len(s) \in Nat /\ Len(s) # 0 BY EmptySeq
  <2> QED BY <2>1
<1> QED BY <1>1 DEF Last, Members

LEMMA PackDeletesQuiet ==
  ASSUME Inv, Inv', Quiet, PackDeletes
  PROVE  Quiet'
<1>1. /\ pc = "pack" /\ calls = <<>> /\ at > 0 /\ Become(Destroy(World, list[at])) /\ UNCHANGED <<calls, pc>>
  BY DEF PackDeletes, Packing, Running
<1>2. list \in Seq(Handlers) /\ at \in Nat /\ at <= Len(list) BY <1>1 DEF Inv, TypeOK, Cursor
<1>3. at \in 1 .. Len(list) BY <1>1, <1>2
<1>4. list[at] \in Members(list) BY <1>2, <1>3 DEF Members
<1> QED BY <1>1, <1>4, HandlerFreedQuiet

LEMMA ClearQuiet ==
  ASSUME Inv, Inv', Quiet, Clear
  PROVE  Quiet'
<1>1. /\ pc = "clear" /\ list # <<>> /\ Become(Destroy(World, Last(list))) /\ UNCHANGED <<calls, pc>>
  BY DEF Clear, loop
<1>2. list \in Seq(Handlers) /\ calls = <<>> BY <1>1 DEF Inv, TypeOK, Cursor
<1>3. Last(list) \in Members(list) BY <1>1, <1>2, ListLast
<1> QED BY <1>1, <1>2, <1>3, HandlerFreedQuiet

\* Time passes.
LEMMA WaitQuiet ==
  ASSUME Inv, Inv', Quiet, Wait
  PROVE  Quiet'
<1>1. /\ calls = <<>> /\ calls' = <<>> /\ pc' = "dispatch"
      /\ conn' = [c \in Conns |-> [conn[c] EXCEPT !.fresh = FALSE]]
      /\ UNCHANGED <<handler, pool, epoll>>
  BY DEF Wait, Running
<1>2. conn \in [Conns -> ConnRec] /\ pool \in Seq(Conns) /\ Sound(World) /\ Calm BY DEF Inv, TypeOK, Quiet
<1>3. ASSUME NEW d \in Conns
      PROVE  /\ conn'[d].status = conn[d].status /\ conn'[d].pq = conn[d].pq /\ conn'[d].fd = conn[d].fd
             /\ conn'[d].polling = conn[d].polling /\ conn'[d].socket = conn[d].socket
             /\ conn'[d].handler = conn[d].handler
  <2>1. conn[d] \in ConnRec /\ conn'[d] = [conn[d] EXCEPT !.fresh = FALSE] BY <1>1, <1>2
  <2> QED BY <2>1 DEF ConnRec
<1>4. Sound(World)'
  <2>1. \A d \in Conns : Steady(conn'[d]) BY <1>2, <1>3 DEF Sound, Steady, World
  <2>2. \A d \in Conns : Watching(World, d)' BY <1>1, <1>2, <1>3 DEF Sound, Watching, World
  <2>3. ASSUME NEW k \in Handlers PROVE Serving(World, k)'
    <3>1. Serving(World, k) BY <1>2 DEF Sound
    <3> QED BY <1>1, <1>3, <3>1 DEF Serving, World
  <2>4. \A d, e \in Conns : conn'[d].fd \in Fds /\ conn'[d].fd = conn'[e].fd => d = e
    BY <1>2, <1>3 DEF Sound, World
  <2> QED BY <2>1, <2>2, <2>3, <2>4 DEF Sound, World
<1>5. \A d \in Members(pool') : conn'[d].pq \notin {"none", "bad"}
  <2>1. \A d \in Members(pool) : d \in Conns /\ conn[d].pq \in {"started", "late", "ok"}
    BY <1>1, <1>2, NoneUnmade
  <2> QED BY <1>1, <1>3, <2>1
<1>6. \A i \in DOMAIN calls' : calls'[i].step \in {"scan", "open"}
  <2>1. StartsOver(calls') BY <1>1 DEF StartsOver
  <2> QED BY <2>1, StartsScan
<1> QED BY <1>1, <1>4, <1>5, <1>6, RunningCalm

\* Steps that leave the objects and the calls alone
LEMMA LoopMoves ==
  ASSUME Inv, Inv', Quiet, calls = <<>>, UNCHANGED <<objects, calls>>,
         pc' \in {"wait", "dispatch", "shrink", "pack", "clear"}
  PROVE  Quiet'
<1>1. StartsOver(calls') BY DEF StartsOver
<1>2. \A i \in DOMAIN calls' : calls'[i].step \in {"scan", "open"} BY <1>1, StartsScan
<1>3. UNCHANGED <<handler, conn, epoll, pool>> BY DEF objects
<1> QED BY <1>2, <1>3, LoopKeeps

LEMMA StutterQuiet ==
  ASSUME Quiet, UNCHANGED vars
  PROVE  Quiet'
<1>1. UNCHANGED <<handler, conn, epoll, pool, calls, pc, cur>> BY DEF vars, objects, loop
<1>2. Sound(World)' BY <1>1, SoundStays DEF Quiet
<1>3. Calm' BY <1>1 DEF Quiet, Calm, Unmade, Making, InCall, Call, Exhausted, World
<1> QED BY <1>2, <1>3 DEF Quiet

LEMMA ActivateQuiet ==
  ASSUME Inv, Inv', Quiet, Activate
  PROVE  Quiet'
<1>1. /\ pc = "wait" /\ calls = <<>> /\ calls' = <<[StartFrame(NIL) EXCEPT !.step = "open", !.at = 0]>>
      /\ UNCHANGED <<objects, pc>>
  BY DEF Activate, loop
<1>2. PICK f : f = [StartFrame(NIL) EXCEPT !.step = "open", !.at = 0] OBVIOUS
<1>3. f.step = "open" BY <1>2 DEF StartFrame
<1>4. calls' = <<f>> BY <1>1, <1>2
<1>5. \A i \in DOMAIN calls' : calls'[i].step \in {"scan", "open"} BY <1>3, <1>4
<1>6. UNCHANGED <<handler, conn, epoll, pool>> BY <1>1 DEF objects
<1> QED BY <1>1, <1>5, <1>6, LoopKeeps

LEMMA DispatchesQuiet ==
  ASSUME Inv, Inv', Quiet, DispatchStep
  PROVE  Quiet'
<1>1. ASSUME NEW h \in batch, DispatchNothing(h) PROVE Quiet'
  <2>1. calls = <<>> /\ pc' = "dispatch" /\ UNCHANGED <<objects, calls>>
    BY <1>1 DEF DispatchNothing, Take, Running
  <2> QED BY <2>1, LoopMoves
<1>2. ASSUME NEW h \in batch, DispatchTimer(h) PROVE Quiet'
  <2>1. calls = <<>> /\ pc' \in {"dispatch", "shrink"} /\ UNCHANGED <<objects, calls>>
    BY <1>2 DEF DispatchTimer, Take, Running
  <2> QED BY <2>1, LoopMoves
<1>3. ASSUME ShrinkKeeps \/ ShrinkEnds \/ ShrinkThrows \/ EndOfBatch PROVE Quiet'
  <2>1. calls = <<>> /\ pc' \in {"shrink", "dispatch", "wait", "pack"} /\ UNCHANGED <<objects, calls>>
    BY <1>3 DEF ShrinkKeeps, ShrinkEnds, ShrinkThrows, EndOfBatch, Running
  <2> QED BY <2>1, LoopMoves
<1>4. ASSUME ShrinkDeletes PROVE Quiet' BY <1>4, ShrinkDeletesQuiet
<1> QED BY <1>1, <1>2, <1>3, <1>4 DEF DispatchStep

LEMMA PacksQuiet ==
  ASSUME Inv, Inv', Quiet, PackStep
  PROVE  Quiet'
<1>1. ASSUME PackKeeps \/ PackEnds \/ ClearEnds PROVE Quiet'
  <2>1. calls = <<>> /\ pc' \in {"pack", "wait"} /\ UNCHANGED <<objects, calls>>
    BY <1>1 DEF PackKeeps, PackEnds, ClearEnds, Packing, Running, Inv, Cursor
  <2> QED BY <2>1, LoopMoves
<1>2. ASSUME PackDeletes PROVE Quiet' BY <1>2, PackDeletesQuiet
<1>3. ASSUME Clear PROVE Quiet' BY <1>3, ClearQuiet
<1> QED BY <1>1, <1>2, <1>3 DEF PackStep

LEMMA AppQuiet ==
  ASSUME Inv, Inv', Quiet, AppStep
  PROVE  Quiet'
<1>1. ASSUME Deactivate PROVE Quiet'
  <2>1. calls = <<>> /\ pc' = "clear" /\ UNCHANGED <<objects, calls>> BY <1>1 DEF Deactivate
  <2> QED BY <2>1, LoopMoves
<1> QED BY <1>1, ActivateQuiet, AppStartsQuiet DEF AppStep

LEMMA WritesQuiet ==
  ASSUME Inv, Inv', Quiet, MaxFaults = 0, WriteStep
  PROVE  Quiet'
<1>1. ASSUME WriteIgnored PROVE Quiet'
  <2>1. calls = <<>> /\ pc' = "dispatch" /\ UNCHANGED <<objects, calls>>
    BY <1>1 DEF WriteIgnored, Running
  <2> QED BY <2>1, LoopMoves
<1> QED BY <1>1, DispatchWriteQuiet, WriteStartsQuiet, WritePollsQuiet DEF WriteStep

LEMMA ReadsQuiet ==
  ASSUME Inv, Inv', Quiet, MaxFaults = 0, ReadStep
  PROVE  Quiet'
BY NothingThrows, ReadPollsQuiet, ReadIgnoredQuiet, ReadNotifiedQuiet, ReadResultQuiet,
   ResultDoneQuiet, NotifyDoneQuiet
DEF ReadStep

LEMMA StepQuiet ==
  ASSUME Inv, Inv', Quiet, MaxFaults = 0, HandlersSuffice, [Next]_vars
  PROVE  Quiet'
<1>1. CASE UNCHANGED vars BY <1>1, StutterQuiet
<1>2. CASE AppStep BY <1>2, AppQuiet
<1>3. CASE ScanStep
  BY <1>3, ScanEnters, ScanPassesQuiet, ScanReconnectsQuiet, ScanEndsQuiet DEF ScanStep
<1>4. CASE ConnectStep
  BY <1>4, NothingThrows, ConnectStartQuiet, ConnectStartBadQuiet, PollInCallQuiet,
     NewConnectionFailsQuiet, OpensQuiet, OpenEndsQuiet
  DEF ConnectStep
<1>5. CASE QueryStep
  BY <1>5, NothingThrows, QueryStartQuiet, StartFailsQuiet, ParkQuiet DEF QueryStep
<1>6. CASE Wait BY <1>6, WaitQuiet
<1>7. CASE ReadStep BY <1>7, ReadsQuiet
<1>8. CASE WriteStep BY <1>8, WritesQuiet
<1>9. CASE DispatchStep BY <1>9, DispatchesQuiet
<1>10. CASE PackStep BY <1>10, PacksQuiet
<1>11. CASE FollowsDangling BY <1>11, NothingThrows
<1> QED BY <1>1, <1>2, <1>3, <1>4, <1>5, <1>6, <1>7, <1>8, <1>9, <1>10, <1>11 DEF Next

LEMMA InitQuiet == Init => Quiet
<1> SUFFICES ASSUME Init PROVE Quiet OBVIOUS
<1>1. /\ handler = [h \in Handlers |-> NoHandler] /\ conn = [c \in Conns |-> Blank]
      /\ pool = <<>> /\ epoll = [s \in Fds |-> NIL] /\ calls = <<>> /\ pc = "wait"
  BY DEF Init
<1>2. NoHandler.type = "none" /\ NoHandler.binding = NIL BY DEF NoHandler
<1>3. Blank.handler = NIL /\ Blank.fd = NIL /\ Blank.pq = "none" BY DEF Blank
<1>4. Sound(World)
  <2>1. \A h \in Handlers : Serving(World, h) BY <1>1, <1>2 DEF Serving, World
  <2>2. \A c \in Conns : Steady(World.conn[c]) BY <1>1, BlankSteady DEF World
  <2>3. \A c \in Conns : Watching(World, c) BY <1>1, <1>3, Distinct DEF Watching, World
  <2>4. \A c, d \in Conns : World.conn[c].fd \in Fds /\ World.conn[c].fd = World.conn[d].fd => c = d
    BY <1>1, <1>3, Distinct DEF World
  <2> QED BY <2>1, <2>2, <2>3, <2>4 DEF Sound
<1>5. Members(pool) = {} /\ DOMAIN calls = {} BY <1>1 DEF Members
<1>6. Calm BY <1>1, <1>3, <1>5 DEF Calm, InCall
<1> QED BY <1>4, <1>6 DEF Quiet

LEMMA QuietDanglesNot == Inv /\ Quiet => NothingDangles
<1> SUFFICES ASSUME Inv, Quiet PROVE NothingDangles OBVIOUS
<1>1. TypeOK /\ Sound(World) /\ Calm BY DEF Inv, Quiet
<1>2. ASSUME NEW h \in Handlers PROVE handler[h].binding # DANGLING
  <2>1. Serving(World, h) BY <1>1 DEF Sound
  <2> QED BY <2>1, Distinct DEF Serving, World
<1>3. ASSUME NEW c \in Conns, conn[c].status = "qsReady"
      PROVE  conn[c].handler # NIL /\ epoll[conn[c].fd] = conn[c].handler
  <2>1. Steady(conn[c]) /\ Watching(World, c) BY <1>1 DEF Sound, World
  <2>2. conn[c].handler # NIL BY <1>3, <2>1 DEF Steady
  <2>3. conn[c].handler \in Handlers BY <1>1, <2>2 DEF TypeOK, ConnRec
  <2> QED BY <2>1, <2>2, <2>3 DEF Watching, World
<1> QED BY <1>1, <1>2, <1>3 DEF NothingDangles, ReadyIsWatched, Calm

\* While libpq, the network and the server do nothing wrong, no handler keeps a pointer to a
\* connection that was destroyed, none is followed, and a ready connection is watched by its own
\* handler; also when there is no socket for a new connection, which is then freed from within
\* its own construction.  The objects for handlers suffice: new has no limit but memory.
THEOREM NeverDangles ==
  MaxFaults = 0 /\ Spec /\ []HandlersSuffice => []NothingDangles
<1>1. SUFFICES ASSUME MaxFaults = 0 PROVE Spec /\ []HandlersSuffice => []NothingDangles OBVIOUS
<1>2. Init => Inv /\ Quiet BY InitOK, InitQuiet
<1>3. Inv /\ [Next]_vars => Inv' BY StepOK
<1>4. Inv /\ Inv' /\ Quiet /\ HandlersSuffice /\ [Next]_vars => Quiet' BY <1>1, StepQuiet
<1>5. Inv /\ Quiet => NothingDangles BY QuietDanglesNot
<1> QED BY <1>2, <1>3, <1>4, <1>5, PTL DEF Spec
=============================================================================
