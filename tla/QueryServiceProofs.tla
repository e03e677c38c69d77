------------------------- MODULE QueryServiceProofs -------------------------
(***************************************************************************)
(* PQConnectPoll implements QueryService: every step of the pool is a step  *)
(* of at most one query as the application sees it.  For a pool that keeps  *)
(* a connection; the invariant is that of PQConnectPollProofs.              *)
(***************************************************************************)
EXTENDS PQConnectPollProofs

On(q) == \E c \in Conns : work[c] = q
In(q) == q \in Members(queue) \/ \E i \in DOMAIN calls : calls[i].query = q

\* The application sees nothing of the step.
Kept(q) ==
  /\ fate'[q] = fate[q]
  /\ fate[q] = "pending" => (On(q)' <=> On(q)) /\ (In(q)' <=> In(q))

Submitted(q) == fate[q] = "new" /\ fate'[q] = "pending" /\ ~On(q)' /\ In(q)'
Taken(q) == fate[q] = "pending" /\ In(q) /\ ~On(q) /\ fate'[q] = "pending" /\ On(q)'
Refused(q) == fate[q] = "pending" /\ In(q) /\ ~On(q) /\ fate'[q] = "failed"
Answered(q) == fate[q] = "pending" /\ On(q) /\ fate'[q] = "executed"
Vanished(q) ==
  /\ fate[q] = "pending" /\ On(q) /\ fate'[q] = "pending" /\ ~On(q)' /\ ~In(q)'
  /\ \/ \E c \in InFlight : work[c] = q /\ Live(c) /\ ~Live(c)'
     \/ StopsAnother(q)

Moved(q) == Submitted(q) \/ Taken(q) \/ Refused(q) \/ Answered(q) \/ Vanished(q)

ServiceStep ==
  \/ \A q \in Queries : Kept(q)
  \/ \E p \in Queries : Moved(p) /\ \A q \in Queries \ {p} : Kept(q)

-----------------------------------------------------------------------------
(* Methods that leave the queries alone.                                    *)

Shaped(w) ==
  \E h, l, c, p, e, k :
    w = [handler |-> h, list |-> l, conn |-> c, pool |-> p, epoll |-> e, work |-> k]

Leaves(w, v) == Shaped(v) /\ v.work = w.work

LEMMA WorldLeft == Leaves(World, World) /\ World.work = work
BY DEF Leaves, Shaped, World

LEMMA ConnLeft == ASSUME NEW w, Shaped(w), NEW c, NEW r PROVE Leaves(w, SetConn(w, c, r))
<1>1. PICK f : f = [w.conn EXCEPT ![c] = r] OBVIOUS
<1>2. SetConn(w, c, r) = [w EXCEPT !.conn = f] BY <1>1 DEF SetConn
<1> QED BY <1>2 DEF Leaves, Shaped

LEMMA HandlerLeft == ASSUME NEW w, Shaped(w), NEW h, NEW r PROVE Leaves(w, SetHandler(w, h, r))
<1>1. PICK f : f = [w.handler EXCEPT ![h] = r] OBVIOUS
<1>2. SetHandler(w, h, r) = [w EXCEPT !.handler = f] BY <1>1 DEF SetHandler
<1> QED BY <1>2 DEF Leaves, Shaped

LEMMA CloseLeft == ASSUME NEW w, Shaped(w), NEW s PROVE Leaves(w, CloseFd(w, s))
BY DEF Leaves, Shaped, CloseFd

LEMMA StopLeft == ASSUME NEW w, Shaped(w), NEW h PROVE Leaves(w, Stop(w, h))
<1>1. PICK v : v = SetHandler(w, h, [w.handler[h] EXCEPT !.type = "etDelete"]) OBVIOUS
<1>2. Leaves(w, v) BY <1>1, HandlerLeft
<1>3. Leaves(v, CloseFd(v, w.handler[h].socket)) BY <1>2, CloseLeft DEF Leaves
<1> QED BY <1>1, <1>2, <1>3 DEF Stop, Leaves

LEMMA NewHandlerLeft == ASSUME NEW w, Shaped(w), NEW c PROVE Leaves(w, NewEventHandler(w, c))
<1>1. PICK h : h = CHOOSE g \in Handlers : w.handler[g].type = "none" OBVIOUS
<1>2. PICK s : s = w.conn[c].socket OBVIOUS
<1>3. PICK v : v = SetHandler(w, h, [type |-> "etIO", socket |-> s, binding |-> c]) OBVIOUS
<1>4. PICK u : u = SetConn(v, c, [w.conn[c] EXCEPT !.handler = h]) OBVIOUS
<1>5. Leaves(w, v) BY <1>3, HandlerLeft
<1>6. Leaves(v, u) BY <1>4, <1>5, ConnLeft DEF Leaves
<1>7. PICK e : e = [w.epoll EXCEPT ![s] = IF @ = NIL THEN h ELSE @] OBVIOUS
<1>8. NewEventHandler(w, c) = [u EXCEPT !.list = Append(w.list, h), !.epoll = e]
  BY <1>1, <1>2, <1>3, <1>4, <1>7 DEF NewEventHandler
<1> QED BY <1>5, <1>6, <1>8 DEF Leaves, Shaped

LEMMA SocketLeft == ASSUME NEW w, Shaped(w), NEW c PROVE Leaves(w, CheckSocket(w, c))
<1>1. PICK v : v = SetConn(w, c, [w.conn[c] EXCEPT !.socket = w.conn[c].fd]) OBVIOUS
<1>2. PICK h : h = FindHandlerBySocket(v, w.conn[c].socket) OBVIOUS
<1>3. PICK u : u = SetHandler(v, h, [v.handler[h] EXCEPT !.type = "etNull"]) OBVIOUS
<1>4. Leaves(w, v) BY <1>1, ConnLeft
<1>5. Leaves(v, u) /\ Leaves(v, NewEventHandler(v, c))
  BY <1>3, <1>4, HandlerLeft, NewHandlerLeft DEF Leaves
<1>6. Leaves(u, Stop(u, h)) BY <1>5, StopLeft DEF Leaves
<1>7. CASE w.conn[c].fd = w.conn[c].socket
  BY <1>7 DEF CheckSocket, Leaves
<1>8. CASE w.conn[c].fd # w.conn[c].socket /\ w.conn[c].socket = NIL
  <2>1. CheckSocket(w, c) = NewEventHandler(v, c) BY <1>1, <1>8 DEF CheckSocket
  <2> QED BY <1>4, <1>5, <2>1 DEF Leaves
<1>9. CASE w.conn[c].fd # w.conn[c].socket /\ w.conn[c].socket # NIL
  <2>1. CheckSocket(w, c) = IF h = NIL THEN v ELSE Stop(u, h)
    BY <1>1, <1>2, <1>3, <1>9 DEF CheckSocket
  <2> QED BY <1>4, <1>5, <1>6, <2>1 DEF Leaves
<1> QED BY <1>7, <1>8, <1>9

LEMMA DisconnectLeft == ASSUME NEW w, Shaped(w), NEW c PROVE Leaves(w, Disconnect(w, c))
<1>1. PICK v : v = IF w.conn[c].fd # NIL /\ w.conn[c].handler # NIL
                   THEN Stop(w, w.conn[c].handler) ELSE w
  OBVIOUS
<1>2. Leaves(w, v) BY <1>1, StopLeft DEF Leaves
<1>3. PICK u : u = CloseFd(v, w.conn[c].fd) OBVIOUS
<1>4. Leaves(v, u) BY <1>2, <1>3, CloseLeft DEF Leaves
<1>5. PICK r : r = [Blank EXCEPT !.status = w.conn[c].status, !.handler = w.conn[c].handler]
  OBVIOUS
<1>6. Leaves(u, SetConn(u, c, r)) BY <1>4, ConnLeft DEF Leaves
<1>7. Disconnect(w, c) = IF w.conn[c].pq = "none" THEN w ELSE SetConn(u, c, r)
  BY <1>1, <1>3, <1>5 DEF Disconnect
<1> QED BY <1>2, <1>4, <1>6, <1>7 DEF Leaves

LEMMA StatusLeft == ASSUME NEW w, Shaped(w), NEW c, NEW st PROVE Leaves(w, SetStatus(w, c, st))
BY ConnLeft DEF SetStatus

LEMMA MovesLeft == ASSUME NEW w, Shaped(w), NEW c, NEW st, NEW s PROVE Leaves(w, Moves(w, c, st, s))
<1>1. PICK v : v = CloseFd(w, w.conn[c].fd) OBVIOUS
<1>2. Leaves(w, v) BY <1>1, CloseLeft
<1>3. Leaves(v, Moves(w, c, st, s)) BY <1>1, <1>2, ConnLeft DEF Moves, Leaves
<1> QED BY <1>2, <1>3 DEF Leaves

LEMMA PollingLeft == ASSUME NEW w, Shaped(w), NEW c, NEW p PROVE Leaves(w, Polling(w, c, p))
BY ConnLeft DEF Polling

LEMMA PolledLeft ==
  ASSUME NEW w, Shaped(w), NEW c, w.conn[c].pq \in {"none", "started", "late", "ok", "bad"},
         NEW o \in Polled(w, c)
  PROVE  Leaves(w, o.world)
<1>1. ASSUME NEW st, NEW p PROVE Leaves(w, Polling(Goes(w, c, st), c, p))
  <2>1. Leaves(w, Goes(w, c, st)) BY ConnLeft DEF Goes
  <2> QED BY <2>1, PollingLeft DEF Leaves
<1>2. ASSUME NEW st, NEW s, NEW p PROVE Leaves(w, Polling(Moves(w, c, st, s), c, p))
  <2>1. Leaves(w, Moves(w, c, st, s)) BY MovesLeft
  <2> QED BY <2>1, PollingLeft DEF Leaves
<1>3. \A p : Leaves(w, Polling(w, c, p)) BY PollingLeft
<1>4. PICK u, n : o = Outcome(u, n) /\
        \/ \E p : u = Polling(w, c, p)
        \/ \E st, p : u = Polling(Goes(w, c, st), c, p)
        \/ \E st, s, p : u = Polling(Moves(w, c, st, s), c, p)
  <2>1. CASE w.conn[c].pq \in {"none", "bad"} BY <2>1 DEF Polled
  <2>2. CASE w.conn[c].pq = "ok" BY <2>2 DEF Polled
  <2>3. CASE w.conn[c].pq \in {"started", "late"} BY <2>3 DEF Polled
  <2> QED BY <2>1, <2>2, <2>3
<1>5. o.world = u BY <1>4 DEF Outcome
<1> QED BY <1>1, <1>2, <1>3, <1>4, <1>5

LEMMA TouchedLeft == ASSUME NEW w, Shaped(w), NEW c PROVE Leaves(w, Touched(w, c))
BY ConnLeft DEF Touched

-----------------------------------------------------------------------------
(* What the calls ask.                                                      *)

LEMMA WorkStays ==
  ASSUME Inv, \A c \in Conns : work'[c] = work[c]
  PROVE  \A q : On(q)' <=> On(q)
BY DEF On

LEMMA AskedSame ==
  ASSUME TypeOK, calls # <<>>, NEW f, Goto(f), f.query = Call.query, queue' = queue
  PROVE  \A q : In(q)' <=> In(q)
<1>1. PICK S : S = Frame \cup {f} OBVIOUS
<1>2. calls \in Seq(S) /\ f \in S BY <1>1 DEF TypeOK
<1>3. calls' = <<f>> \o Tail(calls) /\ calls[1] = Call BY DEF Goto, Call
<1>4. /\ DOMAIN calls' = DOMAIN calls /\ 1 \in DOMAIN calls /\ calls'[1] = f
      /\ \A i \in DOMAIN calls : i # 1 => calls'[i] = calls[i]
  BY <1>2, <1>3, FirstReplaced
<1>5. \A i \in DOMAIN calls : calls'[i].query = calls[i].query BY <1>3, <1>4
<1> QED BY <1>4, <1>5 DEF In

LEMMA AskedLess ==
  ASSUME TypeOK, calls # <<>>, Return
  PROVE  \A q : (\E i \in DOMAIN calls : calls[i].query = q)
                  <=> q = Call.query \/ \E i \in DOMAIN calls' : calls'[i].query = q
<1>1. /\ calls' \in Seq(Frame) /\ Len(calls') = Len(calls) - 1
      /\ \A i \in DOMAIN calls' : i \in Nat /\ i >= 1 /\ i + 1 \in DOMAIN calls /\ calls'[i] = calls[i + 1]
  BY FirstRemoved DEF TypeOK, Return
<1>2. /\ Len(calls) \in Nat /\ DOMAIN calls = 1 .. Len(calls) /\ DOMAIN calls' = 1 .. Len(calls')
      /\ 1 \in DOMAIN calls /\ Call = calls[1]
  BY <1>1, EmptySeq DEF TypeOK, Call
<1>3. ASSUME NEW i \in DOMAIN calls, i # 1
      PROVE  \E j \in DOMAIN calls' : calls'[j].query = calls[i].query
  <2>1. i - 1 \in DOMAIN calls' /\ (i - 1) + 1 = i BY <1>1, <1>2, <1>3
  <2> QED BY <1>1, <2>1
<1> QED BY <1>1, <1>2, <1>3

\* The step changes no query and no call.
LEMMA NothingMoves ==
  ASSUME Inv, work' = work, UNCHANGED <<queue, fate, calls>>
  PROVE  ServiceStep
BY DEF ServiceStep, Kept, On, In

\* The innermost call goes on.
LEMMA CallGoesOn ==
  ASSUME Inv, calls # <<>>, NEW f, Goto(f), f.query = Call.query,
         \A c \in Conns : work'[c] = work[c], UNCHANGED <<queue, fate>>
  PROVE  ServiceStep
<1>1. TypeOK BY DEF Inv
<1> QED BY <1>1, WorkStays, AskedSame DEF ServiceStep, Kept

\* The innermost call ends for one query, whose outcome the application is told.
LEMMA CallRefused ==
  ASSUME FullInv, calls # <<>>, Call.step # "failing", Call.query # NIL,
         NEW f, Goto(f), f.query = Call.query, queue' = queue,
         fate' = [fate EXCEPT ![Call.query] = "failed"],
         \A q \in Queries \ {Call.query} : fate[q] = "pending" => (On(q)' <=> On(q))
  PROVE  ServiceStep
<1>1. PICK p : p = Call.query OBVIOUS
<1>2. Inv /\ TypeOK /\ Told /\ Once BY DEF FullInv, Inv
<1>3. p \in Queries /\ Call = calls[1] /\ 1 \in DOMAIN calls BY <1>1, <1>2, CallIs
<1>4. fate[p] = "pending" /\ In(p) BY <1>1, <1>2, <1>3 DEF Told, In
<1>5. ~On(p)
  <2>1. Asked(1, p) BY <1>1, <1>3 DEF Asked
  <2> QED BY <1>2, <1>3, <2>1 DEF Once, On
<1>6. fate'[p] = "failed" /\ \A q \in Queries \ {p} : fate'[q] = fate[q]
  BY <1>1, <1>2, <1>3 DEF TypeOK
<1>7. Moved(p) BY <1>4, <1>5, <1>6 DEF Moved, Refused
<1>8. \A q \in Queries \ {p} : Kept(q) BY <1>1, <1>2, <1>6, AskedSame DEF Kept
<1> QED BY <1>3, <1>7, <1>8 DEF ServiceStep

LEMMA ThrowsRefused ==
  ASSUME FullInv, calls # <<>>, StartThrows, Call.step # "failing", Call.query # NIL,
         \A c \in Conns : work'[c] = work[c]
  PROVE  ServiceStep
<1>1. PICK f : f = [Call EXCEPT !.step = "failing", !.conn = NIL] OBVIOUS
<1>2. Inv BY DEF FullInv
<1>3. Call \in Frame BY <1>2, CallIs
<1>4. f.query = Call.query BY <1>1, <1>3 DEF Frame
<1>5. Goto(f) /\ fate' = [fate EXCEPT ![Call.query] = "failed"] /\ queue' = queue
  BY <1>1 DEF StartThrows
<1>6. \A q : On(q)' <=> On(q) BY <1>2, WorkStays
<1> QED BY <1>4, <1>5, <1>6, CallRefused

LEMMA ThrowMoves ==
  ASSUME FullInv, calls # <<>>, Throw, Call.step \in {"start", "poll"},
         \A c \in Conns : work'[c] = work[c]
  PROVE  ServiceStep
<1>1. Inv BY DEF FullInv
<1>2. Call \in Frame /\ FrameOK(Call) BY <1>1, CallIs
<1>3. CASE Call.new
  <2>1. PICK f : f = [Call EXCEPT !.step = "newfail"] OBVIOUS
  <2>2. f.query = Call.query BY <1>2, <2>1 DEF Frame
  <2>3. Goto(f) /\ UNCHANGED <<queue, fate>> BY <1>3, <2>1 DEF Throw, service
  <2> QED BY <1>1, <2>2, <2>3, CallGoesOn
<1>4. CASE ~Call.new
  <2>1. Call.query # NIL BY <1>2, <1>4 DEF FrameOK
  <2>2. StartThrows BY <1>4 DEF Throw
  <2> QED BY <2>1, <2>2, ThrowsRefused
<1> QED BY <1>3, <1>4

-----------------------------------------------------------------------------
(* The steps of a call.                                                     *)

LEMMA WorldShaped ==
  ASSUME NEW v, Leaves(World, v), Become(v)
  PROVE  work' = work
BY WorldLeft DEF Leaves, Become

LEMMA NextMoves ==
  ASSUME Inv, Scanning, NextConnection, \A c \in Conns : work'[c] = work[c], UNCHANGED <<queue, fate>>
  PROVE  ServiceStep
<1>1. calls # <<>> /\ Call \in Frame BY CallIs DEF Scanning, InCall
<1>2. PICK f : f = [Call EXCEPT !.step = "scan", !.conn = NIL, !.at = @ + 1] OBVIOUS
<1>3. f.query = Call.query BY <1>1, <1>2 DEF Frame
<1>4. Goto(f) BY <1>2 DEF NextConnection
<1> QED BY <1>1, <1>3, <1>4, CallGoesOn

LEMMA CreateMoves ==
  ASSUME Inv, calls # <<>>, NEW g, g = Call \/ g = [Call EXCEPT !.at = @ + 1], Create(g),
         UNCHANGED <<queue, fate>>
  PROVE  ServiceStep
<1>1. Call \in Frame BY CallIs
<1>2. PICK c : c = CHOOSE d \in FreeConns : TRUE OBVIOUS
<1>3. PICK f : f = [g EXCEPT !.step = "start", !.conn = c, !.new = TRUE] OBVIOUS
<1>4. f.query = Call.query BY <1>1, <1>3 DEF Frame
<1>5. Goto(f) /\ work' = work BY <1>2, <1>3 DEF Create
<1> QED BY <1>4, <1>5, CallGoesOn

LEMMA ScanStepMoves ==
  ASSUME FullInv, ScanStep
  PROVE  ServiceStep /\ \A d \in Conns : work'[d] = work[d]
<1>1. Inv /\ Shaped(World) /\ World.work = work BY WorldLeft DEF FullInv, Leaves
<1>2. PICK c : c = Visited OBVIOUS
<1>3. ASSUME Scanning PROVE calls # <<>> /\ Call \in Frame /\ c \in Conns
  <2>1. calls # <<>> BY <1>3 DEF Scanning, InCall
  <2>2. c \in Conns BY <1>1, <1>2, <1>3, ScanIs DEF Visited
  <2> QED BY <1>1, <2>1, <2>2, CallIs
<1>4. CASE ScanPasses
  <2>1. Scanning /\ NextConnection /\ work' = work /\ UNCHANGED <<queue, fate>>
    BY <1>4 DEF ScanPasses, objects, service
  <2> QED BY <1>1, <2>1, NextMoves
<1>5. CASE ScanCloses
  <2>1. Scanning /\ NextConnection /\ Become(Disconnect(World, c)) /\ UNCHANGED <<queue, fate>>
    BY <1>2, <1>5 DEF ScanCloses, service
  <2>2. work' = work BY <1>1, <2>1, DisconnectLeft, WorldShaped
  <2> QED BY <1>1, <2>1, <2>2, NextMoves
<1>6. PICK u : u = Reset(c) OBVIOUS
<1>7. Leaves(World, u) /\ Shaped(u) BY <1>1, <1>6, StatusLeft DEF Reset, Leaves
<1>8. CASE ScanResets
  <2>1. /\ Scanning /\ Goto([Call EXCEPT !.step = "poll", !.conn = c]) /\ UNCHANGED <<queue, fate>>
        /\ \E s : Become(CheckSocket(Moves(u, c, "started", s), c))
    BY <1>2, <1>6, <1>8 DEF ScanResets, service
  <2>2. PICK s : Become(CheckSocket(Moves(u, c, "started", s), c)) BY <2>1
  <2>3. PICK v : v = Moves(u, c, "started", s) OBVIOUS
  <2>4. Leaves(u, v) /\ Shaped(v) BY <1>7, <2>3, MovesLeft DEF Leaves
  <2>5. Leaves(v, CheckSocket(v, c)) BY <2>4, SocketLeft
  <2>6. Leaves(World, CheckSocket(v, c)) BY <1>7, <2>4, <2>5 DEF Leaves
  <2>7. work' = work BY <2>2, <2>3, <2>6, WorldShaped
  <2>8. PICK f : f = [Call EXCEPT !.step = "poll", !.conn = c] OBVIOUS
  <2>9. f.query = Call.query BY <1>3, <2>1, <2>8 DEF Frame
  <2> QED BY <1>1, <1>3, <2>1, <2>7, <2>8, <2>9, CallGoesOn
<1>9. CASE ScanReconnects
  <2>1. /\ Scanning /\ Goto([Call EXCEPT !.step = "start", !.conn = c, !.again = TRUE])
        /\ UNCHANGED <<queue, fate>>
        /\ Become(IF conn[c].pq = "none" THEN u ELSE Moves(u, c, "bad", NIL))
    BY <1>2, <1>6, <1>9 DEF ScanReconnects, service
  <2>2. Leaves(u, Moves(u, c, "bad", NIL)) BY <1>7, MovesLeft
  <2>3. PICK v : v = IF conn[c].pq = "none" THEN u ELSE Moves(u, c, "bad", NIL) OBVIOUS
  <2>4. Leaves(World, v) BY <1>7, <2>2, <2>3 DEF Leaves
  <2>5. work' = work BY <2>1, <2>3, <2>4, WorldShaped
  <2>6. PICK f : f = [Call EXCEPT !.step = "start", !.conn = c, !.again = TRUE] OBVIOUS
  <2>7. f.query = Call.query BY <1>3, <2>1, <2>6 DEF Frame
  <2> QED BY <1>1, <1>3, <2>1, <2>5, <2>6, <2>7, CallGoesOn
<1>10. CASE ScanEnds
  <2>1. /\ calls # <<>> /\ Call.step = "scan" /\ UNCHANGED <<queue, fate>>
        /\ \/ Create(Call)
           \/ Goto([Call EXCEPT !.step = "park"]) /\ UNCHANGED objects
    BY <1>10 DEF ScanEnds, InCall, service
  <2>2. CASE Create(Call)
    <3>1. work' = work BY <2>2 DEF Create
    <3> QED BY <1>1, <2>1, <2>2, <3>1, CreateMoves
  <2>3. CASE Goto([Call EXCEPT !.step = "park"]) /\ UNCHANGED objects
    <3>1. PICK f : f = [Call EXCEPT !.step = "park"] OBVIOUS
    <3>2. Call \in Frame BY <1>1, <2>1, CallIs
    <3>3. f.query = Call.query /\ Goto(f) /\ work' = work BY <2>3, <3>1, <3>2 DEF Frame, objects
    <3> QED BY <1>1, <2>1, <3>3, CallGoesOn
  <2> QED BY <2>1, <2>2, <2>3
<1> QED BY <1>4, <1>5, <1>8, <1>9, <1>10 DEF ScanStep

LEMMA PollMoves ==
  ASSUME Inv, calls # <<>>, PollSucceeded, \A c \in Conns : work'[c] = work[c], UNCHANGED <<queue, fate>>
  PROVE  ServiceStep
<1>1. Call \in Frame BY CallIs
<1>2. PICK f, g, h :
        /\ f = [Call EXCEPT !.again = FALSE]
        /\ g = [Call EXCEPT !.step = "scan", !.conn = NIL, !.at = @ + 1]
        /\ h = [Call EXCEPT !.step = IF Call.query = NIL THEN "open" ELSE "park",
                            !.conn = NIL, !.new = FALSE]
  OBVIOUS
<1>3. f.query = Call.query /\ g.query = Call.query /\ h.query = Call.query BY <1>1, <1>2 DEF Frame
<1>4. Call.again \in BOOLEAN /\ Call.new \in BOOLEAN BY <1>1 DEF Frame
<1>5. Goto(f) \/ Goto(g) \/ Goto(h) BY <1>2, <1>4 DEF PollSucceeded, NextConnection
<1> QED BY <1>3, <1>5, CallGoesOn

\* The connection is Call's, and it stays or gets another socket.
LEMMA ConnectStartMoves ==
  ASSUME FullInv, ConnectStart \/ ConnectStartBad
  PROVE  ServiceStep /\ \A d \in Conns : work'[d] = work[d]
<1>1. Inv /\ Shaped(World) /\ World.work = work BY WorldLeft DEF FullInv, Leaves
<1>2. calls # <<>> /\ Call.step = "start" BY DEF ConnectStart, ConnectStartBad, InCall
<1>3. PICK c : c = Call.conn OBVIOUS
<1>4. /\ \/ Throw
         \/ Goto([Call EXCEPT !.step = "poll"]) /\ UNCHANGED service
      /\ \E r : LET w == SetConn(World, c, r)
               IN \/ Become(w)
                  \/ Become(CheckSocket(w, c))
                  \/ \E p : Become(CheckSocket(Polling(w, c, p), c))
                  \/ \E t : Become(SetConn(w, c, t))
  <2>1. CASE ConnectStart
    <3>1. PICK s : LET w == SetConn(World, c, [conn[c] EXCEPT !.pq = "started", !.fd = s])
                       v == Polling(w, c, conn[c].polling)
                   IN IF Failed(w, c)
                      THEN Become(w) /\ Throw
                      ELSE /\ Become(CheckSocket(v, c))
                           /\ Goto([Call EXCEPT !.step = "poll"])
                           /\ UNCHANGED service
      BY <1>3, <2>1 DEF ConnectStart
    <3> QED BY <3>1
  <2>2. CASE ConnectStartBad
    <3>1. PICK s : LET w == SetConn(World, c, [conn[c] EXCEPT !.pq = "bad", !.fd = s])
                   IN IF Failed(w, c) \/ (s # NIL /\ s # conn[c].socket)
                      THEN /\ Become(IF Failed(w, c) THEN w
                                     ELSE SetConn(w, c, [w.conn[c] EXCEPT !.socket = s]))
                           /\ Throw
                      ELSE /\ Become(CheckSocket(w, c))
                           /\ Goto([Call EXCEPT !.step = "poll"])
                           /\ UNCHANGED service
      BY <1>3, <2>2 DEF ConnectStartBad
    <3> QED BY <3>1
  <2> QED BY <2>1, <2>2
<1>5. PICK r, w : /\ w = SetConn(World, c, r)
                  /\ \/ Become(w)
                     \/ Become(CheckSocket(w, c))
                     \/ \E p : Become(CheckSocket(Polling(w, c, p), c))
                     \/ \E t : Become(SetConn(w, c, t))
  BY <1>4
<1>6. Leaves(World, w) /\ Shaped(w) BY <1>1, <1>5, ConnLeft DEF Leaves
<1>7. /\ Leaves(World, CheckSocket(w, c))
      /\ \A t : Leaves(World, SetConn(w, c, t))
      /\ \A p : Leaves(World, CheckSocket(Polling(w, c, p), c))
  BY <1>6, ConnLeft, SocketLeft, PollingLeft DEF Leaves
<1>8. work' = work BY <1>5, <1>6, <1>7, WorldShaped
<1>9. CASE Throw
  <2>1. Call.step \in {"start", "poll"} BY <1>2
  <2> QED BY <1>2, <1>8, <1>9, <2>1, ThrowMoves
<1>10. CASE Goto([Call EXCEPT !.step = "poll"]) /\ UNCHANGED service
  <2>1. PICK f : f = [Call EXCEPT !.step = "poll"] OBVIOUS
  <2>2. Call \in Frame BY <1>1, <1>2, CallIs
  <2>3. f.query = Call.query /\ Goto(f) /\ UNCHANGED <<queue, fate>>
    BY <1>10, <2>1, <2>2 DEF Frame, service
  <2> QED BY <1>1, <1>2, <1>8, <2>3, CallGoesOn
<1> QED BY <1>4, <1>8, <1>9, <1>10

LEMMA PollInCallMoves ==
  ASSUME FullInv, PollInCall
  PROVE  ServiceStep /\ \A d \in Conns : work'[d] = work[d]
<1>1. Inv /\ Shaped(World) /\ World.work = work BY WorldLeft DEF FullInv, Leaves
<1>2. calls # <<>> /\ Call.step = "poll" BY DEF PollInCall, InCall
<1>3. PICK c \in Conns : c = Call.conn BY <1>1, <1>2, MakingIs
<1>4. PICK o \in Polled(World, c) :
        \/ Become(o.world) /\ Throw
        \/ Become(CheckSocket(o.world, c)) /\ PollSucceeded /\ UNCHANGED service
  BY <1>3 DEF PollInCall
<1>5. World.conn[c].pq \in {"none", "started", "late", "ok", "bad"}
  BY <1>1, <1>2, <1>3, MakingIs DEF World, ConnRec
<1>6. PICK w : w = o.world OBVIOUS
<1>7. Leaves(World, w) /\ Shaped(w) BY <1>1, <1>5, <1>6, PolledLeft DEF Leaves
<1>8. Leaves(World, CheckSocket(w, c)) BY <1>7, SocketLeft DEF Leaves
<1>9. work' = work BY <1>4, <1>6, <1>7, <1>8, WorldShaped
<1>10. CASE Throw
  <2>1. Call.step \in {"start", "poll"} BY <1>2
  <2> QED BY <1>2, <1>9, <1>10, <2>1, ThrowMoves
<1>11. CASE PollSucceeded /\ UNCHANGED service
  <2>1. UNCHANGED <<queue, fate>> BY <1>11 DEF service
  <2> QED BY <1>1, <1>2, <1>9, <1>11, <2>1, PollMoves
<1> QED BY <1>4, <1>9, <1>10, <1>11

LEMMA NewConnectionFailsMoves ==
  ASSUME FullInv, NewConnectionFails
  PROVE  ServiceStep /\ \A d \in Conns : work'[d] = work[d]
<1>1. Inv BY DEF FullInv
<1>2. calls # <<>> /\ Call.step = "newfail" /\ Become(Delete(World, Call.conn))
  BY DEF NewConnectionFails, InCall
<1>3. PICK c \in Conns : c = Call.conn BY <1>1, <1>2, MakingIs
<1>4. c \in Members(pool) /\ ObjectsOK /\ Wired(World) /\ Call \in Frame
  BY <1>1, <1>2, <1>3, MakingIs
<1>5. work[c] = NIL
  <2>1. FrameOK(Call) /\ Call = calls[1] /\ 1 \in DOMAIN calls BY <1>1, <1>2, CallIs
  <2>2. Making(calls[1], c) BY <1>2, <1>3, <2>1 DEF FrameOK, Making
  <2> QED BY <1>1, <2>1, <2>2 DEF Inv, Frames
<1>6. Become(Delete(World, c)) BY <1>2, <1>3
<1>7. \A d \in Conns : work'[d] = work[d] BY <1>4, <1>5, <1>6, GentlyDeleted
<1>8. CASE Call.query = NIL
  <2>1. PICK f : f = [Call EXCEPT !.step = "open", !.conn = NIL, !.new = FALSE, !.at = SizeMin]
    OBVIOUS
  <2>2. Goto(f) /\ UNCHANGED <<queue, fate>> BY <1>8, <2>1 DEF NewConnectionFails, service
  <2>3. f.query = Call.query BY <1>4, <2>1 DEF Frame
  <2> QED BY <1>1, <1>2, <1>7, <2>2, <2>3, CallGoesOn
<1>9. CASE Call.query # NIL
  <2>1. StartThrows BY <1>9 DEF NewConnectionFails
  <2> QED BY <1>2, <1>7, <1>9, <2>1, ThrowsRefused
<1> QED BY <1>7, <1>8, <1>9

LEMMA ConnectStepMoves ==
  ASSUME FullInv, ConnectStep
  PROVE  ServiceStep /\ \A d \in Conns : work'[d] = work[d]
<1>1. Inv BY DEF FullInv
<1>2. CASE PingFails
  <2>1. calls # <<>> /\ Call.step = "start" /\ Throw /\ work' = work
    BY <1>2 DEF PingFails, InCall, objects
  <2>2. Call.step \in {"start", "poll"} BY <2>1
  <2> QED BY <2>1, <2>2, ThrowMoves
<1>3. CASE Opens
  <2>1. calls # <<>> /\ Create([Call EXCEPT !.at = @ + 1]) /\ UNCHANGED <<queue, fate>> /\ work' = work
    BY <1>3 DEF Opens, InCall, service, Create
  <2> QED BY <1>1, <2>1, CreateMoves
<1>4. CASE OpenEnds
  <2>1. calls # <<>> /\ Call.step = "open" /\ Return /\ work' = work /\ UNCHANGED <<queue, fate>>
    BY <1>4 DEF OpenEnds, InCall, service, objects
  <2>2. TypeOK BY <1>1 DEF Inv
  <2>3. Call.query = NIL BY <1>1, <2>1, CallIs DEF FrameOK
  <2>4. \A q \in Queries : In(q)' <=> In(q) BY <2>1, <2>2, <2>3, AskedLess, Distinct DEF In
  <2>5. \A q : On(q)' <=> On(q) BY <1>1, <2>1, WorkStays
  <2> QED BY <2>1, <2>4, <2>5 DEF ServiceStep, Kept
<1> QED
  BY <1>2, <1>3, <1>4, ConnectStartMoves, PollInCallMoves, NewConnectionFailsMoves DEF ConnectStep

-----------------------------------------------------------------------------
(* Queries that are given to a connection, queued, and let go.              *)

\* The query of the innermost call, as long as the call has not failed
LEMMA CallAsks ==
  ASSUME FullInv, calls # <<>>, Call.step # "failing", NEW p, p = Call.query, p # NIL
  PROVE  p \in Queries /\ fate[p] = "pending" /\ In(p) /\ ~On(p)
<1>1. Inv /\ Told /\ Once BY DEF FullInv, Inv
<1>2. p \in Queries /\ Call = calls[1] /\ 1 \in DOMAIN calls BY <1>1, CallIs
<1>3. fate[p] = "pending" /\ In(p) BY <1>1, <1>2 DEF Told, In
<1>4. Asked(1, p) BY <1>2 DEF Asked
<1> QED BY <1>1, <1>2, <1>3, <1>4 DEF Once, On

\* A connection that is taken for a query has none that is still to be answered.
LEMMA ReadyHasNone ==
  ASSUME FullInv, NEW c \in Conns, conn[c].status = "qsReady", work[c] # NIL
  PROVE  fate[work[c]] # "pending"
<1>1. c \in InFlight BY DEF InFlight
<1>2. Told BY DEF FullInv
<1> QED BY <1>1, <1>2 DEF Told

LEMMA WorkGiven ==
  ASSUME TypeOK, NEW c \in Conns, NEW p, NEW v, Leaves(SetWork(World, c, p), v), Become(v)
  PROVE  \A d \in Conns : work'[d] = IF d = c THEN p ELSE work[d]
<1>1. SetWork(World, c, p).work = [work EXCEPT ![c] = p] BY DEF SetWork, World
<1>2. work' = [work EXCEPT ![c] = p] BY <1>1 DEF Leaves, Become
<1> QED BY <1>2 DEF TypeOK

LEMMA WorkShaped == \A c, p : Shaped(SetWork(World, c, p))
<1> SUFFICES ASSUME NEW c, NEW p PROVE Shaped(SetWork(World, c, p)) OBVIOUS
<1>1. PICK f : f = [work EXCEPT ![c] = p] OBVIOUS
<1>2. SetWork(World, c, p) = [World EXCEPT !.work = f] BY <1>1 DEF SetWork, World
<1> QED BY <1>2 DEF Shaped, World

LEMMA QueryStartMoves ==
  ASSUME FullInv, QueryStart
  PROVE  ServiceStep /\ \A d \in Conns : conn[d].status # "qsReady" \/ conn[d].pq = "bad" => work'[d] = work[d]
<1>1. Inv /\ TypeOK BY DEF FullInv, Inv
<1>2. Scanning /\ Ready(Visited) /\ Return /\ UNCHANGED <<queue, fate>> BY DEF QueryStart, service
<1>3. PICK c \in Conns : c = Visited BY <1>1, <1>2, ScanIs
<1>4. PICK p \in Queries : p = Call.query BY <1>1, <1>2, ScanIs
<1>5. calls # <<>> /\ Call.step = "scan" BY <1>2 DEF Scanning, InCall
<1>6. conn[c].status = "qsReady" /\ conn[c].pq = "ok" BY <1>2, <1>3 DEF Ready
<1>7. Become(SetStatus(SetWork(World, c, p), c, "qsWait")) BY <1>3, <1>4 DEF QueryStart
<1>8. \A d \in Conns : work'[d] = IF d = c THEN p ELSE work[d]
  BY <1>1, <1>7, WorkShaped, StatusLeft, WorkGiven
<1>9. fate[p] = "pending" /\ In(p) /\ ~On(p) BY <1>4, <1>5, Distinct, CallAsks
<1>10. On(p)' BY <1>8 DEF On
<1>11. ASSUME NEW q \in Queries \ {p} PROVE Kept(q)
  <2>1. In(q)' <=> In(q) BY <1>1, <1>2, <1>4, <1>5, <1>11, AskedLess DEF In
  <2>2. ASSUME fate[q] = "pending" PROVE On(q)' <=> On(q)
    <3>1. work[c] # q BY <1>6, <2>2, Distinct, ReadyHasNone
    <3> QED BY <1>8, <1>11, <3>1 DEF On
  <2> QED BY <1>2, <2>1, <2>2 DEF Kept
<1>12. Moved(p) BY <1>2, <1>9, <1>10 DEF Moved, Taken
<1> QED BY <1>6, <1>8, <1>11, <1>12 DEF ServiceStep

LEMMA QueryStartThrowsMoves ==
  ASSUME FullInv, QueryStartThrows
  PROVE  ServiceStep /\ \A d \in Conns : conn[d].status # "qsReady" \/ conn[d].pq = "bad" => work'[d] = work[d]
<1>1. Inv /\ TypeOK BY DEF FullInv, Inv
<1>2. /\ Scanning /\ Ready(Visited) /\ queue' = queue
      /\ fate' = [fate EXCEPT ![Call.query] = "failed"]
  BY DEF QueryStartThrows
<1>3. PICK c \in Conns : c = Visited BY <1>1, <1>2, ScanIs
<1>4. PICK p \in Queries : p = Call.query BY <1>1, <1>2, ScanIs
<1>5. calls # <<>> /\ Call.step = "scan" /\ Call \in Frame BY <1>1, <1>2, CallIs DEF Scanning, InCall
<1>6. conn[c].status = "qsReady" /\ conn[c].pq = "ok" BY <1>2, <1>3 DEF Ready
<1>7. PICK st : LET w == SetStatus(SetWork(World, c, p), c, st)
                IN Become(w) \/ Become(Moves(w, c, "bad", NIL))
  BY <1>3, <1>4 DEF QueryStartThrows
<1>8. \A d \in Conns : work'[d] = IF d = c THEN p ELSE work[d]
  <2>1. PICK x, w : x = SetWork(World, c, p) /\ w = SetStatus(x, c, st) OBVIOUS
  <2>2. Leaves(x, w) /\ Shaped(w) BY <2>1, WorkShaped, StatusLeft DEF Leaves
  <2>3. Leaves(x, Moves(w, c, "bad", NIL)) BY <2>2, MovesLeft DEF Leaves
  <2> QED BY <1>1, <1>7, <2>1, <2>2, <2>3, WorkGiven
<1>9. PICK f : f = [Call EXCEPT !.step = "failing", !.conn = c] OBVIOUS
<1>10. Goto(f) /\ f.query = Call.query BY <1>3, <1>5, <1>9 DEF QueryStartThrows, Frame
<1>11. ASSUME NEW q \in Queries \ {p}, fate[q] = "pending" PROVE On(q)' <=> On(q)
  <2>1. work[c] # q BY <1>6, <1>11, Distinct, ReadyHasNone
  <2> QED BY <1>8, <1>11, <2>1 DEF On
<1>12. ServiceStep BY <1>2, <1>4, <1>5, <1>10, <1>11, Distinct, CallRefused
<1> QED BY <1>6, <1>8, <1>12

\* The query that goes with the connection is another one, or the application knows.
LEMMA StartFailsMoves ==
  ASSUME FullInv, StartFails
  PROVE  ServiceStep /\ \A d \in Conns : d # Call.conn => work'[d] = work[d]
<1>1. Inv /\ TypeOK /\ Told /\ Once BY DEF FullInv, Inv
<1>2. calls # <<>> /\ Call.step = "failing" /\ Return /\ UNCHANGED <<queue, fate>>
  BY DEF StartFails, InCall, service
<1>3. /\ FrameOK(Call) /\ Call = calls[1] /\ 1 \in DOMAIN calls /\ Call.conn \in Conns \cup {NIL}
      /\ Call.query \in Queries \cup {NIL}
  BY <1>1, <1>2, CallIs
<1>4. Call.query \in Queries /\ fate[Call.query] = "failed" BY <1>1, <1>2, <1>3 DEF FrameOK, Told
<1>5. \A q \in Queries : fate[q] = "pending" => (In(q)' <=> In(q))
  BY <1>1, <1>2, <1>4, AskedLess DEF In
<1>6. CASE Call.conn = NIL
  <2>1. work' = work BY <1>6 DEF StartFails, objects
  <2>2. \A q : On(q)' <=> On(q) BY <1>1, <2>1, WorkStays
  <2> QED BY <1>2, <1>5, <2>1, <2>2 DEF ServiceStep, Kept
<1>7. CASE Call.conn \in Conns
  <2>1. PICK c \in Conns : c = Call.conn BY <1>7
  <2>2. Become(QueryStop(World, c)) BY <2>1, Distinct DEF StartFails
  <2>3. \A d \in Conns : work'[d] = IF d = c THEN NIL ELSE work[d]
    BY <1>1, <2>2, WorkShaped, StatusLeft, WorkGiven DEF QueryStop
  <2>4. PICK p : p = work[c] OBVIOUS
  <2>5. \A q \in Queries \ {p} : Kept(q)
    <3>1. \A q \in Queries \ {p} : On(q)' <=> On(q) BY <2>3, <2>4, Distinct DEF On
    <3> QED BY <1>2, <1>5, <3>1 DEF Kept
  <2>6. CASE p \in Queries /\ fate[p] = "pending"
    <3>1. c \in InFlight BY <2>4, <2>6, Distinct DEF InFlight
    <3>2. On(p) BY <2>4 DEF On
    <3>3. ~On(p)'
      <4> SUFFICES ASSUME NEW d \in Conns, work'[d] = p PROVE FALSE BY DEF On
      <4>1. d # c /\ work[d] = p BY <2>3, <2>6, Distinct
      <4>2. d \in InFlight BY <2>6, <4>1, Distinct DEF InFlight
      <4> QED BY <1>1, <2>4, <3>1, <4>1, <4>2 DEF Once
    <3>4. ~In(p)
      <4>1. p \notin Members(queue) BY <1>1, <2>4, <3>1 DEF Once
      <4>2. ASSUME NEW i \in DOMAIN calls, calls[i].query = p PROVE FALSE
        <5>1. calls[i].step # "failing" BY <1>1, <2>6, <4>2, Distinct DEF Told
        <5>2. Asked(i, p) BY <4>2, <5>1 DEF Asked
        <5> QED BY <1>1, <2>4, <2>6, <5>2 DEF Once
      <4> QED BY <4>1, <4>2 DEF In
    <3>5. StopsAnother(p) BY <1>2, <1>4, <2>1, <2>4, <2>6, Distinct DEF StopsAnother, InCall
    <3>6. Moved(p) BY <1>2, <1>5, <2>6, <3>2, <3>3, <3>4, <3>5 DEF Moved, Vanished
    <3> QED BY <2>1, <2>3, <2>5, <2>6, <3>6 DEF ServiceStep
  <2>7. CASE ~(p \in Queries /\ fate[p] = "pending")
    <3>1. \A q \in Queries : Kept(q) BY <1>2, <2>5, <2>7 DEF Kept
    <3> QED BY <2>1, <2>3, <3>1 DEF ServiceStep
  <2> QED BY <2>6, <2>7
<1> QED BY <1>3, <1>6, <1>7

LEMMA ParkMoves ==
  ASSUME FullInv, Park
  PROVE  ServiceStep /\ work' = work
<1>1. Inv /\ TypeOK BY DEF FullInv, Inv
<1>2. calls # <<>> /\ Call.step = "park" /\ work' = work BY DEF Park, InCall, objects
<1>3. PICK p \in Queries : p = Call.query BY <1>1, <1>2, CallIs DEF FrameOK
<1>4. CASE StartThrows BY <1>2, <1>3, <1>4, Distinct, ThrowsRefused
<1>5. CASE queue' = Append(queue, p) /\ Return /\ UNCHANGED fate
  <2>1. Members(queue') = Members(queue) \cup {p} BY <1>1, <1>5, Appended DEF TypeOK
  <2>2. \A q : In(q)' <=> In(q) BY <1>1, <1>2, <1>3, <1>5, <2>1, AskedLess DEF In
  <2>3. \A q : On(q)' <=> On(q) BY <1>1, <1>2, WorkStays
  <2> QED BY <1>2, <1>5, <2>2, <2>3 DEF ServiceStep, Kept
<1> QED BY <1>3, <1>4, <1>5 DEF Park

LEMMA AppStartsMoves ==
  ASSUME FullInv, NEW p \in Queries, AppStarts(p)
  PROVE  ServiceStep /\ work' = work
<1>1. Inv /\ TypeOK /\ Once BY DEF FullInv, Inv
<1>2. /\ fate[p] = "new" /\ fate' = [fate EXCEPT ![p] = "pending"]
      /\ calls' = <<StartFrame(p)>> \o calls /\ queue' = queue /\ work' = work
  BY DEF AppStarts, objects
<1>3. PICK e : e = StartFrame(p) OBVIOUS
<1>4. e.query = p BY <1>3 DEF StartFrame
<1>5. /\ Len(calls') = Len(calls) + 1 /\ calls'[1] = e /\ 1 \in DOMAIN calls' /\ calls' \in Seq(Frame \cup {e})
      /\ \A i \in DOMAIN calls' : i \in Nat /\ i >= 1
                                  /\ (i # 1 => i - 1 \in DOMAIN calls /\ calls'[i] = calls[i - 1])
  <2>1. PICK S : S = Frame \cup {e} OBVIOUS
  <2>2. calls \in Seq(S) /\ e \in S /\ calls' = <<e>> \o calls BY <1>1, <1>2, <1>3, <2>1 DEF TypeOK
  <2> QED BY <2>1, <2>2, Pushed
<1>6. ASSUME NEW i \in DOMAIN calls PROVE i + 1 \in DOMAIN calls' /\ calls'[i + 1] = calls[i]
  <2>1. /\ DOMAIN calls = 1 .. Len(calls) /\ DOMAIN calls' = 1 .. Len(calls') /\ Len(calls) \in Nat
    BY <1>1, <1>5 DEF TypeOK
  <2>2. i + 1 \in DOMAIN calls' /\ i + 1 # 1 /\ (i + 1) - 1 = i BY <1>5, <2>1
  <2> QED BY <1>5, <2>2
<1>7. \A q : (\E i \in DOMAIN calls' : calls'[i].query = q)
               <=> q = p \/ \E i \in DOMAIN calls : calls[i].query = q
  BY <1>4, <1>5, <1>6
<1>8. \A q \in Queries \ {p} : fate'[q] = fate[q] BY <1>1, <1>2 DEF TypeOK
<1>9. \A q : On(q)' <=> On(q) BY <1>1, <1>2, WorkStays
<1>10. \A q \in Queries \ {p} : Kept(q) BY <1>2, <1>7, <1>8, <1>9 DEF Kept, In
<1>11. ~On(p) BY <1>1, <1>2 DEF Once, On
<1>12. fate'[p] = "pending" BY <1>1, <1>2 DEF TypeOK
<1>13. In(p)' BY <1>4, <1>5 DEF In
<1>14. Moved(p) BY <1>2, <1>9, <1>11, <1>12, <1>13 DEF Moved, Submitted
<1> QED BY <1>2, <1>10, <1>14 DEF ServiceStep

-----------------------------------------------------------------------------
(* The loop.                                                                *)

\* While OnPollExecuted runs, its query is still with the connection, and answered.
Answering == pc = "executed" => work[cur.conn] # NIL /\ fate[work[cur.conn]] = "executed"

\* A step of the loop that comes to no query
LEMMA LoopLeaves ==
  ASSUME FullInv, work' = work, UNCHANGED <<queue, fate, calls>>
  PROVE  ServiceStep
BY NothingMoves DEF FullInv

LEMMA ActivateMoves ==
  ASSUME FullInv, Activate
  PROVE  ServiceStep /\ pc' # "executed"
<1>1. /\ calls = <<>> /\ pc = "wait" /\ pc' = pc /\ work' = work /\ UNCHANGED <<queue, fate>>
      /\ calls' = <<[StartFrame(NIL) EXCEPT !.step = "open", !.at = 0]>>
  BY DEF Activate, objects, service, loop
<1>2. PICK f : f = [StartFrame(NIL) EXCEPT !.step = "open", !.at = 0] OBVIOUS
<1>3. f.query = NIL BY <1>2 DEF StartFrame
<1>4. calls' = <<f>> BY <1>1, <1>2
<1>5. \A q \in Queries : In(q)' <=> In(q) BY <1>1, <1>3, <1>4, Distinct DEF In
<1>6. \A q : On(q)' <=> On(q) BY <1>1 DEF On
<1> QED BY <1>1, <1>5, <1>6 DEF ServiceStep, Kept

LEMMA QuietMoves ==
  ASSUME FullInv,
         \/ Deactivate \/ ClearEnds \/ Wait \/ FollowsDangling
         \/ \E h \in batch : DispatchNothing(h) \/ DispatchTimer(h)
         \/ ShrinkKeeps \/ ShrinkEnds \/ ShrinkThrows \/ EndOfBatch
         \/ PackKeeps \/ PackEnds \/ WriteIgnored
  PROVE  ServiceStep /\ pc' # "executed"
<1>1. CASE Deactivate \/ ClearEnds
  BY <1>1, LoopLeaves DEF Deactivate, ClearEnds, objects, service
<1>2. CASE Wait \/ FollowsDangling
  BY <1>2, LoopLeaves DEF Wait, FollowsDangling, objects, service
<1>3. CASE \E h \in batch : DispatchNothing(h) \/ DispatchTimer(h)
  BY <1>3, LoopLeaves DEF DispatchNothing, DispatchTimer, Take, Running, objects, service
<1>4. CASE ShrinkKeeps \/ ShrinkEnds \/ ShrinkThrows
  BY <1>4, LoopLeaves DEF ShrinkKeeps, ShrinkEnds, ShrinkThrows, Running, objects, service
<1>5. CASE EndOfBatch \/ PackKeeps \/ PackEnds \/ WriteIgnored
  BY <1>5, LoopLeaves
  DEF EndOfBatch, PackKeeps, PackEnds, Packing, WriteIgnored, Running, objects, service
<1> QED BY <1>1, <1>2, <1>3, <1>4, <1>5

LEMMA AfterReadGoes == ASSUME NEW w, NEW e, AfterRead(w, e) PROVE pc' \in {"write", "dispatch"}
BY DEF AfterRead

\* Events that answer nothing
LEMMA ReadMoves ==
  ASSUME FullInv, NEW h \in batch, NEW out \in BOOLEAN,
         ReadPolls(h, out) \/ ReadIgnored(h, out) \/ ReadNotified(h, out) \/ ReadThrows(h, out)
  PROVE  ServiceStep /\ pc' # "executed"
<1>1. Inv /\ Shaped(World) BY WorldLeft DEF FullInv, Leaves
<1>2. PICK c : c = Bound(h) OBVIOUS
<1>3. Reads(h) /\ fate' = fate
  BY DEF ReadPolls, ReadIgnored, ReadNotified, ReadThrows
<1>4. UNCHANGED <<queue, fate, calls>> /\ conn[c] \in ConnRec BY <1>1, <1>2, <1>3, ReadsIs
<1>5. CASE ReadPolls(h, out)
  <2>1. PICK o \in Polled(World, c) :
          LET w == Touched(CheckSocket(o.world, c), c)
          IN \/ Become(o.world) /\ pc' = "fault"
             \/ Become(w) /\ \E e : AfterRead(w, e)
    BY <1>2, <1>5 DEF ReadPolls, Callback
  <2>2. PICK u, w, v : u = o.world /\ w = CheckSocket(u, c) /\ v = Touched(w, c) OBVIOUS
  <2>3. World.conn[c].pq \in {"none", "started", "late", "ok", "bad"}
    BY <1>4 DEF World, ConnRec
  <2>4. Leaves(World, u) /\ Shaped(u) BY <1>1, <2>2, <2>3, PolledLeft DEF Leaves
  <2>5. Leaves(World, v) BY <2>2, <2>4, SocketLeft, TouchedLeft DEF Leaves
  <2>6. \/ Become(u) /\ pc' = "fault"
        \/ Become(v) /\ \E e : AfterRead(v, e)
    BY <2>1, <2>2
  <2>7. work' = work BY <2>4, <2>5, <2>6, WorldShaped
  <2>8. pc' # "executed" BY <2>6, AfterReadGoes
  <2> QED BY <1>4, <2>7, <2>8, LoopLeaves
<1>6. CASE ReadIgnored(h, out)
  <2>1. PICK v, e : v = Touched(World, c) /\ Become(v) /\ AfterRead(v, e)
    BY <1>2, <1>6 DEF ReadIgnored
  <2>2. work' = work BY <1>1, <2>1, TouchedLeft, WorldShaped
  <2> QED BY <1>4, <2>1, <2>2, AfterReadGoes, LoopLeaves
<1>7. CASE ReadNotified(h, out)
  <2>1. PICK v : v = SetStatus(World, c, "qsWait") /\ Become(v) /\ pc' = "notify"
    BY <1>2, <1>7 DEF ReadNotified, CheckNotify, Callback
  <2>2. work' = work BY <1>1, <2>1, StatusLeft, WorldShaped
  <2> QED BY <1>4, <2>1, <2>2, LoopLeaves
<1>8. CASE ReadThrows(h, out)
  <2>1. PICK v : v = Moves(World, c, "bad", NIL) /\ Become(v) /\ pc' = "fault"
    BY <1>2, <1>8 DEF ReadThrows, Callback
  <2>2. work' = work BY <1>1, <2>1, MovesLeft, WorldShaped
  <2> QED BY <1>4, <2>1, <2>2, LoopLeaves
<1> QED BY <1>5, <1>6, <1>7, <1>8

LEMMA CallbackMoves ==
  ASSUME FullInv, NotifyDone \/ NotifyThrows \/ Fault
  PROVE  ServiceStep /\ pc' # "executed"
<1>1. Shaped(World) BY WorldLeft DEF Leaves
<1>2. PICK c, h : c = cur.conn /\ h = cur.handler OBVIOUS
<1>3. UNCHANGED <<queue, fate, calls>> BY DEF NotifyDone, NotifyThrows, Fault, service
<1>4. CASE NotifyDone
  <2>1. PICK r, v : v = SetConn(World, c, r) /\ Become(v) /\ AfterRead(v, cur)
    BY <1>2, <1>4 DEF NotifyDone
  <2>2. work' = work BY <1>1, <2>1, ConnLeft, WorldShaped
  <2> QED BY <1>3, <2>1, <2>2, AfterReadGoes, LoopLeaves
<1>5. CASE NotifyThrows
  <2>1. PICK v : v = Moves(World, c, "bad", NIL) /\ Become(v) /\ pc' = "fault"
    BY <1>2, <1>5 DEF NotifyThrows
  <2>2. work' = work BY <1>1, <2>1, MovesLeft, WorldShaped
  <2> QED BY <1>3, <2>1, <2>2, LoopLeaves
<1>6. CASE Fault
  <2>1. PICK w, r, v : /\ w = SetStatus(World, c, "qsError") /\ v = SetHandler(w, h, r)
                       /\ Become(v) /\ pc' = "dispatch"
    BY <1>2, <1>6 DEF Fault
  <2>2. Leaves(World, w) /\ Shaped(w) BY <1>1, <2>1, StatusLeft DEF Leaves
  <2>3. Leaves(World, v) BY <2>1, <2>2, HandlerLeft DEF Leaves
  <2>4. work' = work BY <2>1, <2>3, WorldShaped
  <2> QED BY <1>3, <2>1, <2>4, LoopLeaves
<1> QED BY <1>4, <1>5, <1>6

LEMMA WriteMoves ==
  ASSUME FullInv, (\E h \in batch : DispatchWrite(h)) \/ WritePolls
  PROVE  ServiceStep /\ pc' # "executed"
<1>1. Inv /\ Shaped(World) BY WorldLeft DEF FullInv, Leaves
<1>2. CASE \E h \in batch : DispatchWrite(h)
  <2>1. PICK h \in batch : DispatchWrite(h) BY <1>2
  <2>2. PICK r, v : v = SetConn(World, Bound(h), r) /\ Become(v) /\ pc' = "write" /\ fate' = fate
    BY <2>1 DEF DispatchWrite, Callback
  <2>3. UNCHANGED <<queue, calls>> BY <2>1 DEF DispatchWrite, Reads
  <2>4. work' = work BY <1>1, <2>2, ConnLeft, WorldShaped
  <2> QED BY <2>2, <2>3, <2>4, LoopLeaves
<1>3. CASE WritePolls
  <2>1. PICK c : c = cur.conn OBVIOUS
  <2>2. /\ pc = "write" /\ calls = <<>> /\ UNCHANGED <<queue, fate, calls>>
        /\ \E o \in Polled(World, c) :
             IF Failed(o.world, c)
             THEN Become(o.world) /\ Callback("fault", cur)
             ELSE Become(CheckSocket(o.world, c)) /\ pc' = "dispatch"
    BY <1>3, <2>1 DEF WritePolls, Running, service
  <2>3. PICK o \in Polled(World, c) :
          \/ Become(o.world) /\ pc' = "fault"
          \/ Become(CheckSocket(o.world, c)) /\ pc' = "dispatch"
    BY <2>2 DEF Callback
  <2>4. Dispatching BY <2>2 DEF Dispatching
  <2>5. World.conn[c].pq \in {"none", "started", "late", "ok", "bad"}
    BY <1>1, <2>1, <2>2, <2>4, CursorIs DEF World, ConnRec
  <2>6. PICK u, v : u = o.world /\ v = CheckSocket(u, c) OBVIOUS
  <2>7. Leaves(World, u) /\ Shaped(u) BY <1>1, <2>5, <2>6, PolledLeft DEF Leaves
  <2>8. Leaves(World, v) BY <2>6, <2>7, SocketLeft DEF Leaves
  <2>9. work' = work BY <2>3, <2>6, <2>7, <2>8, WorldShaped
  <2> QED BY <2>2, <2>3, <2>9, LoopLeaves
<1> QED BY <1>2, <1>3

\* The query that is started over has been waiting, and is.
LEMMA WriteStartsMoves ==
  ASSUME FullInv, WriteStarts
  PROVE  ServiceStep /\ pc' # "executed"
<1>1. TypeOK /\ Once /\ Shaped(World) BY WorldLeft DEF FullInv, Inv, Leaves
<1>2. PICK v : v = SetStatus(World, cur.conn, "qsReady") /\ Become(v) BY DEF WriteStarts
<1>3. work' = work BY <1>1, <1>2, StatusLeft, WorldShaped
<1>4. calls = <<>> /\ fate' = fate /\ pc' = "dispatch" /\ CheckQueue BY DEF WriteStarts, Running
<1>5. CASE queue = <<>>
  <2>1. UNCHANGED <<queue, fate, calls>> BY <1>4, <1>5 DEF CheckQueue
  <2> QED BY <1>3, <1>4, <2>1, LoopLeaves
<1>6. CASE queue # <<>>
  <2>1. PICK p, f : p = Head(queue) /\ f = StartFrame(p) OBVIOUS
  <2>2. queue' = Tail(queue) /\ calls' = <<f>> BY <1>4, <1>6, <2>1 DEF CheckQueue
  <2>3. p \in Members(queue) /\ Members(queue') = Members(queue) \ {p}
    BY <1>1, <1>6, <2>1, <2>2, FirstTaken DEF TypeOK, Once
  <2>4. f.query = p BY <2>1 DEF StartFrame
  <2>5. \A q : In(q)' <=> In(q) BY <1>4, <2>2, <2>3, <2>4 DEF In
  <2>6. \A q : On(q)' <=> On(q) BY <1>3 DEF On
  <2> QED BY <1>4, <2>5, <2>6 DEF ServiceStep, Kept
<1> QED BY <1>5, <1>6

\* OnPollExecuted
LEMMA ReadResultMoves ==
  ASSUME FullInv, NEW h \in batch, NEW out \in BOOLEAN, ReadResult(h, out)
  PROVE  ServiceStep /\ Answering'
<1>1. Inv /\ TypeOK /\ Busy /\ Told /\ Shaped(World) BY WorldLeft DEF FullInv, Inv, Leaves
<1>2. PICK c : c = Bound(h) OBVIOUS
<1>3. /\ Reads(h) /\ work[c] # NIL /\ fate' = [fate EXCEPT ![work[c]] = "executed"]
      /\ UNCHANGED objects \/ Become(Moves(World, c, "bad", NIL))
  BY <1>2 DEF ReadResult
<1>4. /\ calls = <<>> /\ pc = "dispatch" /\ c \in Conns /\ handler[h].binding = c
      /\ UNCHANGED <<queue, calls>>
  BY <1>1, <1>2, <1>3, ReadsIs
<1>5. PICK p \in Queries : p = work[c] BY <1>1, <1>3, <1>4 DEF TypeOK
<1>6. fate[p] = "pending" BY <1>1, <1>3, <1>4, <1>5, AwaitsAnswer
<1>7. fate'[p] = "executed" /\ \A q \in Queries \ {p} : fate'[q] = fate[q]
  BY <1>1, <1>3, <1>5 DEF TypeOK
<1>8. work' = work
  <2>1. CASE UNCHANGED objects BY <2>1 DEF objects
  <2>2. CASE Become(Moves(World, c, "bad", NIL)) BY <1>1, <2>2, MovesLeft, WorldShaped
  <2> QED BY <1>3, <2>1, <2>2
<1>9. \A q : (On(q)' <=> On(q)) /\ (In(q)' <=> In(q)) BY <1>4, <1>8 DEF On, In
<1>10. Answered(p) BY <1>4, <1>5, <1>6, <1>7 DEF Answered, On
<1>11. ServiceStep BY <1>7, <1>9, <1>10 DEF ServiceStep, Moved, Kept
<1>12. cur'.conn = c BY <1>2 DEF ReadResult, Callback, Event
<1> QED BY <1>3, <1>5, <1>7, <1>8, <1>11, <1>12 DEF Answering

\* Connection b is told to stop, with a query whose answer was taken.
LEMMA ResultDoneMoves ==
  ASSUME FullInv, Answering, ResultDone
  PROVE  ServiceStep /\ pc' # "executed"
<1>1. Inv /\ TypeOK BY DEF FullInv, Inv
<1>2. PICK c : c = cur.conn OBVIOUS
<1>3. pc = "executed" /\ calls = <<>> /\ pc' # "executed" /\ UNCHANGED <<queue, fate, calls>>
  BY DEF ResultDone, Running, service
<1>4. Dispatching BY <1>3 DEF Dispatching
<1>5. c \in Conns BY <1>1, <1>2, <1>3, <1>4, CursorIs
<1>6. PICK x, y, v : /\ x = SetWork(World, c, NIL) /\ y = SetStatus(x, c, "qsReady")
                     /\ v = SetStatus(y, c, "qsWait") /\ Become(v)
  BY <1>2 DEF ResultDone, CheckNotify, QueryStop
<1>7. Leaves(x, y) /\ Shaped(y) BY <1>6, WorkShaped, StatusLeft DEF Leaves
<1>8. Leaves(x, v) BY <1>6, <1>7, StatusLeft DEF Leaves
<1>9. \A d \in Conns : work'[d] = IF d = c THEN NIL ELSE work[d]
  BY <1>1, <1>5, <1>6, <1>8, WorkGiven
<1>10. fate[work[c]] = "executed" BY <1>2, <1>3 DEF Answering
<1>11. \A q \in Queries : fate[q] = "pending" => (On(q)' <=> On(q))
  BY <1>9, <1>10, Distinct DEF On
<1> QED BY <1>3, <1>11 DEF ServiceStep, Kept, In

\* A connection is freed between two calls, and its query is lost with it.
LEMMA FreedMoves ==
  ASSUME FullInv, FullInv', calls = <<>>, UNCHANGED <<queue, fate, calls>>, NEW b,
         \A c \in Conns : IF c = b THEN work'[c] = NIL ELSE work'[c] = work[c],
         Members(pool') = Members(pool) \ {b}
  PROVE  ServiceStep
<1>1. TypeOK /\ TypeOK' /\ Once /\ Wired(World) BY DEF FullInv, Inv
<1>2. \A c : (Live(c) <=> c \in Members(pool)) /\ (Live(c)' <=> c \in Members(pool'))
  <2>1. DOMAIN pool = 1 .. Len(pool) /\ DOMAIN pool' = 1 .. Len(pool') BY <1>1 DEF TypeOK
  <2> QED BY <2>1 DEF Live, Contains, Members
<1>3. \A q : In(q)' <=> In(q) BY DEF In
<1>4. CASE b \in Conns /\ work[b] # NIL /\ fate[work[b]] = "pending"
  <2>1. PICK p \in Queries : p = work[b] BY <1>1, <1>4 DEF TypeOK
  <2>2. b \in InFlight /\ On(p) BY <1>4, <2>1 DEF InFlight, On
  <2>3. ~On(p)'
    <3> SUFFICES ASSUME NEW d \in Conns, work'[d] = p PROVE FALSE BY DEF On
    <3>1. d # b /\ work[d] = p BY <2>1, Distinct
    <3>2. d \in InFlight BY <2>1, <3>1, Distinct DEF InFlight
    <3> QED BY <1>1, <2>1, <2>2, <3>1, <3>2 DEF Once
  <2>4. ~In(p) BY <1>1, <2>1, <2>2 DEF In, Once
  <2>5. b \in Members(pool) BY <1>1, <1>4 DEF Wired, World
  <2>6. Live(b) /\ ~Live(b)' BY <1>2, <2>5
  <2>7. Moved(p) BY <1>3, <1>4, <2>1, <2>2, <2>3, <2>4, <2>6 DEF Moved, Vanished
  <2>8. \A q \in Queries \ {p} : On(q)' <=> On(q) BY <2>1, Distinct DEF On
  <2> QED BY <1>3, <2>1, <2>7, <2>8 DEF ServiceStep, Kept
<1>5. CASE ~(b \in Conns /\ work[b] # NIL /\ fate[work[b]] = "pending")
  <2>1. \A q \in Queries : fate[q] = "pending" => (On(q)' <=> On(q))
    BY <1>5, Distinct DEF On
  <2> QED BY <1>3, <2>1 DEF ServiceStep, Kept
<1> QED BY <1>4, <1>5

LEMMA ShrinkDeletesMoves ==
  ASSUME FullInv, FullInv', ShrinkDeletes
  PROVE  ServiceStep /\ pc' # "executed"
<1>1. Inv /\ TypeOK /\ Wired(World) /\ Cursor BY DEF FullInv, Inv
<1>2. /\ pc = "shrink" /\ calls = <<>> /\ at > SizeMin /\ Become(Delete(World, pool[at]))
      /\ UNCHANGED <<queue, fate, calls, pc>>
  BY DEF ShrinkDeletes, Running, service
<1>3. pool \in Seq(Conns) /\ Len(pool) \in Nat /\ at \in SizeMin .. Len(pool) /\ SizeMin \in Nat
  BY <1>1, <1>2, SizeAssumption DEF TypeOK, Cursor
<1>4. at \in 1 .. Len(pool) /\ at \in DOMAIN pool BY <1>2, <1>3
<1>5. PICK c \in Conns : c = pool[at] BY <1>3, <1>4
<1>6. c \in Members(pool) BY <1>4, <1>5 DEF Members
<1>7. ObjectsOK BY <1>1 DEF TypeOK, ObjectsOK
<1>8. Become(Delete(World, c)) BY <1>2, <1>5
<1>9. /\ Members(pool') = Members(pool) \ {c} /\ work'[c] = NIL
      /\ \A d \in Conns \ {c} : work'[d] = work[d]
  BY <1>1, <1>6, <1>7, <1>8, GentlyDeleted
<1>10. ServiceStep BY <1>2, <1>9, FreedMoves
<1> QED BY <1>2, <1>10

LEMMA HandlerFreedMoves ==
  ASSUME FullInv, FullInv', PackDeletes \/ Clear
  PROVE  ServiceStep /\ pc' # "executed"
<1>1. Inv /\ TypeOK /\ Cursor BY DEF FullInv, Inv
<1>2. list \in Seq(Handlers) /\ Len(list) \in Nat /\ DOMAIN list = 1 .. Len(list) BY <1>1 DEF TypeOK
<1>3. PICK h \in Members(list) :
        /\ handler[h].binding # DANGLING /\ Become(Destroy(World, h))
        /\ calls = <<>> /\ UNCHANGED <<queue, fate, calls, pc>> /\ pc \in {"pack", "clear"}
  <2>1. CASE PackDeletes
    <3>1. /\ pc = "pack" /\ calls = <<>> /\ at > 0
          /\ handler[list[at]].binding # DANGLING /\ Become(Destroy(World, list[at]))
          /\ UNCHANGED <<queue, fate, calls, pc>>
      BY <2>1 DEF PackDeletes, Packing, Running, service, Bound
    <3>2. at \in Nat /\ at <= Len(list) BY <1>1, <3>1 DEF TypeOK, Cursor
    <3>3. list[at] \in Members(list) BY <1>2, <3>1, <3>2 DEF Members
    <3> QED BY <3>1, <3>3
  <2>2. CASE Clear
    <3>1. /\ pc = "clear" /\ list # <<>> /\ handler[Last(list)].binding # DANGLING
          /\ Become(Destroy(World, Last(list))) /\ UNCHANGED <<queue, fate, calls, pc>>
      BY <2>2 DEF Clear, service, loop
    <3>2. calls = <<>> BY <1>1, <3>1 DEF Cursor
    <3>3. Len(list) \in DOMAIN list BY <1>2, <3>1, EmptySeq
    <3>4. Last(list) \in Members(list) BY <3>3 DEF Members, Last
    <3> QED BY <3>1, <3>2, <3>4
  <2> QED BY <2>1, <2>2
<1>4. PICK b : b = handler[h].binding OBVIOUS
<1>5. /\ \A c \in Conns : IF c = b THEN work'[c] = NIL ELSE work'[c] = work[c]
      /\ Members(pool') = Members(pool) \ {b}
  BY <1>1, <1>3, <1>4, HandlerFreed
<1>6. ServiceStep BY <1>3, <1>5, FreedMoves
<1> QED BY <1>3, <1>6

-----------------------------------------------------------------------------
(* Every step.                                                              *)

\* While a callback runs, the connection of the event keeps its query, and what was told is told.
LEMMA StillAnswering ==
  ASSUME FullInv, Answering, ServiceStep, UNCHANGED <<pc, cur>>,
         pc = "executed" => work'[cur.conn] = work[cur.conn]
  PROVE  Answering'
<1> SUFFICES ASSUME pc = "executed" PROVE Answering' BY DEF Answering
<1>1. TypeOK /\ Cursor BY DEF FullInv, Inv
<1>2. cur.conn \in Conns BY <1>1 DEF Cursor, Dispatching
<1>3. PICK p \in Queries : p = work[cur.conn] BY <1>1, <1>2 DEF Answering, TypeOK
<1>4. fate[p] = "executed" BY <1>3 DEF Answering
<1>5. Kept(p) BY <1>3, <1>4 DEF ServiceStep, Moved, Submitted, Taken, Refused, Answered, Vanished
<1> QED BY <1>3, <1>4, <1>5 DEF Answering, Kept

LEMMA CallbackKeeps ==
  ASSUME FullInv, Answering, ScanStep \/ ConnectStep \/ QueryStep \/ \E q \in Queries : AppStarts(q)
  PROVE  ServiceStep /\ Answering'
<1>1. Inv /\ Cursor BY DEF FullInv, Inv
<1>2. UNCHANGED <<pc, cur>>
  <2>1. CASE ScanStep
    BY <2>1 DEF ScanStep, ScanPasses, ScanCloses, ScanResets, ScanReconnects, ScanEnds, loop
  <2>2. CASE ConnectStep
    BY <2>2 DEF ConnectStep, ConnectStart, PingFails, ConnectStartBad, PollInCall,
                NewConnectionFails, Opens, OpenEnds, loop
  <2>3. CASE QueryStep
    BY <2>3 DEF QueryStep, QueryStart, QueryStartThrows, StartFails, Park, loop
  <2>4. CASE \E q \in Queries : AppStarts(q) BY <2>4 DEF AppStarts, loop
  <2> QED BY <2>1, <2>2, <2>3, <2>4
<1>3. ASSUME pc = "executed"
      PROVE  /\ cur.conn \in Conns
             /\ conn[cur.conn].status # "qsReady" \/ conn[cur.conn].pq = "bad"
             /\ \A i \in DOMAIN calls : calls[i].step = "failing" => calls[i].conn # cur.conn
  BY <1>1, <1>3 DEF Cursor, Dispatching
<1>4. ServiceStep /\ (pc = "executed" => work'[cur.conn] = work[cur.conn])
  <2>1. CASE ScanStep BY <1>3, <2>1, ScanStepMoves
  <2>2. CASE ConnectStep BY <1>3, <2>2, ConnectStepMoves
  <2>3. CASE QueryStart BY <1>3, <2>3, QueryStartMoves
  <2>4. CASE QueryStartThrows BY <1>3, <2>4, QueryStartThrowsMoves
  <2>5. CASE StartFails
    <3>1. calls # <<>> /\ Call.step = "failing" BY <2>5 DEF StartFails, InCall
    <3>2. Call = calls[1] /\ 1 \in DOMAIN calls BY <1>1, <3>1, CallIs
    <3> QED BY <1>3, <2>5, <3>1, <3>2, StartFailsMoves
  <2>6. CASE Park BY <2>6, ParkMoves
  <2>7. CASE \E q \in Queries : AppStarts(q) BY <2>7, AppStartsMoves
  <2> QED BY <2>1, <2>2, <2>3, <2>4, <2>5, <2>6, <2>7 DEF QueryStep
<1> QED BY <1>2, <1>4, StillAnswering

LEMMA StutterMoves ==
  ASSUME FullInv, Answering, UNCHANGED vars
  PROVE  ServiceStep /\ Answering'
<1>1. UNCHANGED <<work, queue, fate, calls, pc, cur>> BY DEF vars, objects, service, loop
<1>2. ServiceStep BY <1>1, LoopLeaves
<1> QED BY <1>1, <1>2 DEF Answering

LEMMA StepMoves ==
  ASSUME FullInv, FullInv', Answering, [Next]_vars
  PROVE  ServiceStep /\ Answering'
<1>1. CASE UNCHANGED vars BY <1>1, StutterMoves
<1>2. CASE ScanStep \/ ConnectStep \/ QueryStep \/ \E q \in Queries : AppStarts(q)
  BY <1>2, CallbackKeeps
<1>3. CASE \E h \in batch, out \in BOOLEAN : ReadResult(h, out)
  BY <1>3, ReadResultMoves
<1>4. CASE Activate \/ Deactivate \/ Wait \/ FollowsDangling
  BY <1>4, ActivateMoves, QuietMoves DEF Answering
<1>5. CASE DispatchStep BY <1>5, QuietMoves, ShrinkDeletesMoves DEF DispatchStep, Answering
<1>6. CASE PackStep BY <1>6, QuietMoves, HandlerFreedMoves DEF PackStep, Answering
<1>7. CASE WriteStep BY <1>7, WriteMoves, WriteStartsMoves, QuietMoves DEF WriteStep, Answering
<1>8. CASE ReadStep
  <2>1. CASE ResultDone BY <2>1, ResultDoneMoves DEF Answering
  <2>2. CASE NotifyDone \/ NotifyThrows \/ Fault BY <2>2, CallbackMoves DEF Answering
  <2>3. CASE \E h \in batch, out \in BOOLEAN :
               ReadPolls(h, out) \/ ReadIgnored(h, out) \/ ReadNotified(h, out) \/ ReadThrows(h, out)
    BY <2>3, ReadMoves DEF Answering
  <2> QED BY <1>3, <1>8, <2>1, <2>2, <2>3 DEF ReadStep
<1> QED BY <1>1, <1>2, <1>4, <1>5, <1>6, <1>7, <1>8 DEF Next, AppStep

-----------------------------------------------------------------------------
(* What the application is promised.                                        *)

LEMMA PlacesAre ==
  TypeOK => /\ \A q \in Queries : On(q) <=> \E c \in InFlight : work[c] = q
            /\ \A q \in Queries : In(q) <=> q \in Waiting \cup Starting
<1> SUFFICES ASSUME TypeOK
             PROVE  /\ \A q \in Queries : On(q) <=> \E c \in InFlight : work[c] = q
                    /\ \A q \in Queries : In(q) <=> q \in Waiting \cup Starting
  OBVIOUS
<1>1. DOMAIN queue = 1 .. Len(queue) /\ DOMAIN calls = 1 .. Len(calls) BY DEF TypeOK
<1>2. \A q \in Queries : On(q) <=> \E c \in InFlight : work[c] = q BY Distinct DEF On, InFlight
<1>3. Waiting = Members(queue) BY <1>1 DEF Waiting, Members
<1>4. \A q \in Queries : q \in Starting <=> \E i \in DOMAIN calls : calls[i].query = q
  BY <1>1, Distinct DEF Starting
<1> QED BY <1>2, <1>3, <1>4 DEF In

LEMMA HeldIs == TypeOK => \A q \in Queries : Held(q) <=> On(q) \/ In(q)
BY PlacesAre DEF Held

LEMMA NotBoth == FullInv => \A q \in Queries : fate[q] = "pending" => ~(On(q) /\ In(q))
<1> SUFFICES ASSUME FullInv, NEW q \in Queries, fate[q] = "pending", On(q) PROVE ~In(q) OBVIOUS
<1>1. Once /\ Told BY DEF FullInv, Inv
<1>2. PICK c \in Conns : work[c] = q BY DEF On
<1>3. c \in InFlight BY <1>2, Distinct DEF InFlight
<1>4. q \notin Members(queue) BY <1>1, <1>2, <1>3 DEF Once
<1>5. ASSUME NEW i \in DOMAIN calls, calls[i].query = q PROVE FALSE
  <2>1. calls[i].step # "failing" BY <1>1, <1>5, Distinct DEF Told
  <2>2. Asked(i, q) BY <1>5, <2>1 DEF Asked
  <2> QED BY <1>1, <1>2, <2>2 DEF Once
<1> QED BY <1>4, <1>5 DEF In

\* The stage of a query follows from what the application was told and where the query is.
LEMMA StageIs ==
  FullInv => \A q \in Queries :
    /\ fate[q] # "pending" => Stage(q) = fate[q]
    /\ fate[q] = "pending" /\ On(q) => Stage(q) = "running"
    /\ fate[q] = "pending" /\ ~On(q) /\ In(q) => Stage(q) = "waiting"
    /\ fate[q] = "pending" /\ ~On(q) /\ ~In(q) => Stage(q) = "lost"
<1> SUFFICES ASSUME FullInv, NEW q \in Queries
             PROVE  /\ fate[q] # "pending" => Stage(q) = fate[q]
                    /\ fate[q] = "pending" /\ On(q) => Stage(q) = "running"
                    /\ fate[q] = "pending" /\ ~On(q) /\ In(q) => Stage(q) = "waiting"
                    /\ fate[q] = "pending" /\ ~On(q) /\ ~In(q) => Stage(q) = "lost"
  OBVIOUS
<1>1. PICK R, W : R = {work[c] : c \in InFlight} /\ W = Waiting \cup Starting OBVIOUS
<1>2. TypeOK BY DEF FullInv, Inv
<1>3. (On(q) <=> q \in R) /\ (In(q) <=> q \in W) BY <1>1, <1>2, PlacesAre
<1>4. fate[q] = "pending" => ~(q \in R /\ q \in W) BY <1>3, NotBoth
<1>5. Stage(q) = CASE fate[q] # "pending" -> fate[q]
                   [] fate[q] = "pending" /\ q \in R -> "running"
                   [] fate[q] = "pending" /\ q \in W -> "waiting"
                   [] OTHER -> "lost"
  <2>1. {work[c] : c \in InFlight} = R /\ Waiting \cup Starting = W BY <1>1
  <2> QED BY <2>1, Zenon DEF Stage
<1> QED BY <1>3, <1>4, <1>5

LEMMA HeldNext == TypeOK' => (\A q \in Queries : Held(q) <=> On(q) \/ In(q))'
BY HeldIs, PTL

LEMMA HeldStep ==
  ASSUME TypeOK, TypeOK', ServiceStep, NEW p \in Queries, fate'[p] = "pending", Held(p), ~Held(p)'
  PROVE  \/ \E c \in InFlight : work[c] = p /\ Live(c) /\ ~Live(c)'
         \/ StopsAnother(p)
<1>1. Held(p) <=> On(p) \/ In(p) BY HeldIs
<1>2. Held(p)' <=> On(p)' \/ In(p)'
  BY HeldNext
<1>3. Kept(p) \/ Moved(p) BY DEF ServiceStep
<1>4. CASE Kept(p) BY <1>1, <1>2, <1>4 DEF Kept
<1>5. CASE Moved(p)
  BY <1>1, <1>2, <1>5 DEF Moved, Submitted, Taken, Refused, Answered, Vanished
<1> QED BY <1>3, <1>4, <1>5

LEMMA StageStep ==
  ASSUME FullInv, FullInv', ServiceStep
  PROVE  Service!Next \/ UNCHANGED [q \in Queries |-> Stage(q)]
<1>1. PICK s : s = [q \in Queries |-> Stage(q)] OBVIOUS
<1>2. PICK t : t = [q \in Queries |-> Stage(q)]' OBVIOUS
<1>3. \A q \in Queries :
        /\ fate[q] # "pending" => s[q] = fate[q]
        /\ fate[q] = "pending" /\ On(q) => s[q] = "running"
        /\ fate[q] = "pending" /\ ~On(q) /\ In(q) => s[q] = "waiting"
        /\ fate[q] = "pending" /\ ~On(q) /\ ~In(q) => s[q] = "lost"
  BY <1>1, StageIs
<1>4. \A q \in Queries :
        /\ fate'[q] # "pending" => t[q] = fate'[q]
        /\ fate'[q] = "pending" /\ On(q)' => t[q] = "running"
        /\ fate'[q] = "pending" /\ ~On(q)' /\ In(q)' => t[q] = "waiting"
        /\ fate'[q] = "pending" /\ ~On(q)' /\ ~In(q)' => t[q] = "lost"
  <2>1. (\A q \in Queries :
           /\ fate[q] # "pending" => Stage(q) = fate[q]
           /\ fate[q] = "pending" /\ On(q) => Stage(q) = "running"
           /\ fate[q] = "pending" /\ ~On(q) /\ In(q) => Stage(q) = "waiting"
           /\ fate[q] = "pending" /\ ~On(q) /\ ~In(q) => Stage(q) = "lost")'
    BY StageIs, PTL
  <2> QED BY <1>2, <2>1
<1>5. \A q \in Queries : Kept(q) => t[q] = s[q] BY <1>3, <1>4 DEF Kept
<1>6. CASE \A q \in Queries : Kept(q)
  <2>1. t = s BY <1>1, <1>2, <1>5, <1>6
  <2> QED BY <1>1, <1>2, <2>1
<1>7. ASSUME NEW p \in Queries, Moved(p), \A q \in Queries \ {p} : Kept(q)
      PROVE  Service!Next
  <2>1. ASSUME NEW from, NEW to, s[p] = from, t[p] = to PROVE Service!Move(p, from, to)
    <3>1. t = [s EXCEPT ![p] = to] BY <1>1, <1>2, <1>5, <1>7, <2>1
    <3> QED BY <1>1, <1>2, <2>1, <3>1 DEF Service!Move
  <2>2. CASE Submitted(p)
    <3>1. s[p] = "new" /\ t[p] = "waiting" BY <1>3, <1>4, <2>2 DEF Submitted
    <3> QED BY <2>1, <3>1 DEF Service!Next, Service!Submit
  <2>3. CASE Taken(p)
    <3>1. s[p] = "waiting" /\ t[p] = "running" BY <1>3, <1>4, <2>3 DEF Taken
    <3> QED BY <2>1, <3>1 DEF Service!Next, Service!Serve
  <2>4. CASE Refused(p)
    <3>1. s[p] = "waiting" /\ t[p] = "failed" BY <1>3, <1>4, <2>4 DEF Refused
    <3> QED BY <2>1, <3>1 DEF Service!Next, Service!Refuse
  <2>5. CASE Answered(p)
    <3>1. s[p] = "running" /\ t[p] = "executed" BY <1>3, <1>4, <2>5 DEF Answered
    <3> QED BY <2>1, <3>1 DEF Service!Next, Service!Answer
  <2>6. CASE Vanished(p)
    <3>1. s[p] = "running" /\ t[p] = "lost" BY <1>3, <1>4, <2>6 DEF Vanished
    <3> QED BY <2>1, <3>1 DEF Service!Next, Service!Lose
  <2> QED BY <1>7, <2>2, <2>3, <2>4, <2>5, <2>6 DEF Moved
<1> QED BY <1>6, <1>7 DEF ServiceStep

LEMMA StageStarts == Init => Service!Init
<1> SUFFICES ASSUME Init PROVE Service!Init OBVIOUS
<1>1. \A q \in Queries : Stage(q) = "new" BY DEF Init, Stage
<1> QED BY <1>1 DEF Service!Init

\* The invariant under which every step comes to at most one query.
LEMMA Answers == SizeMin > 0 /\ Spec => [](FullInv /\ Answering)
<1>1. SUFFICES ASSUME SizeMin > 0 PROVE Spec => [](FullInv /\ Answering) OBVIOUS
<1>2. Init => FullInv /\ Answering BY InitOK DEF FullInv, Answering, Init
<1>3. FullInv /\ Answering /\ [Next]_vars => (FullInv /\ Answering)'
  <2> SUFFICES ASSUME FullInv, Answering, [Next]_vars PROVE FullInv' /\ Answering' OBVIOUS
  <2>1. FullInv' BY <1>1, StepOK DEF FullInv
  <2> QED BY <2>1, StepMoves
<1> QED BY <1>2, <1>3, PTL DEF Spec

\* With a pool that keeps a connection, a query whose outcome the application was not told gets
\* lost only with its connection, or when a start from OnException got the connection of the query
\* that failed: no interleaving of resets, nested starts and freed objects loses one otherwise.
THEOREM LostOnlySo == SizeMin > 0 /\ Spec => LostOnlyWithConnection
<1>1. SUFFICES ASSUME SizeMin > 0 PROVE Spec => LostOnlyWithConnection OBVIOUS
<1>2. Spec => [](FullInv /\ Answering) BY <1>1, Answers
<1>3. FullInv /\ Answering /\ (FullInv /\ Answering)' /\ [Next]_vars =>
        [\A q \in Queries :
           fate'[q] = "pending" /\ Held(q) /\ ~Held(q)' =>
             \/ \E c \in InFlight : work[c] = q /\ Live(c) /\ ~Live(c)'
             \/ StopsAnother(q)]_vars
  BY StepMoves, HeldStep DEF FullInv, Inv
<1> QED BY <1>2, <1>3, PTL DEF Spec, LostOnlyWithConnection

\* With a pool that keeps a connection, CPQPollQuery::Start and its callbacks are a query service:
\* every step of the pool is a step of at most one query, in the order QueryService allows.
THEOREM PoolImplementsService == SizeMin > 0 /\ Spec => ImplementsService
<1>1. SUFFICES ASSUME SizeMin > 0 PROVE Spec => ImplementsService OBVIOUS
<1>2. Spec => [](FullInv /\ Answering) BY <1>1, Answers
<1>3. FullInv /\ Answering /\ (FullInv /\ Answering)' /\ [Next]_vars =>
        [Service!Next]_([q \in Queries |-> Stage(q)])
  BY StepMoves, StageStep
<1> QED BY <1>2, <1>3, StageStarts, PTL DEF Spec, ImplementsService, Service!Spec
=============================================================================
