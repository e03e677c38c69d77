--------------------------- MODULE PQConnectPoll ---------------------------
(***************************************************************************)
(* The PostgreSQL connection pool of libdelphi (src/src/Postgres.cpp):      *)
(* CPQConnection and CPQPollConnection over libpq, CPQPollQuery, and        *)
(* CPQConnectPoll, which owns the connections, the queue of waiting queries *)
(* and a maintenance timer, on the event loop of CEPoll.                    *)
(*                                                                         *)
(* One thread runs everything.  libpq is called without blocking; each of   *)
(* its answers is one step, so a call such as CPQPollQuery::Start, which    *)
(* may reset several connections and open another, is a sequence of steps.  *)
(* Such a call is a frame on `calls': the application may start a query     *)
(* from a callback of another call, and the calls then nest.                *)
(*                                                                         *)
(* Objects are taken from finite sets and reused after they are destroyed;  *)
(* a pointer left behind to a destroyed object becomes DANGLING, and a step *)
(* of the code that follows one ends in pc = "undefined".                   *)
(***************************************************************************)
EXTENDS Integers, Sequences, FiniteSets, SequencesExt

CONSTANTS
  Conns,       \* CPQPollConnection objects
  Handlers,    \* CPollEventHandler objects
  Queries,     \* CPQPollQuery objects, each started by the application once
  Fds,         \* socket numbers
  NIL,         \* nullptr and INVALID_SOCKET
  DANGLING,    \* a pointer to a destroyed object
  TIMER,       \* the CEPollTimer of the pool
  SizeMin,     \* m_SizeMin
  SizeMax,     \* m_SizeMax
  QueueMax,    \* 0x0FFF in CPQPollQuery::Start
  Listening,   \* connections the application issues LISTEN on when they are connected
  AnyFd,       \* whether the rest of the program opens and closes files as well
  Retries,     \* whether the application starts a query from OnException
  MaxFaults    \* bound on what goes wrong in libpq, in the network and in the server

ASSUME SizeAssumption ==
  /\ SizeMin \in Nat /\ SizeMax \in Nat /\ SizeMin <= SizeMax
  /\ IsFiniteSet(Conns) /\ Cardinality(Conns) > SizeMax + Cardinality(Listening)
ASSUME LimitAssumption == QueueMax \in Nat \ {0} /\ MaxFaults \in Nat
ASSUME AppAssumption == Listening \subseteq Conns /\ {AnyFd, Retries} \subseteq BOOLEAN
ASSUME DistinctAssumption ==
  /\ Cardinality({NIL, DANGLING, TIMER}) = 3
  /\ {NIL, DANGLING, TIMER} \cap (Conns \cup Handlers \cup Queries \cup Fds) = {}

VARIABLES
  handler,   \* [Handlers -> [type, socket, binding]]
  list,      \* m_pEventHandlers, in the order of the collection
  conn,      \* [Conns -> connection record]
  pool,      \* m_ConnectManager, in the order of the collection
  epoll,     \* the kernel's interest list: data.ptr registered for a socket
  work,      \* m_WorkQuery of each connection
  queue,     \* m_Queue: the queries waiting for a connection
  fate,      \* what the application was told of each query
  active,    \* m_Active
  timed,     \* m_TimerInterval has been set
  calls,     \* Start and NewConnection calls in progress, the innermost first
  pc,        \* where the loop's thread is when no call is in progress
  batch,     \* handlers of the events returned by epoll_wait and not dispatched yet
  cur,       \* the event being dispatched
  at,        \* index of PackConnections, PackEventHandlers and Clear
  faults     \* how much has gone wrong so far

objects == <<handler, list, conn, pool, epoll, work>>
service == <<queue, fate>>
life == <<active, timed>>
loop == <<pc, batch, cur, at>>
vars == <<objects, service, life, calls, loop, faults>>

-----------------------------------------------------------------------------
(* Types *)

HandlerRec == [type : {"none", "etIO", "etTimer", "etDelete"},
               socket : Fds \cup {NIL},
               binding : Conns \cup {NIL, DANGLING, TIMER}]

Statuses == {"qsConnect", "qsReset", "qsReady", "qsWait", "qsError"}

ConnRec == [status : Statuses,                                   \* m_ConnectionStatus
            pq : {"none", "started", "late", "ok", "bad"},       \* the PGconn
            fd : Fds \cup {NIL},                                 \* PQsocket
            polling : {"writing", "reading", "ok", "failed"},    \* m_PollingStatus
            socket : Fds \cup {NIL},                             \* m_Socket
            handler : Handlers \cup {NIL},                       \* m_pEventHandler
            fresh : BOOLEAN,                 \* m_AntiFreeze was set since epoll_wait returned
            full : BOOLEAN]                  \* it was served while its socket was not writable

\* A call to CPQPollQuery::Start, or CPQConnectPoll::Start's NewConnection when query = NIL.
Frame == [step : {"open", "scan", "start", "poll", "park", "newfail", "failing"},
          query : Queries \cup {NIL},
          conn : Conns \cup {NIL},
          new : BOOLEAN,     \* the connection is being created by NewConnection
          again : BOOLEAN,   \* another poll follows
          at : Nat]

Current == [handler : Handlers \cup {NIL}, conn : Conns \cup {NIL}, out : BOOLEAN,
            saved : Statuses]

NoHandler == [type |-> "none", socket |-> NIL, binding |-> NIL]
Blank == [status |-> "qsConnect", pq |-> "none", fd |-> NIL, polling |-> "writing",
          socket |-> NIL, handler |-> NIL, fresh |-> FALSE, full |-> FALSE]
Idle == [handler |-> NIL, conn |-> NIL, out |-> FALSE, saved |-> "qsConnect"]

TypeOK ==
  /\ handler \in [Handlers -> HandlerRec]
  /\ list \in Seq(Handlers)
  /\ conn \in [Conns -> ConnRec]
  /\ pool \in Seq(Conns)
  /\ epoll \in [Fds -> Handlers \cup {NIL, DANGLING}]
  /\ work \in [Conns -> Queries \cup {NIL}]
  /\ queue \in Seq(Queries)
  /\ fate \in [Queries -> {"new", "pending", "executed", "failed"}]
  /\ active \in BOOLEAN /\ timed \in BOOLEAN
  /\ calls \in Seq(Frame)
  /\ pc \in {"wait", "dispatch", "executed", "notify", "fault", "write", "shrink",
             "pack", "clear", "undefined"}
  /\ batch \subseteq Handlers
  /\ cur \in Current
  /\ at \in Nat
  /\ faults \in 0..MaxFaults

-----------------------------------------------------------------------------
(* The objects as one value, so that the methods below compose.             *)

World == [handler |-> handler, list |-> list, conn |-> conn, pool |-> pool, epoll |-> epoll,
          work |-> work]

Become(w) ==
  /\ handler' = w.handler /\ list' = w.list /\ conn' = w.conn
  /\ pool' = w.pool /\ epoll' = w.epoll /\ work' = w.work

SetConn(w, c, r) == [w EXCEPT !.conn = [@ EXCEPT ![c] = r]]
SetStatus(w, c, v) == SetConn(w, c, [w.conn[c] EXCEPT !.status = v])
SetWork(w, c, q) == [w EXCEPT !.work = [@ EXCEPT ![c] = q]]
SetHandler(w, h, r) == [w EXCEPT !.handler = [@ EXCEPT ![h] = r]]

Live(c) == Contains(pool, c)
FreeConns == {c \in Conns : ~Live(c)}
FreeHandlers == {h \in Handlers : handler[h].type = "none"}
OpenFds == {conn[c].fd : c \in Conns}
           \cup {handler[h].socket : h \in {g \in Handlers : handler[g].binding = TIMER}}

\* Numbers a new socket may get.  Only the files others open and close make it a choice.
FreeFds ==
  LET free == Fds \ OpenFds
  IN IF AnyFd \/ free = {} THEN free ELSE {CHOOSE s \in free : TRUE}

\* Close of a socket: the kernel forgets its registration.
CloseFd(w, s) == IF s = NIL THEN w ELSE [w EXCEPT !.epoll = [@ EXCEPT ![s] = NIL]]

\* CPollEventHandler::Stop.  EPOLL_CTL_DEL goes by the socket number.
Stop(w, h) ==
  LET r == w.handler[h]
      v == SetHandler(w, h, [r EXCEPT !.type = "etDelete"])
  IN IF r.type \in {"etIO", "etTimer"} THEN CloseFd(v, r.socket) ELSE v

\* CPQConnectPoll::NewEventHandler
NewEventHandler(w, c) ==
  LET h == CHOOSE g \in Handlers : w.handler[g].type = "none"
      s == w.conn[c].socket
      v == SetHandler(w, h, [type |-> "etIO", socket |-> s, binding |-> c])
      u == SetConn(v, c, [w.conn[c] EXCEPT !.handler = h])
  IN [u EXCEPT !.list = Append(w.list, h),
               !.epoll = [w.epoll EXCEPT ![s] = IF @ = NIL THEN h ELSE @]]

\* The first handler of that socket, and the last one of the list when none has it.
FindHandlerBySocket(w, s) ==
  LET i == SelectInSeq(w.list, LAMBDA h : w.handler[h].socket = s)
  IN IF i # 0 THEN w.list[i] ELSE IF w.list # <<>> THEN Last(w.list) ELSE NIL

\* CPQConnection::CheckSocket with CPQConnectPoll::OnChangeSocket
CheckSocket(w, c) ==
  LET old == w.conn[c].socket
      v == SetConn(w, c, [w.conn[c] EXCEPT !.socket = w.conn[c].fd])
      h == FindHandlerBySocket(v, old)
  IN CASE w.conn[c].fd = old -> w
       [] w.conn[c].fd # old /\ old = NIL -> NewEventHandler(v, c)
       [] w.conn[c].fd # old /\ old # NIL ->
            IF h = NIL THEN v
            ELSE Stop(SetHandler(v, h, [v.handler[h] EXCEPT !.type = "etNull"]), h)

\* CPQConnection::Disconnect, with Finish and Clear
Disconnect(w, c) ==
  LET r == w.conn[c]
      v == IF r.fd # NIL /\ r.handler # NIL THEN Stop(w, r.handler) ELSE w
  IN IF r.pq = "none" THEN w
     ELSE SetConn(CloseFd(v, r.fd), c,
                  [Blank EXCEPT !.status = r.status, !.handler = r.handler])

\* The handlers when connection c is freed: only those told know.
Unbound(f, c, told) ==
  [h \in Handlers |->
     IF f[h].binding # c THEN f[h]
     ELSE [f[h] EXCEPT !.binding = IF h \in told THEN NIL ELSE DANGLING]]

\* Mutant: the handler is not told.
DeleteUntold(w, c) ==
  LET v == Disconnect(w, c)
  IN [SetWork(SetConn(v, c, Blank), c, NIL) EXCEPT
        !.pool = RemoveFirst(@, c), !.handler = Unbound(@, c, {})]

\* The destructors of a connection.  Only the handler it knows is told, and the query it was
\* working on is left where nobody looks for it.
Delete(w, c) ==
  LET v == Disconnect(w, c)
  IN [SetWork(SetConn(v, c, Blank), c, NIL) EXCEPT
        !.pool = RemoveFirst(@, c), !.handler = Unbound(@, c, {v.conn[c].handler})]

\* What is left of a handler that is freed: the kernel may still have a pointer to it.
Forget(w, h) ==
  [SetHandler(w, h, NoHandler) EXCEPT
     !.list = RemoveFirst(@, h),
     !.epoll = [s \in Fds |-> IF @[s] = h THEN DANGLING ELSE @[s]]]

\* Mutant: the connection is not freed with its handler.
DestroyHandlerOnly(w, h) ==
  LET v == Stop(w, h)
  IN Forget(v, h)

\* ~CPollEventHandler: Stop and ClearBinding.  The binding is followed, so it must not dangle.
Destroy(w, h) ==
  LET b == w.handler[h].binding
      v == Stop(w, h)
      u == CASE b \in Conns -> Delete(v, b)
             [] b = TIMER   -> CloseFd(v, w.handler[h].socket)
             [] OTHER       -> v
  IN Forget(u, h)

-----------------------------------------------------------------------------
(* libpq, as far as the pool can see it.                                    *)

\* It goes on with the socket it has, or closes that and has another one (or none).
Goes(w, c, st) == SetConn(w, c, [w.conn[c] EXCEPT !.pq = st])
Moves(w, c, st, s) ==
  SetConn(CloseFd(w, w.conn[c].fd), c, [w.conn[c] EXCEPT !.pq = st, !.fd = s])

\* A socket closed first leaves its number to the next one.
SocketsFor(c) == (FreeFds \cup {conn[c].fd}) \ {NIL}

Outcome(w, n) == [world |-> w, cost |-> n]

\* m_PollingStatus, and m_AntiFreeze in CheckPollConnection
Polling(w, c, p) ==
  SetConn(w, c, [w.conn[c] EXCEPT !.polling = p, !.fresh = @ \/ p = "writing"])

\* PQconnectPoll and PQresetPoll: what may come of one call.
Polled(w, c) ==
  LET st == w.conn[c].pq
  IN CASE st \in {"none", "bad"} -> {Outcome(Polling(w, c, "failed"), 0)}
       [] st = "ok" -> {Outcome(Polling(w, c, "ok"), 0)}
       [] st \in {"started", "late"} ->
            {Outcome(Polling(Goes(w, c, "late"), c, "reading"), 0),
             Outcome(Polling(Goes(w, c, "ok"), c, "ok"), 0),
             Outcome(Polling(Goes(w, c, "bad"), c, "failed"), 1),
             Outcome(Polling(Moves(w, c, "bad", NIL), c, "failed"), 1)}
            \cup {Outcome(Polling(Moves(w, c, "started", s), c, "writing"), 1) : s \in SocketsFor(c)}
            \cup (IF st = "started" THEN {Outcome(Polling(w, c, "writing"), 0)} ELSE {})

Disturb(n) == faults + n <= MaxFaults /\ faults' = faults + n
Undisturbed == UNCHANGED faults

Failed(w, c) == w.conn[c].polling = "failed"

\* An object for a new event handler, if CheckSocket will need one.
HandlerAtHand(w, c) == w.conn[c].socket # NIL \/ w.conn[c].fd = NIL \/ FreeHandlers # {}

HasListeners(c) == c \in Listening /\ conn[c].polling = "ok"

-----------------------------------------------------------------------------
(* CPQPollQuery::Start                                                      *)

Call == Head(calls)
InCall(step) == calls # <<>> /\ Call.step = step
Goto(f) == calls' = <<f>> \o Tail(calls)
Return == calls' = Tail(calls)

StartFrame(q) ==
  [step |-> "scan", query |-> q, conn |-> NIL, new |-> FALSE, again |-> FALSE, at |-> 1]

\* Mutant: the query is queued after OnException.
StartThrowsAndQueues ==
  /\ Goto([Call EXCEPT !.step = "park", !.conn = NIL])
  /\ fate' = [fate EXCEPT ![Call.query] = "failed"]
  /\ UNCHANGED queue

\* The exception reaches Start's own handler: OnException is told, nothing is freed.
StartThrows ==
  /\ Goto([Call EXCEPT !.step = "failing", !.conn = NIL])
  /\ fate' = [fate EXCEPT ![Call.query] = "failed"]
  /\ UNCHANGED queue

\* An exception in ConnectStart or ConnectPoll: NewConnection catches it.  One in ResetStart
\* or ResetPoll leaves GetReadyConnection.
Throw ==
  IF Call.new
  THEN Goto([Call EXCEPT !.step = "newfail"]) /\ UNCHANGED service
  ELSE StartThrows

\* GetReadyConnection looks at the connections in order.
Visited == pool[Call.at]
Scanning == InCall("scan") /\ Call.at <= Len(pool)
NextConnection == Goto([Call EXCEPT !.step = "scan", !.conn = NIL, !.at = @ + 1])
Connecting(c) == conn[c].status \in {"qsConnect", "qsReset"}
Ready(c) == conn[c].pq = "ok" /\ ~HasListeners(c) /\ conn[c].status = "qsReady"

\* Connected and not ready, still connecting, or connecting for less than ten seconds.
ScanPasses ==
  /\ Scanning
  /\ conn[Visited].pq \in {"ok", "started", "late"} /\ ~Ready(Visited)
  /\ NextConnection
  /\ UNCHANGED <<objects, service, life, loop, faults>>

ScanCloses ==
  /\ Scanning
  /\ conn[Visited].pq = "started" /\ ~conn[Visited].fresh
  /\ Disturb(1)
  /\ Become(Disconnect(World, Visited))
  /\ NextConnection
  /\ UNCHANGED <<service, life, loop>>

Reset(c) == SetStatus(World, c, "qsReset")

\* PQresetStart succeeded.
ScanResets ==
  /\ Scanning
  /\ conn[Visited].pq = "bad"
  /\ \E s \in SocketsFor(Visited) :
       LET w == Moves(Reset(Visited), Visited, "started", s)
       IN HandlerAtHand(w, Visited) /\ Become(CheckSocket(w, Visited))
  /\ Goto([Call EXCEPT !.step = "poll", !.conn = Visited])
  /\ UNCHANGED <<service, life, loop, faults>>

\* It failed, or there is no PGconn: ResetStart connects anew, and then polls twice.
ScanReconnects ==
  /\ Scanning
  /\ conn[Visited].pq \in {"none", "bad"}
  /\ IF conn[Visited].pq = "none" \/ SocketsFor(Visited) = {} THEN Undisturbed ELSE Disturb(1)
  /\ Become(IF conn[Visited].pq = "none" THEN Reset(Visited)
            ELSE Moves(Reset(Visited), Visited, "bad", NIL))
  /\ Goto([Call EXCEPT !.step = "start", !.conn = Visited, !.again = TRUE])
  /\ UNCHANGED <<service, life, loop>>

\* No connection is ready: NewConnection, unless there are more than sizeMax already.
Create(f) ==
  LET c == CHOOSE d \in FreeConns : TRUE
  IN /\ pool' = Append(pool, c)
     /\ Goto([f EXCEPT !.step = "start", !.conn = c, !.new = TRUE])
     /\ UNCHANGED <<handler, list, conn, epoll, work>>

Listeners == {c \in Conns : Live(c) /\ conn[c].pq = "ok" /\ HasListeners(c)}

ScanEnds ==
  /\ InCall("scan") /\ Call.at > Len(pool)
  /\ IF Len(pool) <= SizeMax + Cardinality(Listeners)
     THEN Create(Call)
     ELSE Goto([Call EXCEPT !.step = "park"]) /\ UNCHANGED objects
  /\ UNCHANGED <<service, life, loop, faults>>

\* ConnectStart: PQconnectStart, CheckPollConnection, CheckSocket.
ConnectStart ==
  LET c == Call.conn
  IN /\ InCall("start")
     /\ \E s \in FreeFds :
          LET w == SetConn(World, c, [conn[c] EXCEPT !.pq = "started", !.fd = s])
              v == Polling(w, c, conn[c].polling)
          IN IF Failed(w, c)
             THEN Become(w) /\ Throw
             ELSE /\ HandlerAtHand(v, c)
                  /\ Become(CheckSocket(v, c))
                  /\ Goto([Call EXCEPT !.step = "poll"])
                  /\ UNCHANGED service
     /\ UNCHANGED <<life, loop, faults>>

\* NewConnection: the server does not answer the pings.
PingFails ==
  /\ InCall("start") /\ Call.new
  /\ Disturb(1)
  /\ Throw
  /\ UNCHANGED <<objects, life, loop>>

\* The new PGconn is bad.  Only PQsetnonblocking in CheckSocket notices that here.
ConnectStartBad ==
  LET c == Call.conn
  IN /\ InCall("start")
     /\ IF FreeFds = {} \/ FreeHandlers = {} THEN Undisturbed ELSE Disturb(1)
     /\ \E s \in FreeFds \cup {NIL} :
          LET w == SetConn(World, c, [conn[c] EXCEPT !.pq = "bad", !.fd = s])
          IN IF Failed(w, c) \/ (s # NIL /\ s # conn[c].socket)
             THEN /\ Become(IF Failed(w, c) THEN w
                            ELSE SetConn(w, c, [w.conn[c] EXCEPT !.socket = s]))
                  /\ Throw
             ELSE /\ Become(CheckSocket(w, c))
                  /\ Goto([Call EXCEPT !.step = "poll"])
                  /\ UNCHANGED service
     /\ UNCHANGED <<life, loop>>

\* ConnectPoll or ResetPoll succeeded: GetReadyConnection goes on, or NewConnection returns.
PollSucceeded ==
  CASE Call.again -> Goto([Call EXCEPT !.again = FALSE])
    [] ~Call.again /\ ~Call.new -> NextConnection
    [] ~Call.again /\ Call.new ->
         Goto([Call EXCEPT !.step = IF Call.query = NIL THEN "open" ELSE "park",
                           !.conn = NIL, !.new = FALSE])

PollInCall ==
  LET c == Call.conn
  IN /\ InCall("poll")
     /\ \E o \in Polled(World, c) :
          /\ Disturb(o.cost)
          /\ IF Failed(o.world, c)
             THEN Become(o.world) /\ Throw
             ELSE /\ HandlerAtHand(o.world, c)
                  /\ Become(CheckSocket(o.world, c))
                  /\ PollSucceeded
                  /\ UNCHANGED service
     /\ UNCHANGED <<life, loop>>

\* After OnConnectException: delete pConnection.
NewConnectionFails ==
  /\ InCall("newfail")
  /\ Become(Delete(World, Call.conn))
  /\ IF Call.query = NIL
     THEN /\ Goto([Call EXCEPT !.step = "open", !.conn = NIL, !.new = FALSE, !.at = SizeMin])
          /\ UNCHANGED service
     ELSE StartThrows
  /\ UNCHANGED <<life, loop, faults>>

\* CQueue::Count() counts the queues in it, one for each pool that has something queued.
QueueCount == IF queue = <<>> THEN 0 ELSE 1

\* Mutant: AddToQueue is left out.
ParkForgets ==
  /\ InCall("park")
  /\ Return
  /\ UNCHANGED <<objects, service, life, loop, faults>>

Park ==
  /\ InCall("park")
  /\ IF QueueCount = QueueMax
     THEN StartThrows
     ELSE /\ queue' = Append(queue, Call.query)
          /\ Return
          /\ UNCHANGED fate
  /\ UNCHANGED <<objects, life, loop, faults>>

\* QueryStart: PQsendQuery, then PQflush.
QueryStart ==
  /\ Scanning /\ Ready(Visited)
  /\ Become(SetStatus(SetWork(World, Visited, Call.query), Visited, "qsWait"))
  /\ Return
  /\ UNCHANGED <<service, life, loop, faults>>

\* One of them failed, with or without the loss of the connection.
QueryStartThrows ==
  LET c == Visited
  IN /\ Scanning /\ Ready(c)
     /\ Disturb(1)
     /\ fate' = [fate EXCEPT ![Call.query] = "failed"]
     /\ \E v \in {"qsReady", "qsWait"} :
          LET w == SetStatus(SetWork(World, c, Call.query), c, v)
          IN Become(w) \/ Become(Moves(w, c, "bad", NIL))
     /\ Goto([Call EXCEPT !.step = "failing", !.conn = c])
     /\ UNCHANGED <<queue, life, loop>>

\* CPQPollConnection::QueryStop frees the query the connection has by now.
QueryStop(w, c) == SetStatus(SetWork(w, c, NIL), c, "qsReady")

\* After OnException: QueryStop, if the exception came from QueryStart.
StartFails ==
  /\ InCall("failing")
  /\ IF Call.conn = NIL
     THEN UNCHANGED objects
     ELSE Become(QueryStop(World, Call.conn))
  /\ Return
  /\ UNCHANGED <<service, life, loop, faults>>

-----------------------------------------------------------------------------
(* The application                                                          *)

\* It runs between two calls of Wait, in OnPollExecuted, in OnNotify, in OnConnectException
\* and, with Retries, in OnException.
AppRuns ==
  \/ calls = <<>> /\ pc \in {"wait", "executed", "notify", "fault"}
  \/ InCall("newfail")
  \/ InCall("failing") /\ Retries

AppStarts(q) ==
  /\ AppRuns /\ fate[q] = "new"
  /\ fate' = [fate EXCEPT ![q] = "pending"]
  /\ calls' = <<StartFrame(q)>> \o calls
  /\ UNCHANGED <<objects, queue, life, loop, faults>>

\* CPQConnectPoll::SetActive and Start: NewConnection until there are SizeMin or one fails.
Activate ==
  /\ pc = "wait" /\ calls = <<>> /\ ~active
  /\ Cardinality(FreeConns) >= SizeMin
  /\ active' = TRUE
  /\ calls' = <<[StartFrame(NIL) EXCEPT !.step = "open", !.at = 0]>>
  /\ UNCHANGED <<objects, service, timed, loop, faults>>

Opens ==
  /\ InCall("open") /\ Call.at < SizeMin
  /\ Create([Call EXCEPT !.at = @ + 1])
  /\ UNCHANGED <<service, life, loop, faults>>

\* SetTimerInterval: the timer is made once, the interval never changes again.
OpenEnds ==
  /\ InCall("open") /\ Call.at = SizeMin
  /\ timed' = TRUE
  /\ IF timed \/ FreeFds = {} \/ FreeHandlers = {}
     THEN UNCHANGED objects
     ELSE LET h == CHOOSE g \in FreeHandlers : TRUE
          IN \E s \in FreeFds :
               /\ handler' = [handler EXCEPT ![h] = [type |-> "etTimer", socket |-> s, binding |-> TIMER]]
               /\ list' = Append(list, h)
               /\ epoll' = [epoll EXCEPT ![s] = IF @ = NIL THEN h ELSE @]
               /\ UNCHANGED <<conn, pool, work>>
  /\ Return
  /\ UNCHANGED <<service, active, loop, faults>>

\* StopAll: m_pEventHandlers->Clear().
Deactivate ==
  /\ pc = "wait" /\ calls = <<>> /\ active
  /\ active' = FALSE
  /\ pc' = "clear"
  /\ UNCHANGED <<objects, service, timed, calls, batch, cur, at, faults>>

Clear ==
  /\ pc = "clear" /\ list # <<>> /\ handler[Last(list)].binding # DANGLING
  /\ Become(Destroy(World, Last(list)))
  /\ UNCHANGED <<service, life, calls, loop, faults>>

ClearEnds ==
  /\ pc = "clear" /\ list = <<>>
  /\ pc' = "wait"
  /\ UNCHANGED <<objects, service, life, calls, batch, cur, at, faults>>

-----------------------------------------------------------------------------
(* CEPoll::Wait and the pool's handlers of its events                       *)

Running(p) == pc = p /\ calls = <<>>

\* Time passes; PackEventHandlers follows at once when there is no event.
Wait ==
  /\ Running("wait")
  /\ \E ready \in SUBSET {s \in Fds : epoll[s] \in Handlers} : batch' = {epoll[s] : s \in ready}
  /\ conn' = [c \in Conns |-> [conn[c] EXCEPT !.fresh = FALSE]]
  /\ pc' = "dispatch"
  /\ UNCHANGED <<handler, list, pool, epoll, work, service, life, calls, cur, at, faults>>

Take(h) == Running("dispatch") /\ h \in batch /\ batch' = batch \ {h}

\* The handler was stopped meanwhile, or its connection is gone: chASSERT(pConnection).
DispatchNothing(h) ==
  /\ Take(h)
  /\ handler[h].binding # DANGLING
  /\ handler[h].type = "etDelete" \/ (handler[h].type = "etIO" /\ handler[h].binding = NIL)
  /\ UNCHANGED <<objects, service, life, calls, pc, cur, at, faults>>

\* DoTimer, PackConnections
DispatchTimer(h) ==
  /\ Take(h) /\ handler[h].type = "etTimer"
  /\ IF Len(pool) > SizeMin THEN pc' = "shrink" /\ at' = Len(pool) ELSE UNCHANGED <<pc, at>>
  /\ UNCHANGED <<objects, service, life, calls, cur, faults>>

Unneeded(c) == ~HasListeners(c) /\ conn[c].status # "qsWait" /\ ~conn[c].fresh

ShrinkKeeps ==
  /\ Running("shrink") /\ at > SizeMin
  /\ at' = at - 1
  /\ UNCHANGED <<objects, service, life, calls, pc, batch, cur, faults>>

\* Unused for half an hour; one that is still connecting has been let down by the server.
ShrinkDeletes ==
  /\ Running("shrink") /\ at > SizeMin /\ Unneeded(pool[at])
  /\ IF Connecting(pool[at]) THEN Disturb(1) ELSE Undisturbed
  /\ Become(Delete(World, pool[at]))
  /\ at' = at - 1
  /\ UNCHANGED <<service, life, calls, pc, batch, cur>>

ShrinkEnds ==
  /\ Running("shrink") /\ at = SizeMin /\ SizeMin > 0
  /\ pc' = "dispatch" /\ at' = 0
  /\ UNCHANGED <<objects, service, life, calls, batch, cur, faults>>

\* i >= m_SizeMin compares unsigned: with m_SizeMin = 0 the loop goes on to item -1, and the
\* exception leaves Wait, with the rest of the events.
ShrinkThrows ==
  /\ Running("shrink") /\ at = 0
  /\ pc' = "wait" /\ batch' = {}
  /\ UNCHANGED <<objects, service, life, calls, cur, at, faults>>

Event(h, c, out, v) == [handler |-> h, conn |-> c, out |-> out, saved |-> v]

Stopped(w, h) == w.handler[h].type = "etDelete"

\* Where Wait goes on after DoRead: DoWrite, if the event was writable and the handler runs.
AfterRead(w, e) ==
  IF e.out /\ ~Stopped(w, e.handler)
  THEN pc' = "write" /\ cur' = e
  ELSE pc' = "dispatch" /\ cur' = Idle

Touched(w, c) == SetConn(w, c, [w.conn[c] EXCEPT !.fresh = TRUE, !.full = FALSE])

\* Up to a callback, in which the rest of the event waits.
Callback(p, e) == pc' = p /\ cur' = e

Bound(h) == handler[h].binding

Reads(h) ==
  /\ Take(h) /\ handler[h].type = "etIO" /\ Bound(h) \in Conns
  /\ UNCHANGED <<queue, life, calls, at>>

Consumable(c) == conn[c].pq \in {"started", "late", "ok"}

\* DoRead of a connection that is being made
ReadPolls(h, out) ==
  LET c == Bound(h)
      e == Event(h, c, out, conn[c].status)
  IN /\ Reads(h) /\ Connecting(c)
     /\ \E o \in Polled(World, c) :
          /\ Disturb(o.cost)
          /\ IF Failed(o.world, c)
             THEN Become(o.world) /\ Callback("fault", e)
             ELSE LET w == Touched(CheckSocket(o.world, c), c)
                  IN HandlerAtHand(o.world, c) /\ Become(w) /\ AfterRead(w, e)
     /\ UNCHANGED fate

\* qsError, or input while the query is not flushed yet
ReadIgnored(h, out) ==
  LET c == Bound(h)
      w == Touched(World, c)
  IN /\ Reads(h)
     /\ conn[c].status = "qsError" \/ (conn[c].status = "qsWait" /\ Consumable(c))
     /\ Become(w) /\ AfterRead(w, Event(h, c, out, conn[c].status))
     /\ UNCHANGED <<fate, faults>>

\* CheckNotify: the connection is kept from being taken for a query meanwhile.
CheckNotify(w, c) == SetStatus(w, c, "qsWait")

ReadNotified(h, out) ==
  LET c == Bound(h)
  IN /\ Reads(h) /\ Consumable(c)
     /\ conn[c].status = "qsReady" \/ (conn[c].status = "qsWait" /\ work[c] = NIL)
     /\ Become(CheckNotify(World, c))
     /\ Callback("notify", Event(h, c, out, conn[c].status))
     /\ UNCHANGED <<fate, faults>>

\* ConsumeInput or Flush throws.
ReadThrows(h, out) ==
  LET c == Bound(h)
  IN /\ Reads(h) /\ conn[c].status \in {"qsReady", "qsWait"}
     /\ IF Consumable(c) THEN Disturb(1) ELSE Undisturbed
     /\ Become(Moves(World, c, "bad", NIL))
     /\ Callback("fault", Event(h, c, out, conn[c].status))
     /\ UNCHANGED fate

\* CheckResult up to OnPollExecuted; the last result may be that the connection is lost.
ReadResult(h, out) ==
  LET c == Bound(h)
  IN /\ Reads(h) /\ Consumable(c)
     /\ conn[c].status = "qsWait" /\ work[c] # NIL
     /\ fate' = [fate EXCEPT ![work[c]] = "executed"]
     /\ \/ Undisturbed /\ UNCHANGED objects
        \/ Disturb(1) /\ Become(Moves(World, c, "bad", NIL))
     /\ Callback("executed", Event(h, c, out, "qsReady"))

\* QueryStop, then CheckNotify
ResultDone ==
  /\ Running("executed")
  /\ Become(CheckNotify(QueryStop(World, cur.conn), cur.conn))
  /\ pc' = IF Consumable(cur.conn) THEN "notify" ELSE "fault"
  /\ UNCHANGED <<service, life, calls, batch, cur, at, faults>>

NotifyDone ==
  LET r == [conn[cur.conn] EXCEPT !.status = cur.saved, !.fresh = TRUE, !.full = ~cur.out]
      w == SetConn(World, cur.conn, r)
  IN /\ Running("notify")
     /\ Become(w) /\ AfterRead(w, cur)
     /\ UNCHANGED <<service, life, calls, batch, at, faults>>

\* ConsumeInput throws after a notification.
NotifyThrows ==
  /\ Running("notify")
  /\ Disturb(1)
  /\ Become(Moves(World, cur.conn, "bad", NIL)) /\ pc' = "fault"
  /\ UNCHANGED <<service, life, calls, batch, cur, at>>

\* After OnConnectException: qsError and CPollEventHandler::Fault.
Fault ==
  LET w == SetStatus(World, cur.conn, "qsError")
  IN /\ Running("fault")
     /\ Become(SetHandler(w, cur.handler, [w.handler[cur.handler] EXCEPT !.type = "etDelete", !.socket = NIL]))
     /\ pc' = "dispatch" /\ cur' = Idle
     /\ UNCHANGED <<service, life, calls, batch, at, faults>>

\* The event is writable only.
DispatchWrite(h) ==
  /\ Reads(h)
  /\ Become(SetConn(World, Bound(h), [conn[Bound(h)] EXCEPT !.full = FALSE]))
  /\ Callback("write", Event(h, Bound(h), FALSE, conn[Bound(h)].status))
  /\ UNCHANGED <<fate, faults>>

\* Mutant: the query stays in the queue.
CheckQueueKeeps ==
  IF queue = <<>> THEN UNCHANGED <<queue, calls>>
  ELSE queue' = queue /\ calls' = <<StartFrame(Head(queue))>>

\* CheckQueue: one waiting query is started over.
CheckQueue ==
  IF queue = <<>> THEN UNCHANGED <<queue, calls>>
  ELSE queue' = Tail(queue) /\ calls' = <<StartFrame(Head(queue))>>

\* Mutant: a connection that has just been made does not look at the queue.
WriteStartsReadyOnly ==
  LET c == cur.conn
  IN /\ Running("write")
     /\ conn[c].status = "qsReady" \/ (Connecting(c) /\ conn[c].pq = "ok")
     /\ Become(SetStatus(World, c, "qsReady"))
     /\ IF Connecting(c) THEN UNCHANGED <<queue, calls>> ELSE CheckQueue
     /\ pc' = "dispatch" /\ cur' = Idle
     /\ UNCHANGED <<fate, life, batch, at, faults>>

\* DoWrite of a connection that has just been made, or is ready
WriteStarts ==
  LET c == cur.conn
  IN /\ Running("write")
     /\ conn[c].status = "qsReady" \/ (Connecting(c) /\ conn[c].pq = "ok")
     /\ Become(SetStatus(World, c, "qsReady"))
     /\ CheckQueue
     /\ pc' = "dispatch" /\ cur' = Idle
     /\ UNCHANGED <<fate, life, batch, at, faults>>

WritePolls ==
  LET c == cur.conn
  IN /\ Running("write") /\ Connecting(c) /\ conn[c].pq # "ok"
     /\ \E o \in Polled(World, c) :
          /\ Disturb(o.cost)
          /\ IF Failed(o.world, c)
             THEN Become(o.world) /\ Callback("fault", cur)
             ELSE /\ HandlerAtHand(o.world, c) /\ Become(CheckSocket(o.world, c))
                  /\ pc' = "dispatch" /\ cur' = Idle
     /\ UNCHANGED <<service, life, calls, batch, at>>

WriteIgnored ==
  /\ Running("write") /\ conn[cur.conn].status \in {"qsWait", "qsError"}
  /\ pc' = "dispatch" /\ cur' = Idle
  /\ UNCHANGED <<objects, service, life, calls, batch, at, faults>>

EndOfBatch ==
  /\ Running("dispatch") /\ batch = {}
  /\ pc' = "pack" /\ at' = Len(list)
  /\ UNCHANGED <<objects, service, life, calls, batch, cur, faults>>

\* PackEventHandlers.  The connections have no time-out.
Packing(stops) == Running("pack") /\ at > 0 /\ Stopped(World, list[at]) = stops

PackKeeps ==
  /\ Packing(FALSE)
  /\ at' = at - 1
  /\ UNCHANGED <<objects, service, life, calls, pc, batch, cur, faults>>

PackDeletes ==
  /\ Packing(TRUE) /\ Bound(list[at]) # DANGLING
  /\ Become(Destroy(World, list[at]))
  /\ at' = at - 1
  /\ UNCHANGED <<service, life, calls, pc, batch, cur, faults>>

\* SetTimeStamp follows the binding whatever the handler's type, the destructor follows it too.
Followed(h) ==
  CASE pc = "dispatch" -> h \in batch
    [] pc = "pack"     -> at > 0 /\ h = list[at] /\ Stopped(World, h)
    [] pc = "clear"    -> list # <<>> /\ h = Last(list)
    [] OTHER           -> FALSE

FollowsDangling ==
  /\ calls = <<>>
  /\ \E h \in Handlers : Followed(h) /\ Bound(h) = DANGLING
  /\ pc' = "undefined"
  /\ UNCHANGED <<objects, service, life, calls, batch, cur, at, faults>>

PackEnds ==
  /\ Running("pack") /\ at = 0
  /\ pc' = "wait"
  /\ UNCHANGED <<objects, service, life, calls, batch, cur, at, faults>>

-----------------------------------------------------------------------------
Init ==
  /\ handler = [h \in Handlers |-> NoHandler] /\ list = <<>>
  /\ conn = [c \in Conns |-> Blank] /\ pool = <<>>
  /\ epoll = [s \in Fds |-> NIL]
  /\ work = [c \in Conns |-> NIL] /\ queue = <<>> /\ fate = [q \in Queries |-> "new"]
  /\ active = FALSE /\ timed = FALSE
  /\ calls = <<>> /\ pc = "wait" /\ batch = {} /\ cur = Idle /\ at = 0 /\ faults = 0

AppStep == Activate \/ Deactivate \/ \E q \in Queries : AppStarts(q)

ScanStep == ScanPasses \/ ScanCloses \/ ScanResets \/ ScanReconnects \/ ScanEnds

ConnectStep ==
  \/ ConnectStart \/ PingFails \/ ConnectStartBad \/ PollInCall \/ NewConnectionFails
  \/ Opens \/ OpenEnds

QueryStep == QueryStart \/ QueryStartThrows \/ StartFails \/ Park

ReadStep ==
  \/ \E h \in batch, out \in BOOLEAN :
       \/ ReadPolls(h, out) \/ ReadIgnored(h, out) \/ ReadNotified(h, out)
       \/ ReadThrows(h, out) \/ ReadResult(h, out)
  \/ ResultDone \/ NotifyDone \/ NotifyThrows \/ Fault

WriteStep == (\E h \in batch : DispatchWrite(h)) \/ WriteStarts \/ WritePolls \/ WriteIgnored

DispatchStep ==
  \/ \E h \in batch : DispatchNothing(h) \/ DispatchTimer(h)
  \/ ShrinkKeeps \/ ShrinkDeletes \/ ShrinkEnds \/ ShrinkThrows
  \/ EndOfBatch

PackStep == PackKeeps \/ PackDeletes \/ PackEnds \/ Clear \/ ClearEnds

Next ==
  \/ AppStep \/ ScanStep \/ ConnectStep \/ QueryStep \/ Wait
  \/ ReadStep \/ WriteStep \/ DispatchStep \/ PackStep \/ FollowsDangling

Spec == Init /\ [][Next]_vars

\* Everything the thread does by itself once Wait has returned or the application has called.
ThreadStep ==
  ScanStep \/ ConnectStep \/ QueryStep \/ ReadStep \/ WriteStep \/ DispatchStep \/ PackStep

\* The server still owes something on this connection, or the kernel does: that its socket is
\* writable again.
Owed(c) ==
  conn[c].handler # NIL /\ (conn[c].status \in {"qsConnect", "qsReset", "qsWait"} \/ conn[c].full)

Reported(c) == Wait /\ Owed(c) /\ conn[c].handler \in batch'

\* The handshake is finished, the query is answered, or the socket is found writable.
Advances(c) ==
  LET h == conn[c].handler
  IN \/ \E out \in BOOLEAN : ReadResult(h, out)
     \/ ReadPolls(h, TRUE) /\ conn'[c].pq = "ok"
     \/ conn[c].full /\ DispatchWrite(h)

\* The thread goes on, the application polls, the server and the kernel do what they owe.
FairSpec ==
  /\ Spec /\ WF_vars(ThreadStep) /\ WF_vars(Wait)
  /\ \A c \in Conns : SF_vars(Reported(c)) /\ SF_vars(Advances(c))

-----------------------------------------------------------------------------
(* Safety *)

InFlight == {c \in Conns : work[c] # NIL}
Waiting == {queue[i] : i \in 1..Len(queue)}
Starting == {calls[i].query : i \in 1..Len(calls)} \ {NIL}
Held(q) == q \in Waiting \cup Starting \/ \E c \in InFlight : work[c] = q

\* A query is in one place: queued once, or on one connection.  CheckQueue starts queries over
\* and Start may queue them again, also from callbacks of one another.
OnePlace ==
  /\ Cardinality(Waiting) = Len(queue)
  /\ \A c \in InFlight : work[c] \notin Waiting
  /\ \A c, d \in InFlight : work[c] = work[d] => c = d

\* A connection that GetReadyConnection would take for the next query works on none, but in the
\* window between the failure of QueryStart and its QueryStop.
ReadyIsIdle ==
  \A c \in InFlight : conn[c].status = "qsReady" =>
    \E i \in 1..Len(calls) : calls[i].step = "failing" /\ calls[i].conn = c

\* qsWait without a query lasts only while CheckNotify runs: a connection is not kept from work
\* for ever by a notification or by an answer that was taken.
WaitHasWork ==
  \A c \in Conns \ InFlight : conn[c].status = "qsWait" =>
    pc \in {"notify", "fault"} /\ cur.conn = c

\* A connection's handler serves it: resets and new sockets never leave it with the handler of
\* another connection (CheckSocket, OnChangeSocket, NewEventHandler).
BackPointer ==
  \A c \in Conns : conn[c].handler # NIL => handler[conn[c].handler].binding = c

\* The kernel never holds a pointer to a destroyed handler, although libpq closes sockets and
\* opens others on the same number behind the loop's back.
KernelLive == \A s \in Fds : epoll[s] # DANGLING

\* Between two passes a ready connection is watched by its own handler, under its own socket.
ReadyIsWatched ==
  pc = "wait" /\ calls = <<>> =>
    \A c \in Conns : conn[c].status = "qsReady" /\ conn[c].pq = "ok" =>
      conn[c].handler # NIL /\ epoll[conn[c].fd] = conn[c].handler

\* Without faults of libpq or the network no pointer to a destroyed connection is followed, and a
\* connection that could take a query gets the event that makes it take one.
NothingDangles ==
  /\ pc # "undefined" /\ \A h \in Handlers : handler[h].binding # DANGLING
  /\ ReadyIsWatched

\* What the pool knows of its queries agrees with what its connections do, through nested starts.
PoolAgrees == TypeOK /\ OnePlace /\ ReadyIsIdle

\* Whatever fails, the loop keeps serving every connection by its own handler.
LoopAgrees == WaitHasWork /\ BackPointer /\ KernelLive

-----------------------------------------------------------------------------
(* What a step may never do *)

\* OnException told its caller that the query failed and the application started another, which
\* got the same connection: QueryStop then frees that one.
StopsAnother(q) == InCall("failing") /\ Call.conn # NIL /\ work[Call.conn] = q /\ Call.query # q

\* A query whose outcome the application was not told gets lost only with its connection, or
\* when a start from OnException got the connection of the one that failed.
LostOnlyWithConnection ==
  [][\A q \in Queries :
       fate'[q] = "pending" /\ Held(q) /\ ~Held(q)' =>
         \/ \E c \in InFlight : work[c] = q /\ Live(c) /\ ~Live(c)'
         \/ StopsAnother(q)]_vars

\* As the application sees it: a query is waiting, running, answered, refused or lost.
Stage(q) ==
  CASE fate[q] # "pending" -> fate[q]
    [] fate[q] = "pending" /\ q \in {work[c] : c \in InFlight} -> "running"
    [] fate[q] = "pending" /\ q \in Waiting \cup Starting -> "waiting"
    [] OTHER -> "lost"

Service == INSTANCE QueryService WITH stage <- [q \in Queries |-> Stage(q)]

\* The pool is a query service: a query runs at most once and is told its outcome at most once,
\* by OnPollExecuted after it ran or by OnException before; none is lost before it ran.
ImplementsService == Service!Spec

-----------------------------------------------------------------------------
(* Liveness, when nothing goes wrong *)

\* An active pool answers every query, unless it is deactivated: the queue drains though only a
\* writable connection takes one query from it, and starts it over (CheckQueue).
Served ==
  \A q \in Queries :
    active /\ Held(q) ~> fate[q] \in {"executed", "failed"} \/ ~active

=============================================================================
