----------------------------- MODULE EventPoll -----------------------------
(***************************************************************************)
(* The epoll event loop of libdelphi (src/src/Sockets.cpp): CEPoll::Wait,   *)
(* CPollEventHandler, CPollConnection and the two owners of connections     *)
(* that ship with the loop, CTCPAsyncServer and CTCPAsyncClient.            *)
(*                                                                         *)
(* One thread runs the loop.  Wait collects a batch of events, each holding *)
(* a raw pointer to a handler, dispatches them one after the other, and     *)
(* then packs: handlers stopped meanwhile are destroyed together with the   *)
(* connections bound to them.  Everything the application does happens in   *)
(* callbacks inside a dispatch, or between two calls of Wait.               *)
(*                                                                         *)
(* Objects are never reused: an id is "unborn", then live, then "freed", so *)
(* a use of a destroyed object is a use of a freed id.  A step of the code  *)
(* that follows a pointer to a destroyed object ends in pc = "undefined".   *)
(***************************************************************************)
EXTENDS Integers, FiniteSets

CONSTANTS
  Handlers,     \* identities of CPollEventHandler objects
  Conns,        \* identities of CTCPConnection objects
  Fds,          \* socket numbers the kernel hands out
  NIL,          \* nullptr and INVALID_SOCKET
  PollTimeOut,  \* CPollStack::m_TimeOut, milliseconds; INFINITE is -1
  MaxLock,      \* bound on the nesting of CPollConnection::Lock
  EventSize     \* CPollStack::m_EventSize, the capacity of one batch

INFINITE == -1

ASSUME NilAssumption == NIL \notin Handlers \cup Conns \cup Fds
ASSUME TimeOutAssumption == PollTimeOut \in Int /\ PollTimeOut >= INFINITE
ASSUME BoundAssumption == MaxLock \in Nat /\ EventSize \in Nat \ {0}

VARIABLES
  handler,   \* [Handlers -> [type, socket, binding]]
  conn,      \* [Conns -> connection record]
  epoll,     \* the kernel's interest list: data.ptr registered for a socket
  level,     \* CAsyncServer::m_ActiveLevel
  listenFd,  \* the listening socket of the server
  lost,      \* sockets left open with no owner (a connect that threw)
  pc,        \* where the loop's thread is
  batch,     \* events returned by epoll_wait and not dispatched yet
  cb,        \* the callback in progress
  toPack     \* handlers PackEventHandlers still has to visit

objects == <<handler, conn, epoll>>
server == <<level, listenFd, lost>>
loop == <<pc, batch, cb, toPack>>
vars == <<handler, conn, epoll, level, listenFd, lost, pc, batch, cb, toPack>>

-----------------------------------------------------------------------------
(* Types *)

EventTypes == {"etNull", "etAccept", "etConnect", "etIO", "etDelete"}
Active == {"etAccept", "etConnect", "etIO"}
Levels == {"alShutDown", "alBinding", "alActive"}

HandlerRec == [type : EventTypes \cup {"unborn", "freed"},
               socket : Fds \cup {NIL},
               binding : Conns \cup {NIL}]

ConnRec == [state : {"unborn", "live", "freed"},
            kind : {"server", "client"},
            handler : Handlers \cup {NIL},
            io : {"none", "open", "closed"},   \* m_pIOHandler and its socket
            fd : Fds \cup {NIL},
            graceful : BOOLEAN,                \* m_ClosedGracefully
            lock : 0..MaxLock,                 \* m_Lock
            autoFree : BOOLEAN,                \* m_AutoFree
            timeout : {"zero", "fresh", "stale", "infinite"}]

Event == [handler : Handlers, from : Conns \cup {NIL}]

Callback == [kind : {"none", "accept", "connect", "read"},
             handler : Handlers \cup {NIL},
             conn : Conns \cup {NIL},
             from : Conns \cup {NIL},
             out : BOOLEAN]

NoHandler == [type |-> "unborn", socket |-> NIL, binding |-> NIL]
GoneHandler == [type |-> "freed", socket |-> NIL, binding |-> NIL]

Blank(s) == [state |-> s, kind |-> "server", handler |-> NIL, io |-> "none", fd |-> NIL,
             graceful |-> FALSE, lock |-> 0, autoFree |-> TRUE, timeout |-> "zero"]
Unborn == Blank("unborn")
Freed == Blank("freed")
NoCallback == [kind |-> "none", handler |-> NIL, conn |-> NIL, from |-> NIL, out |-> FALSE]

TypeOK ==
  /\ handler \in [Handlers -> HandlerRec]
  /\ conn \in [Conns -> ConnRec]
  /\ epoll \in [Fds -> Handlers \cup {NIL}]
  /\ level \in Levels
  /\ listenFd \in Fds \cup {NIL}
  /\ lost \subseteq Fds
  /\ pc \in {"wait", "dispatch", "callback", "write", "pack", "clear", "undefined"}
  /\ batch \subseteq Event
  /\ cb \in Callback
  /\ toPack \subseteq Handlers

-----------------------------------------------------------------------------
(* CPollConnection and CTCPConnection: what the methods do to the record.   *)
(* A method that runs the application's OnDisconnected yields a set, one    *)
(* record for each thing the application may do to the connection's lock.   *)

HandlerLive(h) == handler[h].type \in EventTypes
ConnLive(c) == conn[c].state = "live"

\* The connection outlived the handler it was bound to, m_pEventHandler dangles.
Orphan(c) == ConnLive(c) /\ ~HandlerLive(conn[c].handler)

IncLock(r) ==
  IF r.lock = 0
  THEN [r EXCEPT !.lock = 1, !.timeout = "infinite", !.autoFree = FALSE]
  ELSE [r EXCEPT !.lock = @ + 1]

DecLock(r) ==
  IF r.lock = 1
  THEN [r EXCEPT !.lock = 0, !.timeout = "zero", !.autoFree = TRUE]
  ELSE [r EXCEPT !.lock = IF @ > 0 THEN @ - 1 ELSE 0]

\* Mutant: INFINITE is overwritten like any other time-out.
UpdateTimeOutAlways(r) == [r EXCEPT !.timeout = "fresh"]

UpdateTimeOut(r) ==
  IF r.timeout = "infinite" THEN r ELSE [r EXCEPT !.timeout = "fresh"]

OnDisconnected(r) ==
  {r, DecLock(r)} \cup (IF r.lock < MaxLock THEN {IncLock(r)} ELSE {})

\* Mutant: the socket is given up, but the IO handler goes on as if it were connected.
DisconnectSocketLeavesIo(r) ==
  IF r.io = "none" THEN {r}
  ELSE {[q EXCEPT !.graceful = TRUE, !.fd = NIL] : q \in OnDisconnected(r)}

DisconnectSocket(r) ==
  IF r.io = "none" THEN {r}
  ELSE {[q EXCEPT !.graceful = TRUE, !.io = "closed", !.fd = NIL] : q \in OnDisconnected(r)}

Disconnect(r) == {[q EXCEPT !.io = "none", !.fd = NIL] : q \in DisconnectSocket(r)}

\* A reset seen by Send or Recv: DisconnectSocket, an exception, and Disconnect in its handler.
Reset(r) == UNION {Disconnect(q) : q \in DisconnectSocket(r)}

Close(r) == IF r.graceful THEN {r} ELSE Disconnect(r)

\* Mutant: TimeOut() > 0 is not asked, and INFINITE (-1) lies in the past.
ExpiredAlways(r) == r.timeout # "fresh" \/ PollTimeOut <= 0

\* TimeOut() > 0 and the pack's timestamp has reached it.  TimeOutInterval is the poll's own
\* time-out, so with INFINITE (-1) a time-out just set already lies in the past.
Expired(r) == r.timeout = "stale" \/ (r.timeout = "fresh" /\ PollTimeOut <= 0)

\* What ClearBinding leaves of the connection of a destroyed handler.
ClearBinding(r) == {IF q.autoFree /\ q.lock = 0 THEN Freed ELSE q : q \in Close(r)}

-----------------------------------------------------------------------------
(* CPollEventHandler and CPollStack.  epoll_ctl failures are swallowed.     *)

Adding(ep, h, s) == IF ep[s] = NIL THEN [ep EXCEPT ![s] = h] ELSE ep

\* Mutant: PollDel is not reached.
DeletingNothing(ep, h) == ep

Deleting(ep, h) ==
  IF handler[h].type \in Active THEN [ep EXCEPT ![handler[h].socket] = NIL] ELSE ep

\* Mutant: Stop destroys the handler at once instead of leaving it to the pack.
HaltedAtOnce(hs, h) == [hs EXCEPT ![h] = GoneHandler]

Halted(hs, h) == [hs EXCEPT ![h].type = "etDelete"]

\* Mutant: a connection that disconnects leaves its handler running.
ClosePollForgotten(c) == ConnLive(c) /\ UNCHANGED <<handler, epoll>>

\* ClosePoll: m_pEventHandler->Stop().
ClosePoll(c) ==
  /\ handler' = Halted(handler, conn[c].handler)
  /\ epoll' = Deleting(epoll, conn[c].handler)

Undefined ==
  /\ pc' = "undefined"
  /\ UNCHANGED <<objects, server, batch, cb, toPack>>

OpenFds ==
  lost \cup {conn[c].fd : c \in {d \in Conns : conn[d].io = "open"}} \cup ({listenFd} \ {NIL})
FreeFds == Fds \ OpenFds

-----------------------------------------------------------------------------
(* The server's life: CTCPAsyncServer::SetActiveLevel, called between two   *)
(* calls of Wait.                                                           *)

Bind ==
  /\ pc = "wait" /\ level = "alShutDown"
  /\ \E s \in FreeFds : listenFd' = s
  /\ level' = "alBinding"
  /\ UNCHANGED <<objects, lost, loop>>

Activate ==
  /\ pc = "wait" /\ level # "alActive"
  /\ \E h \in Handlers, s \in Fds :
       /\ handler[h] = NoHandler
       /\ s = listenFd \/ (listenFd = NIL /\ s \in FreeFds)
       /\ listenFd' = s
       /\ handler' = [handler EXCEPT ![h] = [type |-> "etAccept", socket |-> s, binding |-> NIL]]
       /\ epoll' = Adding(epoll, h, s)
  /\ level' = "alActive"
  /\ UNCHANGED <<conn, lost, loop>>

\* m_pEventHandlers->Clear() destroys the handlers one by one, the client's among them.
Deactivate ==
  /\ pc = "wait" /\ level # "alShutDown"
  /\ pc' = "clear"
  /\ toPack' = {h \in Handlers : HandlerLive(h)}
  /\ UNCHANGED <<objects, server, batch, cb>>

\* ~CPollEventHandler: Stop, then ClearBinding.
Destroy(h) ==
  /\ epoll' = Deleting(epoll, h)
  /\ handler' = [handler EXCEPT ![h] = GoneHandler]
  /\ IF handler[h].binding = NIL
     THEN UNCHANGED conn
     ELSE \E r \in ClearBinding(conn[handler[h].binding]) :
            conn' = [conn EXCEPT ![handler[h].binding] = r]

ClearHandler(h) ==
  /\ pc = "clear" /\ h \in toPack
  /\ Destroy(h)
  /\ toPack' = toPack \ {h}
  /\ UNCHANGED <<server, pc, batch, cb>>

\* CloseAllConnection finds the server's connections that outlived their handler: each
\* destructor still writes through m_pEventHandler.
LeftOver == {c \in Conns : ConnLive(c) /\ conn[c].kind = "server"}

ClearEnd ==
  /\ pc = "clear" /\ toPack = {} /\ LeftOver = {}
  /\ \E v \in {"alShutDown", "alBinding"} :
       /\ v = "alBinding" => level = "alActive"
       /\ level' = v
       /\ listenFd' = IF v = "alShutDown" THEN NIL ELSE listenFd
  /\ pc' = "wait"
  /\ UNCHANGED <<objects, lost, batch, cb, toPack>>

ClearEndHeld == pc = "clear" /\ toPack = {} /\ LeftOver # {} /\ Undefined

-----------------------------------------------------------------------------
(* CAsyncClient::ConnectStart with the non-blocking connect's outcomes.     *)

NewConn(k, h, s) ==
  [Blank("live") EXCEPT !.kind = k, !.handler = h, !.io = "open", !.fd = s]

ClientConnects(type) ==
  /\ pc \in {"wait", "callback"}
  /\ \E h \in Handlers, c \in Conns, s \in FreeFds :
       /\ handler[h] = NoHandler /\ conn[c] = Unborn
       /\ handler' = [handler EXCEPT ![h] = [type |-> type, socket |-> s, binding |-> c]]
       /\ conn' = [conn EXCEPT ![c] = NewConn("client", h, s)]
       /\ epoll' = IF type = "etDelete" THEN epoll ELSE Adding(epoll, h, s)
  /\ UNCHANGED <<server, loop>>

ConnectStart == ClientConnects("etConnect")     \* EINPROGRESS
ConnectAtOnce == ClientConnects("etIO")         \* connected at once, DoConnect runs here
ConnectAtOnceThrows == ClientConnects("etDelete") \* ... and its callback threw: Stop

\* Connect throws between Start(etConnect) and DoConnectStart: nothing owns the socket.
ConnectThrows ==
  /\ pc \in {"wait", "callback"}
  /\ \E h \in Handlers, s \in FreeFds :
       /\ handler[h] = NoHandler
       /\ handler' = [handler EXCEPT ![h] = [type |-> "etConnect", socket |-> s, binding |-> NIL]]
       /\ epoll' = Adding(epoll, h, s)
       /\ lost' = lost \cup {s}
  /\ UNCHANGED <<conn, level, listenFd, loop>>

-----------------------------------------------------------------------------
(* CEPoll::Wait                                                             *)

\* A new timestamp: what was armed by the previous one may be due from now on.
Aged == [c \in Conns |->
           IF conn[c].timeout = "fresh" THEN [conn[c] EXCEPT !.timeout = "stale"] ELSE conn[c]]

Wait ==
  /\ pc = "wait"
  /\ \E ready \in SUBSET {s \in Fds : epoll[s] # NIL} :
       /\ ready # {} /\ Cardinality(ready) <= EventSize
       /\ batch' = {[handler |-> epoll[s], from |-> handler[epoll[s]].binding] : s \in ready}
  /\ conn' = Aged
  /\ pc' = "dispatch"
  /\ UNCHANGED <<handler, epoll, server, cb, toPack>>

\* epoll_wait returned no events.
WaitTimeOut ==
  /\ pc = "wait" /\ PollTimeOut # INFINITE
  /\ conn' = Aged
  /\ pc' = "pack"
  /\ toPack' = {h \in Handlers : HandlerLive(h)}
  /\ UNCHANGED <<handler, epoll, server, batch, cb>>

\* pHandler->TimeStamp(timestamp), done for every event before its type is looked at.
Touch(h) ==
  IF handler[h].binding = NIL THEN conn
  ELSE [conn EXCEPT ![handler[h].binding] = UpdateTimeOut(@)]

Take(e) == pc = "dispatch" /\ e \in batch /\ batch' = batch \ {e}

\* The handler was stopped by an earlier event of the batch, nothing it waits for happened,
\* accept found no peer, the connect is still in progress, or no connection is bound.
DispatchNothing(e) ==
  /\ Take(e)
  /\ handler[e.handler].type = "etIO" => handler[e.handler].binding = NIL
  /\ conn' = Touch(e.handler)
  /\ UNCHANGED <<handler, epoll, server, pc, cb, toPack>>

\* CTCPAsyncServer::DoAccept up to the OnConnected callback.
DispatchAccept(e) ==
  /\ Take(e)
  /\ handler[e.handler].type = "etAccept"
  /\ \E h \in Handlers, c \in Conns, s \in FreeFds :
       /\ handler[h] = NoHandler /\ conn[c] = Unborn
       /\ handler' = [handler EXCEPT ![h] = [type |-> "etIO", socket |-> s, binding |-> c]]
       /\ conn' = [Touch(e.handler) EXCEPT ![c] = NewConn("server", h, s)]
       /\ epoll' = Adding(epoll, h, s)
       /\ cb' = [kind |-> "accept", handler |-> h, conn |-> c, from |-> c, out |-> FALSE]
  /\ pc' = "callback"
  /\ UNCHANGED <<server, toPack>>

\* AfterAccept throws before a handler exists: the connection is deleted again.
DispatchAcceptFails(e) ==
  /\ Take(e)
  /\ handler[e.handler].type = "etAccept"
  /\ \E c \in Conns : conn[c] = Unborn /\ conn' = [Touch(e.handler) EXCEPT ![c] = Freed]
  /\ UNCHANGED <<handler, epoll, server, pc, cb, toPack>>

\* CTCPAsyncClient::DoConnect
DispatchConnect(e) ==
  LET h == e.handler
      c == handler[h].binding
  IN /\ Take(e)
     /\ handler[h].type = "etConnect"
     /\ conn' = Touch(h)
     /\ \/ \* CheckConnection succeeded: Start(etIO), then OnConnected
           /\ c # NIL
           /\ handler' = [handler EXCEPT ![h].type = "etIO"]
           /\ UNCHANGED epoll
           /\ cb' = [kind |-> "connect", handler |-> h, conn |-> c, from |-> e.from, out |-> FALSE]
           /\ pc' = "callback"
        \/ \* no connection is bound, or CheckConnection threw
           /\ handler' = Halted(handler, h)
           /\ epoll' = Deleting(epoll, h)
           /\ UNCHANGED <<cb, pc>>
     /\ UNCHANGED <<server, toPack>>

\* Mutant: the handler is looked up by the event's socket number, data.fd instead of data.ptr.
DispatchReadBySocket(e) ==
  /\ Take(e)
  /\ \E h \in Handlers, o \in BOOLEAN :
       /\ handler[h].type = "etIO" /\ handler[h].binding # NIL
       /\ handler[h].socket = handler[e.handler].socket
       /\ conn' = Touch(h)
       /\ cb' = [kind |-> "read", handler |-> h, conn |-> handler[h].binding,
                 from |-> e.from, out |-> o]
  /\ pc' = "callback"
  /\ UNCHANGED <<handler, epoll, server, toPack>>

\* Events of an etIO handler; EPOLLERR and EPOLLHUP count as both.
DispatchRead(e) ==
  LET h == e.handler
  IN /\ Take(e)
     /\ handler[h].type = "etIO" /\ handler[h].binding # NIL
     /\ conn' = Touch(h)
     /\ \E o \in BOOLEAN :
          cb' = [kind |-> "read", handler |-> h, conn |-> handler[h].binding,
                 from |-> e.from, out |-> o]
     /\ pc' = "callback"
     /\ UNCHANGED <<handler, epoll, server, toPack>>

DispatchWrite(e) ==
  LET h == e.handler
  IN /\ Take(e)
     /\ handler[h].type = "etIO" /\ handler[h].binding # NIL
     /\ conn' = Touch(h)
     /\ cb' = [NoCallback EXCEPT !.handler = h, !.from = e.from]
     /\ pc' = "write"
     /\ UNCHANGED <<handler, epoll, server, toPack>>

EndOfBatch ==
  /\ pc = "dispatch" /\ batch = {}
  /\ pc' = "pack"
  /\ toPack' = {h \in Handlers : HandlerLive(h)}
  /\ UNCHANGED <<objects, server, batch, cb>>
-----------------------------------------------------------------------------
(* What the application and the socket layer do inside a callback.          *)

AppRuns == pc \in {"wait", "callback"}

AppLock(c) ==
  /\ AppRuns /\ ConnLive(c) /\ conn[c].lock < MaxLock
  /\ conn' = [conn EXCEPT ![c] = IncLock(@)]
  /\ UNCHANGED <<handler, epoll, server, loop>>

AppUnlock(c) ==
  /\ AppRuns /\ ConnLive(c)
  /\ conn' = [conn EXCEPT ![c] = DecLock(@)]
  /\ UNCHANGED <<handler, epoll, server, loop>>

AppDisconnect(c) ==
  /\ AppRuns /\ ConnLive(c) /\ conn[c].io # "none" /\ ~Orphan(c)
  /\ \E r \in Disconnect(conn[c]) : conn' = [conn EXCEPT ![c] = r]
  /\ ClosePoll(c)
  /\ UNCHANGED <<server, loop>>

\* Disconnect of a connection whose handler is gone reaches ClosePoll all the same.
AppDisconnectOrphan(c) == AppRuns /\ Orphan(c) /\ conn[c].io # "none" /\ Undefined

\* Recv returned 0 while DoExecute reads.
ReadEof ==
  /\ pc = "callback" /\ cb.kind = "read" /\ conn[cb.conn].io = "open"
  /\ conn' = [conn EXCEPT ![cb.conn].graceful = TRUE]
  /\ UNCHANGED <<handler, epoll, server, loop>>

\* CheckReadStack met ECONNRESET with input still buffered: the socket goes, no exception.
ReadReset ==
  /\ pc = "callback" /\ cb.kind = "read" /\ conn[cb.conn].io = "open"
  /\ \E r \in DisconnectSocket(conn[cb.conn]) : conn' = [conn EXCEPT ![cb.conn] = r]
  /\ ClosePoll(cb.conn)
  /\ UNCHANGED <<server, loop>>

Resume ==
  /\ pc' = "dispatch" /\ cb' = NoCallback
  /\ UNCHANGED <<server, batch, toPack>>

\* Mutant: a connect's handler is started once more after the callback, come what may.
CallbackReturnsStarts ==
  /\ pc = "callback" /\ ~cb.out
  /\ Resume
  /\ handler' = IF cb.kind = "connect" THEN [handler EXCEPT ![cb.handler].type = "etIO"] ELSE handler
  /\ UNCHANGED <<conn, epoll>>

CallbackReturns ==
  /\ pc = "callback" /\ ~cb.out
  /\ Resume
  /\ UNCHANGED objects

\* The event was readable and writable: DoWrite is next.
ReadReturnsToWrite ==
  /\ pc = "callback" /\ cb.out
  /\ pc' = "write"
  /\ UNCHANGED <<objects, server, batch, cb, toPack>>

\* Mutant: the deleted connection stays bound to its handler.
AcceptThrowsBound ==
  /\ pc = "callback" /\ cb.kind = "accept"
  /\ conn' = [conn EXCEPT ![cb.conn] = Freed]
  /\ handler' = Halted(handler, cb.handler)
  /\ epoll' = Deleting(epoll, cb.handler)
  /\ Resume

\* OnConnected threw in DoAccept: delete pConnection.
AcceptThrows ==
  /\ pc = "callback" /\ cb.kind = "accept"
  /\ conn' = [conn EXCEPT ![cb.conn] = Freed]
  /\ handler' = [handler EXCEPT ![cb.handler].type = "etDelete", ![cb.handler].binding = NIL]
  /\ epoll' = Deleting(epoll, cb.handler)
  /\ Resume

\* OnConnected threw in DoConnect: the handler is stopped, the connection stays open.
ConnectCallbackThrows ==
  /\ pc = "callback" /\ cb.kind = "connect"
  /\ handler' = Halted(handler, cb.handler)
  /\ epoll' = Deleting(epoll, cb.handler)
  /\ UNCHANGED conn
  /\ Resume

\* DoExecute threw: OnException, Disconnect.  The handler is stopped, so there is no DoWrite.
ReadThrows ==
  /\ pc = "callback" /\ cb.kind = "read"
  /\ \E r \in Disconnect(conn[cb.conn]) : conn' = [conn EXCEPT ![cb.conn] = r]
  /\ IF conn[cb.conn].io = "none" THEN UNCHANGED <<handler, epoll>> ELSE ClosePoll(cb.conn)
  /\ Resume

\* DoWrite, unless the handler was stopped since.
WriteSkipped ==
  /\ pc = "write" /\ handler[cb.handler].type = "etDelete"
  /\ Resume
  /\ UNCHANGED objects

WriteDone ==
  /\ pc = "write" /\ handler[cb.handler].type # "etDelete"
  /\ ~conn[handler[cb.handler].binding].graceful
  /\ Resume
  /\ UNCHANGED objects

\* The peer had closed: CheckForDisconnect drops the socket, and the client's raises as well.
\* Otherwise the flush met a reset.
WriteFails ==
  LET c == handler[cb.handler].binding
  IN /\ pc = "write" /\ handler[cb.handler].type # "etDelete"
     /\ \E r \in IF conn[c].graceful /\ conn[c].kind = "server"
                 THEN DisconnectSocket(conn[c]) ELSE Reset(conn[c]) :
          conn' = [conn EXCEPT ![c] = r]
     /\ ClosePoll(c)
     /\ Resume

-----------------------------------------------------------------------------
(* CEPoll::PackEventHandlers                                                *)

Visit(h) ==
  /\ pc = "pack" /\ h \in toPack
  /\ toPack' = toPack \ {h}
  /\ UNCHANGED <<server, pc, batch, cb>>

TimesOut(h) ==
  /\ handler[h].type = "etIO" /\ handler[h].binding # NIL
  /\ Expired(conn[handler[h].binding])

\* Mutant: stopped handlers are passed over.
PackKeepsStopped(h) == Visit(h) /\ ~TimesOut(h) /\ UNCHANGED objects

\* With a time-out of INFINITE or 0 an armed time-out is always due.
PackKeeps(h) ==
  /\ Visit(h)
  /\ handler[h].type # "etDelete"
  /\ TimesOut(h) => PollTimeOut > 0
  /\ UNCHANGED objects

PackDeletes(h) ==
  /\ Visit(h)
  /\ handler[h].type = "etDelete"
  /\ Destroy(h)

\* CheckTimeOut: DoTimeOut disconnects, the time-out is set again, the handler is then deleted.
PackTimesOut(h) ==
  LET c == handler[h].binding
  IN /\ Visit(h)
     /\ TimesOut(h)
     /\ epoll' = Deleting(epoll, h)
     /\ handler' = [handler EXCEPT ![h] = GoneHandler]
     /\ \E q \in Disconnect(conn[c]) : \E r \in ClearBinding(UpdateTimeOut(q)) :
          conn' = [conn EXCEPT ![c] = r]

PackEnd ==
  /\ pc = "pack" /\ toPack = {}
  /\ pc' = "wait"
  /\ UNCHANGED <<objects, server, batch, cb, toPack>>

-----------------------------------------------------------------------------
Init ==
  /\ handler = [h \in Handlers |-> NoHandler]
  /\ conn = [c \in Conns |-> Unborn]
  /\ epoll = [s \in Fds |-> NIL]
  /\ level = "alShutDown" /\ listenFd = NIL /\ lost = {}
  /\ pc = "wait" /\ batch = {} /\ cb = NoCallback /\ toPack = {}

ServerStep == Bind \/ Activate \/ Deactivate

ClientStep == ConnectStart \/ ConnectAtOnce \/ ConnectAtOnceThrows \/ ConnectThrows

AppStep ==
  \E c \in Conns : AppLock(c) \/ AppUnlock(c) \/ AppDisconnect(c) \/ AppDisconnectOrphan(c)

WaitStep == Wait \/ WaitTimeOut

DispatchStep ==
  \/ \E e \in batch :
       \/ DispatchNothing(e) \/ DispatchAccept(e) \/ DispatchAcceptFails(e)
       \/ DispatchConnect(e) \/ DispatchRead(e) \/ DispatchWrite(e)
  \/ EndOfBatch

PeerStep == ReadEof \/ ReadReset

ReturnStep ==
  \/ CallbackReturns \/ ReadReturnsToWrite
  \/ AcceptThrows \/ ConnectCallbackThrows \/ ReadThrows
  \/ WriteSkipped \/ WriteDone \/ WriteFails

PackStep ==
  \/ \E h \in toPack : PackKeeps(h) \/ PackDeletes(h) \/ PackTimesOut(h)
  \/ PackEnd

ClearStep == (\E h \in toPack : ClearHandler(h)) \/ ClearEnd \/ ClearEndHeld

Next ==
  \/ ServerStep \/ ClientStep \/ AppStep \/ WaitStep
  \/ DispatchStep \/ PeerStep \/ ReturnStep \/ PackStep \/ ClearStep

Spec == Init /\ [][Next]_vars

\* The loop's thread goes on while it has work, epoll_wait returns at the latest after
\* m_TimeOut, and the application calls Wait again.
LoopFairness ==
  WF_vars(DispatchStep) /\ WF_vars(ReturnStep) /\ WF_vars(PackStep)
  /\ WF_vars(ClearStep) /\ WF_vars(WaitStep)

FairSpec == Spec /\ LoopFairness

-----------------------------------------------------------------------------
(* Safety *)

\* No event is dispatched to a destroyed handler: CEPoll::Wait keeps raw handler pointers for a
\* whole batch, and only PackEventHandlers and Clear destroy handlers.
BatchLive ==
  /\ \A e \in batch : HandlerLive(e.handler)
  /\ pc \in {"callback", "write"} => HandlerLive(cb.handler)
  /\ \A h \in toPack : HandlerLive(h)

\* The kernel's interest list and the handlers agree: data.ptr is the active handler of that
\* socket, and an active handler is registered, so it neither misses events nor receives those
\* of a connection that got its socket number later (CPollStack::Ctl, SetEventType, ClosePoll).
Registered ==
  /\ \A s \in Fds : epoll[s] # NIL => handler[epoll[s]].type \in Active
                                      /\ handler[epoll[s]].socket = s
  /\ \A h \in Handlers : handler[h].type \in Active => epoll[handler[h].socket] = h

\* m_pBinding of a handler and m_pEventHandler of its connection point at each other, and the
\* connection is alive: the loop follows both without a check (TimeStamp, CheckTimeOut).
Bound ==
  \A h \in Handlers :
    HandlerLive(h) /\ handler[h].binding # NIL =>
      ConnLive(handler[h].binding) /\ conn[handler[h].binding].handler = h

\* A connection under Lock has its time-out suspended and is not freed by its handler, whatever
\* the order of Lock, Unlock, events and disconnects (IncLock, DecLock, UpdateTimeOut).
LockHolds ==
  \A c \in Conns :
    conn[c].lock > 0 => ConnLive(c) /\ conn[c].timeout = "infinite" /\ conn[c].autoFree = FALSE

\* An open socket belongs to one owner, so closing it never closes another connection's, and
\* a connection the loop still serves is the one its handler watches.
OneOwner ==
  \A c \in Conns :
    conn[c].io = "open" =>
      /\ conn[c].fd \in Fds \ (lost \cup {listenFd})
      /\ \A d \in Conns \ {c} : conn[d].io = "open" => conn[d].fd # conn[c].fd
      /\ ~Orphan(c) => handler[conn[c].handler].socket = conn[c].fd

\* An event reaches the connection it was reported for, or none: never one that was accepted
\* or connected later in the same batch, even on the same socket number (CEPoll::Wait).
NoStaleEvent ==
  pc = "callback" /\ cb.kind \in {"connect", "read"} => ConnLive(cb.conn) /\ cb.conn = cb.from

-----------------------------------------------------------------------------
(* What the proofs need besides: the inductive invariant is the conjunction *)
(* of these facts and the safety properties above.                          *)

\* An active handler's socket is open, and its owner is the one the handler knows.
WatchedIsOpen ==
  \A h \in Handlers :
    /\ handler[h].type = "etAccept" => handler[h].socket = listenFd /\ listenFd # NIL
    /\ handler[h].type \in {"etConnect", "etIO"} =>
         IF handler[h].binding = NIL THEN handler[h].socket \in lost
         ELSE /\ conn[handler[h].binding].io = "open"
              /\ conn[handler[h].binding].fd = handler[h].socket

\* Objects are created bound, and only live ones hold anything.
Lifecycle ==
  /\ \A h \in Handlers : handler[h].type # "etNull"
  /\ \A h \in Handlers : ~HandlerLive(h) => handler[h].binding = NIL
  /\ \A c \in Conns : ~ConnLive(c) => conn[c].io = "none"
  /\ \A c \in Conns : ConnLive(c) =>
       /\ conn[c].handler \in Handlers /\ handler[conn[c].handler].type # "unborn"
       /\ ~Orphan(c) => handler[conn[c].handler].binding = c

\* The listening socket has no other owner, and only an active server watches it.
Listening ==
  /\ listenFd \notin lost
  /\ level = "alShutDown" => listenFd = NIL
  /\ level # "alActive" => \A h \in Handlers : handler[h].type # "etAccept"

\* Where the loop is, and what it then holds on to.
Window ==
  /\ pc \in {"wait", "pack", "clear"} => batch = {}
  /\ pc = "clear" => \A h \in Handlers : HandlerLive(h) => h \in toPack
  /\ \A e \in batch : handler[e.handler].binding \in {e.from, NIL}
  /\ pc \in {"callback", "write"} => cb.handler \in Handlers
                                     /\ handler[cb.handler].type \in {"etIO", "etDelete"}
  /\ pc = "callback" => cb.kind # "none" /\ cb.conn \in Conns
                        /\ cb.conn = handler[cb.handler].binding /\ cb.conn = cb.from
  /\ pc = "write" => handler[cb.handler].binding # NIL

IndInv ==
  /\ TypeOK /\ BatchLive /\ Registered /\ Bound /\ LockHolds /\ OneOwner /\ NoStaleEvent
  /\ WatchedIsOpen /\ Lifecycle /\ Listening /\ Window

-----------------------------------------------------------------------------
(* What a step may never do *)

\* A stopped handler is never started again: it was taken off the interest list, so a second
\* Start would watch a socket number that is already somebody else's (Stop, Start, ClosePoll).
StoppedStaysStopped ==
  [][\A h \in Handlers :
       handler[h].type = "etDelete" => handler'[h].type \in {"etDelete", "freed"}]_vars

\* PackEventHandlers leaves a connection alone that is under Lock and whose handler was not stopped,
\* whatever the poll's time-out is and however long ago the connection was served: IncLock has put
\* its time-out to INFINITE, events and unlocking in between have not armed it again, and
\* CheckTimeOut does not take INFINITE for a time in the past.
LockedNotTimedOut ==
  [][pc = "pack" =>
       \A c \in Conns :
         conn[c].lock > 0 /\ handler[conn[c].handler].type # "etDelete" =>
           conn'[c] = conn[c] /\ handler'[conn[c].handler] = handler[conn[c].handler]]_vars

-----------------------------------------------------------------------------
(* Liveness, with a finite poll time-out *)

\* A stopped handler is destroyed.
StoppedIsDestroyed ==
  \A h \in Handlers :
    handler[h].type = "etDelete" ~> handler[h].type = "freed" \/ pc = "undefined"

\* A disconnected connection nobody locks is freed, unless it had already outlived its handler.
DisconnectedIsFreed ==
  \A c \in Conns :
    ConnLive(c) /\ conn[c].io = "none" /\ ~Orphan(c)
      ~> conn[c].state = "freed" \/ conn[c].lock > 0 \/ Orphan(c) \/ pc = "undefined"

=============================================================================
