----------------------------- MODULE TCPServer -----------------------------
(***************************************************************************)
(* CTCPServer of libdelphi (src/src/Sockets.cpp): one listener thread for   *)
(* each binding, one peer thread for each connection, and the thread that   *)
(* activates, deactivates and destroys the server.                          *)
(*                                                                         *)
(* A thread is a process with a program counter.  Its steps end where       *)
(* another thread can see the difference: at the locks, at the flags of the *)
(* connection that DisconnectSocket and Connected share, and at the list of *)
(* connections, which has no lock.  Where two threads free the same object  *)
(* or change that list together, the program has no defined behaviour:      *)
(* undefined is set, and nothing is said of what follows.                   *)
(***************************************************************************)
EXTENDS Integers, SequencesExt

CONSTANTS
  NumBindings,  \* the most bindings a server has, each with a listener thread
  Peers,        \* peer threads, with their connections
  MAIN, NIL,
  MaxTicks      \* how often TerminateAllThreads looks at the list: 19 in the code

ASSUME CountAssumption == NumBindings \in Nat \ {0} /\ MaxTicks \in Nat \ {0}

VARIABLES
  pc,        \* [Threads \cup {MAIN} -> where the thread is]
  suspended, \* [Threads -> CThread::m_bSuspended]
  terminated,\* [Threads -> CThread::m_bTerminated, with CSocketThread::m_Stopped]
  threads,   \* CTCPServer::m_Threads
  lock,      \* who holds its lock
  conn,      \* [Peers -> CTCPServerConnection]
  closing,   \* [Peers \cup {MAIN} -> where the thread is in DisconnectSocket]
  socket,    \* [Listeners -> CSocketHandle of the binding]
  pending,   \* [Listeners -> the peer thread it is starting]
  items,     \* who is inside CCollection::InsertItem or RemoveItem of the connections
  told,      \* [Peers -> the last of OnConnected, OnDisconnected; "refused" if OnConnected threw]
  idx,       \* the loop variable of MAIN
  timedOut,  \* TerminateAllThreads gave up
  undefined  \* the program's behaviour is undefined

flags == <<suspended, terminated>>
list == <<threads, lock>>
vars == <<pc, flags, list, conn, closing, socket, pending, items, told, idx, timedOut, undefined>>

Listeners == 1 .. NumBindings
Threads == Listeners \cup Peers

ASSUME NameAssumption ==
  /\ Peers \cap Listeners = {}
  /\ MAIN \notin Threads /\ NIL \notin Threads /\ MAIN # NIL

NoConnection == [live |-> FALSE, io |-> FALSE, binding |-> FALSE, open |-> FALSE, remote |-> FALSE, graceful |-> FALSE]
\* A connection with the socket that was accepted for it
Accepted == [live |-> TRUE, io |-> TRUE, binding |-> TRUE, open |-> TRUE, remote |-> TRUE, graceful |-> FALSE]

Init ==
  /\ pc = [t \in Threads \cup {MAIN} |-> IF t = MAIN THEN "create" ELSE "none"]
  /\ suspended = [t \in Threads |-> TRUE]
  /\ terminated = [t \in Threads |-> FALSE]
  /\ threads = <<>> /\ lock = NIL
  /\ conn = [p \in Peers |-> NoConnection]
  /\ closing = [t \in Peers \cup {MAIN} |-> "no"]
  /\ socket = [l \in Listeners |-> [allocated |-> FALSE, open |-> FALSE]]
  /\ pending = [l \in Listeners |-> NIL]
  /\ items = {}
  /\ told = [p \in Peers |-> "nothing"]
  /\ idx = 1 /\ timedOut = FALSE /\ undefined = FALSE

\* Two threads are where only one may be.
Undefined ==
  /\ undefined' = TRUE
  /\ UNCHANGED <<pc, flags, list, conn, closing, socket, pending, items, told, idx, timedOut>>

At(t, here) == pc[t] = here
Go(t, there) == pc' = [pc EXCEPT ![t] = there]

Listed == {threads[i] : i \in DOMAIN threads}

\* The server object was destroyed, after SetActive(false) or after an activation that failed.
ServerGone == pc[MAIN] \in {"destroyed", "torn"}

----------------------------------------------------------------------------
(* CThread: a thread is created suspended, and starts when it is resumed. *)

\* Mutant of Suspend: it waits for the signal without looking at the flag first.
SuspendBlind(t) ==
  /\ At(t, "new")
  /\ Go(t, "asleep")
  /\ UNCHANGED <<flags, list, conn, closing, socket, pending, items, told, idx, timedOut, undefined>>

\* ThreadProc calls Suspend, which waits for the condition as long as the flag is set.
Suspend(t) ==
  /\ At(t, "new")
  /\ Go(t, IF suspended[t] THEN "asleep" ELSE "run")
  /\ UNCHANGED <<flags, list, conn, closing, socket, pending, items, told, idx, timedOut, undefined>>

\* Resume clears the flag and signals, both under the mutex.
Resume(t) == suspended' = [suspended EXCEPT ![t] = FALSE]
Signalled(t) == IF pc[t] = "asleep" THEN [pc EXCEPT ![t] = "run"] ELSE pc

----------------------------------------------------------------------------
(* The IO handler of a connection, and its closing by any thread. *)

IOConnected(c) == c.io /\ c.binding

\* CheckForDisconnect closes the socket of a connection that was closed gracefully, and says that
\* a connection without an IO handler is connected.
ClosesFirst(c) == c.graceful /\ IOConnected(c)
\* Mutant of Connected: an IO handler is enough, whether its socket is closed or not.
ConnectedByHandler(c) == c.io
Connected(c) == IF c.graceful \/ ~c.io THEN ~c.io ELSE c.binding

\* DisconnectSocket of p's connection by t: the test of the IO handler and the flag, ...
DisconnectSocket(t, p) ==
  /\ closing[t] = "test"
  /\ IF conn[p].io
     THEN /\ conn' = [conn EXCEPT ![p].graceful = TRUE]
          /\ closing' = [closing EXCEPT ![t] = "close"]
     ELSE closing' = [closing EXCEPT ![t] = "no"] /\ UNCHANGED conn
  /\ UNCHANGED <<pc, flags, list, socket, pending, items, told, idx, timedOut, undefined>>

\* ... then CSocketHandle::CloseSocket in the destructor of the binding, ...
CloseSocket(t, p) ==
  /\ closing[t] = "close"
  /\ IF IOConnected(conn[p])
     THEN /\ conn' = [conn EXCEPT ![p].open = FALSE]
          /\ closing' = [closing EXCEPT ![t] = "free"]
     ELSE closing' = [closing EXCEPT ![t] = "no"] /\ UNCHANGED conn
  /\ UNCHANGED <<pc, flags, list, socket, pending, items, told, idx, timedOut, undefined>>

\* ... and the binding is freed, before FreeAndNil clears the pointer to it.
FreeBinding(t, p) ==
  /\ closing[t] = "free"
  /\ IF conn[p].binding
     THEN /\ conn' = [conn EXCEPT ![p].binding = FALSE]
          /\ closing' = [closing EXCEPT ![t] = "no"]
          /\ UNCHANGED <<pc, flags, list, socket, pending, items, told, idx, timedOut, undefined>>
     ELSE Undefined

Closing(t, p) == DisconnectSocket(t, p) \/ CloseSocket(t, p) \/ FreeBinding(t, p)

\* MAIN is inside the IO handler of p's connection.
MainCloses(p) == closing[MAIN] \in {"close", "free"} /\ threads[idx] = p

----------------------------------------------------------------------------
(* CPeerThread *)

\* BeforeRun: OnConnected, which may disconnect the connection or throw.
BeforeRun(p) ==
  /\ At(p, "run")
  /\ \/ Go(p, "check") /\ UNCHANGED closing /\ told' = [told EXCEPT ![p] = "connected"]
     \/ /\ Go(p, "disconnect")
        /\ closing' = [closing EXCEPT ![p] = "test"]
        /\ told' = [told EXCEPT ![p] = "connected"]
     \/ Go(p, "cleanup") /\ UNCHANGED closing /\ told' = [told EXCEPT ![p] = "refused"]
  /\ UNCHANGED <<flags, list, conn, socket, pending, items, idx, timedOut, undefined>>

\* Disconnect: FreeIOHandler, after DisconnectSocket
Disconnect(p) ==
  /\ At(p, "disconnect") /\ closing[p] = "no"
  /\ IF MainCloses(p) THEN Undefined
     ELSE /\ conn' = [conn EXCEPT ![p].io = FALSE, ![p].binding = FALSE]
          /\ Go(p, "check")
          /\ UNCHANGED <<flags, list, closing, socket, pending, items, told, idx, timedOut, undefined>>

\* The test of Connected that ends BeforeRun and Run
CheckConnected(p) ==
  /\ At(p, "check") /\ closing[p] = "no"
  /\ IF ClosesFirst(conn[p])
     THEN closing' = [closing EXCEPT ![p] = "test"] /\ UNCHANGED <<pc, terminated>>
     ELSE /\ terminated' = [terminated EXCEPT ![p] = ~Connected(conn[p])]
          /\ Go(p, IF Connected(conn[p]) THEN "execute" ELSE "after")
          /\ UNCHANGED closing
  /\ UNCHANGED <<suspended, list, conn, socket, pending, items, told, idx, timedOut, undefined>>

\* DoExecute with something to read: the handler answers, disconnects (as a command handler with
\* Disconnect() does, and Run itself, without any handler's doing, when an answer met a connection
\* the client has reset), or throws.
Execute(p) ==
  /\ At(p, "execute") /\ ~ServerGone
  /\ IOConnected(conn[p]) /\ conn[p].open /\ conn[p].remote
  /\ conn' = [conn EXCEPT ![p].graceful = FALSE]
  /\ \/ Go(p, "check") /\ UNCHANGED closing
     \/ Go(p, "disconnect") /\ closing' = [closing EXCEPT ![p] = "test"]
     \/ Go(p, "after") /\ UNCHANGED closing
  /\ UNCHANGED <<flags, list, socket, pending, items, told, idx, timedOut, undefined>>

\* DoExecute with nothing more to come, because the client or MAIN closed the socket: an ESocketError
ExecuteClosed(p) ==
  /\ At(p, "execute")
  /\ conn[p].io /\ ~(conn[p].binding /\ conn[p].open /\ conn[p].remote)
  /\ conn' = [conn EXCEPT ![p].graceful = @ \/ conn[p].binding]
  /\ Go(p, "check")
  /\ UNCHANGED <<flags, list, closing, socket, pending, items, told, idx, timedOut, undefined>>

\* DoExecute without an IO handler: ReadFromStack reads nothing, and tries again for ever.
ExecuteForever(p) ==
  /\ At(p, "execute") /\ ~conn[p].io
  /\ conn' = [conn EXCEPT ![p].graceful = TRUE]
  /\ Go(p, "forever")
  /\ UNCHANGED <<flags, list, closing, socket, pending, items, told, idx, timedOut, undefined>>

\* AfterRun: OnDisconnected
AfterRun(p) ==
  /\ At(p, "after")
  /\ told' = [told EXCEPT ![p] = "disconnected"]
  /\ Go(p, "cleanup")
  /\ UNCHANGED <<flags, list, conn, closing, socket, pending, items, idx, timedOut, undefined>>

\* Mutant of Cleanup: the list is changed without its lock.
CleanupUnlocked(p) ==
  /\ At(p, "cleanup")
  /\ threads' = RemoveFirst(threads, p)
  /\ Go(p, "release")
  /\ UNCHANGED <<flags, lock, conn, closing, socket, pending, items, told, idx, timedOut, undefined>>

\* Cleanup: the thread leaves the list, ...
Cleanup(p) ==
  /\ At(p, "cleanup") /\ lock = NIL
  /\ threads' = RemoveFirst(threads, p)
  /\ Go(p, "release")
  /\ UNCHANGED <<flags, lock, conn, closing, socket, pending, items, told, idx, timedOut, undefined>>

\* ... ReleaseThread of the current thread marks it to end and to free itself, ...
ReleaseThread(p) ==
  /\ At(p, "release")
  /\ terminated' = [terminated EXCEPT ![p] = TRUE]
  /\ closing' = [closing EXCEPT ![p] = "test"]
  /\ Go(p, "free")
  /\ UNCHANGED <<suspended, list, conn, socket, pending, items, told, idx, timedOut, undefined>>

\* ... and the connection is freed: its socket and IO handler, ...
FreeIOHandler(p) ==
  /\ At(p, "free") /\ closing[p] = "no"
  /\ IF items # {} THEN Undefined
     ELSE /\ conn' = [conn EXCEPT ![p].io = FALSE, ![p].binding = FALSE]
          /\ items' = {p}
          /\ Go(p, "remove")
          /\ UNCHANGED <<flags, list, closing, socket, pending, told, idx, timedOut, undefined>>

\* ... and its place in the server's collection.  The thread ends and frees itself.
FreeConnection(p) ==
  /\ At(p, "remove")
  /\ conn' = [conn EXCEPT ![p] = NoConnection]
  /\ items' = items \ {p}
  /\ Go(p, "ended")
  /\ UNCHANGED <<flags, list, closing, socket, pending, told, idx, timedOut, undefined>>

\* Peers that still need the server
NeedsServer(p) == pc[p] \notin {"none", "forever", "ended"}

PeerStep(p) ==
  IF ServerGone THEN NeedsServer(p) /\ Undefined
  ELSE \/ Suspend(p) \/ BeforeRun(p) \/ Disconnect(p) \/ CheckConnected(p)
       \/ ExecuteClosed(p) \/ ExecuteForever(p) \/ AfterRun(p)
       \/ Cleanup(p) \/ ReleaseThread(p) \/ FreeIOHandler(p) \/ FreeConnection(p)
       \/ Closing(p, p)

\* The client closes its side.
ClientCloses(p) ==
  /\ conn[p].live /\ conn[p].remote
  /\ conn' = [conn EXCEPT ![p].remote = FALSE]
  /\ UNCHANGED <<pc, flags, list, closing, socket, pending, items, told, idx, timedOut, undefined>>

----------------------------------------------------------------------------
(* CListenerThread::Execute *)

\* The loop ends when the thread is terminated; otherwise a connection is made in advance, ...
Listen(l) ==
  /\ At(l, "run")
  /\ IF terminated[l] THEN Go(l, "close") /\ UNCHANGED <<items, undefined>>
     ELSE IF items = {} THEN Go(l, "insert") /\ items' = {l} /\ UNCHANGED undefined
     ELSE undefined' = TRUE /\ UNCHANGED <<pc, items>>
  /\ UNCHANGED <<flags, list, conn, closing, socket, pending, told, idx, timedOut>>

\* ... which is in the server's collection from then on.
Insert(l) ==
  /\ At(l, "insert")
  /\ items' = items \ {l}
  /\ Go(l, "accept")
  /\ UNCHANGED <<flags, list, conn, closing, socket, pending, told, idx, timedOut, undefined>>

\* Accept returns a socket: a thread, suspended, gets the connection.
Accept(l) ==
  /\ At(l, "accept") /\ socket[l].allocated /\ socket[l].open
  /\ \E p \in Peers :
       /\ At(p, "none")
       /\ pc' = [pc EXCEPT ![l] = "add", ![p] = "new"]
       /\ conn' = [conn EXCEPT ![p] = Accepted]
       /\ pending' = [pending EXCEPT ![l] = p]
  /\ UNCHANGED <<flags, list, closing, socket, items, told, idx, timedOut, undefined>>

\* A signal interrupts accept: the listener frees the connection and terminates itself.
AcceptInterrupted(l) ==
  /\ At(l, "accept")
  /\ IF items # {} THEN Undefined
     ELSE /\ terminated' = [terminated EXCEPT ![l] = TRUE]
          /\ Go(l, "run")
          /\ UNCHANGED <<suspended, list, conn, closing, socket, pending, items, told, idx, timedOut, undefined>>

\* Any other error is an exception, reported by OnListenException; the loop goes on.
AcceptFails(l) ==
  /\ At(l, "accept")
  /\ Go(l, "run")
  /\ UNCHANGED <<flags, list, conn, closing, socket, pending, items, told, idx, timedOut, undefined>>

\* CThreadList::Add, which ignores duplicates
AddThread(l) ==
  /\ At(l, "add") /\ lock = NIL
  /\ threads' = IF pending[l] \in Listed THEN threads ELSE Append(threads, pending[l])
  /\ Go(l, "start")
  /\ UNCHANGED <<flags, lock, conn, closing, socket, pending, items, told, idx, timedOut, undefined>>

\* CSocketThread::Start
Start(l) ==
  LET p == pending[l]
  IN /\ At(l, "start")
     /\ Resume(p)
     /\ pc' = [Signalled(p) EXCEPT ![l] = "run"]
     /\ pending' = [pending EXCEPT ![l] = NIL]
     /\ UNCHANGED <<terminated, list, conn, closing, socket, items, told, idx, timedOut, undefined>>

\* The listener closes its binding, as MAIN does.
CloseBinding(t, l, next) ==
  /\ socket' = [socket EXCEPT ![l].open = FALSE]
  /\ Go(t, IF socket[l].allocated THEN "reset" ELSE next)

ResetBinding(t, l, next) ==
  /\ socket' = [socket EXCEPT ![l].allocated = FALSE]
  /\ Go(t, next)

ListenerCloses(l) ==
  /\ \/ At(l, "close") /\ CloseBinding(l, l, "ended")
     \/ At(l, "reset") /\ ResetBinding(l, l, "ended")
  /\ UNCHANGED <<flags, list, conn, closing, pending, items, told, idx, timedOut, undefined>>

\* Listeners that still use the server and their binding
Listening(l) == pc[l] \notin {"none", "ended"}

ListenerStep(l) ==
  IF ServerGone THEN Listening(l) /\ Undefined
  ELSE \/ Suspend(l) \/ Listen(l) \/ Insert(l) \/ AddThread(l) \/ Start(l) \/ ListenerCloses(l)
       \/ ~socket[l].open /\ AcceptFails(l)

\* What accept may return, whether or not somebody closes the socket
AcceptReturns(l) == ~ServerGone /\ (Accept(l) \/ AcceptInterrupted(l) \/ AcceptFails(l))

----------------------------------------------------------------------------
(* SetActive and the destructor.  The application activates the server once. *)

\* SetActive(true), for each binding: socket, bind, listen, and a listener thread, suspended;
CreateListener ==
  /\ At(MAIN, "create")
  /\ socket' = [socket EXCEPT ![idx] = [allocated |-> TRUE, open |-> TRUE]]
  /\ pc' = [pc EXCEPT ![MAIN] = "resume", ![idx] = "new"]
  /\ UNCHANGED <<flags, list, conn, closing, pending, items, told, idx, timedOut, undefined>>

\* ... or no socket, an address in use, or no thread: the exception leaves SetActive before m_Active
\* is set, and the listeners of the bindings before this one stay as they are.
ActivationFails ==
  /\ At(MAIN, "create")
  /\ \E made \in BOOLEAN : socket' = [socket EXCEPT ![idx] = [allocated |-> made, open |-> made]]
  /\ Go(MAIN, "failed")
  /\ UNCHANGED <<flags, list, conn, closing, pending, items, told, idx, timedOut, undefined>>

\* The thread is resumed, and the next binding is looked at, if there is one.
ResumeListener ==
  /\ At(MAIN, "resume")
  /\ Resume(idx)
  /\ \/ /\ idx < NumBindings
        /\ pc' = [Signalled(idx) EXCEPT ![MAIN] = "create"]
        /\ idx' = idx + 1
     \/ /\ pc' = [Signalled(idx) EXCEPT ![MAIN] = "active"]
        /\ idx' = 1
  /\ UNCHANGED <<terminated, list, conn, closing, socket, pending, items, told, timedOut, undefined>>

\* SetActive(false)
Deactivate ==
  /\ At(MAIN, "active")
  /\ Go(MAIN, "terminate")
  /\ UNCHANGED <<flags, list, conn, closing, socket, pending, items, told, idx, timedOut, undefined>>

\* TerminateListenerThreads: Terminate, CloseSocket, WaitFor, delete
TerminateListener ==
  /\ At(MAIN, "terminate")
  /\ terminated' = [terminated EXCEPT ![idx] = TRUE]
  /\ Go(MAIN, "close")
  /\ UNCHANGED <<suspended, list, conn, closing, socket, pending, items, told, idx, timedOut, undefined>>

CloseListener ==
  /\ \/ At(MAIN, "close") /\ CloseBinding(MAIN, idx, "join")
     \/ At(MAIN, "reset") /\ ResetBinding(MAIN, idx, "join")
  /\ UNCHANGED <<flags, list, conn, closing, pending, items, told, idx, timedOut, undefined>>

\* There is one listener thread for each binding the server has.
LastListener == idx = NumBindings \/ At(idx + 1, "none")

JoinListener ==
  /\ At(MAIN, "join") /\ At(idx, "ended")
  /\ Go(MAIN, IF LastListener THEN "lock" ELSE "terminate")
  /\ idx' = IF LastListener THEN 1 ELSE idx + 1
  /\ UNCHANGED <<flags, list, conn, closing, socket, pending, items, told, timedOut, undefined>>

\* TerminateAllThreads: under the lock, DisconnectSocket of each listed thread's connection, ...
LockThreads ==
  /\ At(MAIN, "lock") /\ lock = NIL
  /\ lock' = MAIN
  /\ Go(MAIN, "each")
  /\ UNCHANGED <<flags, threads, conn, closing, socket, pending, items, told, idx, timedOut, undefined>>

DisconnectEach ==
  /\ At(MAIN, "each") /\ idx <= Len(threads)
  /\ closing' = [closing EXCEPT ![MAIN] = "test"]
  /\ Go(MAIN, "next")
  /\ UNCHANGED <<flags, list, conn, socket, pending, items, told, idx, timedOut, undefined>>

NextThread ==
  /\ At(MAIN, "next") /\ closing[MAIN] = "no"
  /\ idx' = idx + 1
  /\ Go(MAIN, "each")
  /\ UNCHANGED <<flags, list, conn, closing, socket, pending, items, told, timedOut, undefined>>

UnlockThreads ==
  /\ At(MAIN, "each") /\ idx > Len(threads)
  /\ lock' = NIL
  /\ idx' = 1
  /\ Go(MAIN, "wait")
  /\ UNCHANGED <<flags, threads, conn, closing, socket, pending, items, told, timedOut, undefined>>

\* ... then the list is looked at some times, and SetActive ignores that it did not get empty.
WaitThreads ==
  /\ At(MAIN, "wait")
  /\ IF threads = <<>> THEN Go(MAIN, "inactive") /\ UNCHANGED <<idx, timedOut>>
     ELSE IF idx < MaxTicks THEN idx' = idx + 1 /\ UNCHANGED <<pc, timedOut>>
     ELSE Go(MAIN, "inactive") /\ timedOut' = TRUE /\ UNCHANGED idx
  /\ UNCHANGED <<flags, list, conn, closing, socket, pending, items, told, undefined>>

\* The destructor's SetActive(false) does nothing for a server that is not active: neither for one
\* that was deactivated nor for one that never got active, whose listeners and peers nobody stops.
Destroy ==
  /\ \/ At(MAIN, "inactive") /\ Go(MAIN, "destroyed")
     \/ At(MAIN, "failed") /\ Go(MAIN, "torn")
  /\ UNCHANGED <<flags, list, conn, closing, socket, pending, items, told, idx, timedOut, undefined>>

MainStep ==
  \/ CreateListener \/ ResumeListener \/ TerminateListener \/ CloseListener \/ JoinListener
  \/ LockThreads \/ DisconnectEach \/ NextThread \/ UnlockThreads \/ WaitThreads
  \/ At(MAIN, "next") /\ Closing(MAIN, threads[idx])

Next ==
  /\ ~undefined
  /\ \/ MainStep \/ ActivationFails \/ Deactivate \/ Destroy
     \/ \E l \in Listeners : ListenerStep(l) \/ AcceptReturns(l)
     \/ \E p \in Peers : PeerStep(p) \/ Execute(p) \/ ClientCloses(p)

Spec == Init /\ [][Next]_vars

\* Threads run, the application's handlers return, and accept and recv return once the socket is
\* shut down; clients and the application need not do anything.
Fairness ==
  /\ WF_vars(~undefined /\ MainStep)
  /\ \A l \in Listeners : WF_vars(~undefined /\ ListenerStep(l))
  /\ \A p \in Peers : WF_vars(~undefined /\ PeerStep(p))

FairSpec == Spec /\ Fairness

----------------------------------------------------------------------------
(* Properties *)

\* Where MAIN, a listener and a peer thread can be
MainPlaces == {"create", "resume", "active", "terminate", "close", "reset", "join", "lock",
               "each", "next", "wait", "inactive", "destroyed", "failed", "torn"}
ListenerPlaces == {"none", "new", "asleep", "run", "insert", "accept", "add", "start", "close",
                   "reset", "ended"}
Serving == {"new", "asleep", "run", "check", "disconnect", "execute", "forever", "after", "cleanup"}
Leaving == {"release", "free", "remove", "ended"}
AllPlaces == MainPlaces \cup ListenerPlaces \cup Serving \cup Leaving

ConnRec == [live: BOOLEAN, io: BOOLEAN, binding: BOOLEAN, open: BOOLEAN, remote: BOOLEAN, graceful: BOOLEAN]
SocketRec == [allocated: BOOLEAN, open: BOOLEAN]
Reports == {"nothing", "connected", "refused", "disconnected"}

TypeOK ==
  /\ pc \in [Threads \cup {MAIN} -> AllPlaces]
  /\ suspended \in [Threads -> BOOLEAN] /\ terminated \in [Threads -> BOOLEAN]
  /\ threads \in Seq(Peers) /\ lock \in {MAIN, NIL}
  /\ conn \in [Peers -> ConnRec]
  /\ closing \in [Peers \cup {MAIN} -> {"no", "test", "close", "free"}]
  /\ socket \in [Listeners -> SocketRec]
  /\ pending \in [Listeners -> Peers \cup {NIL}]
  /\ items \subseteq Threads
  /\ told \in [Peers -> Reports]
  /\ idx \in Nat \ {0} /\ timedOut \in BOOLEAN /\ undefined \in BOOLEAN

\* TerminateAllThreads follows Connection() of every thread in the list: a thread gets its connection
\* before it is listed (CListenerThread::Execute), leaves the list before it frees the connection
\* (CPeerThread::Cleanup), and cannot leave while the list is walked.
ListedIsWhole ==
  /\ \A p \in Listed : conn[p].live /\ pc[p] \notin {"none", "release", "free", "remove", "ended"}
  /\ closing[MAIN] # "no" => idx \in DOMAIN threads

\* When SetActive(false) of a server that had become active returns and did not give up waiting, no
\* listener is left, and every connection that was accepted has been reported to OnDisconnected,
\* unless OnConnected refused it.  Nothing of the kind holds for a server whose SetActive(true)
\* threw: m_Active is not set, and SetActive(false) leaves the listeners it had started running.
QuietWhenInactive ==
  pc[MAIN] \in {"inactive", "destroyed"} /\ ~timedOut =>
    /\ \A l \in Listeners : ~Listening(l)
    /\ \A p \in Peers : pc[p] # "none" => told[p] \in {"refused", "disconnected"}

\* The thread that deactivates the server may rely on its list while it walks it and once it has returned.
ThreadsAgree == TypeOK /\ ListedIsWhole /\ QuietWhenInactive

----------------------------------------------------------------------------
(* What the proofs need besides: the inductive invariant is the conjunction  *)
(* of these facts and the properties above.                                  *)

\* Each thread is in its own procedure, and MAIN's loops over the bindings stay within them: no
\* listener exists before its turn.
Places ==
  /\ pc[MAIN] \in MainPlaces
  /\ \A l \in Listeners : pc[l] \in ListenerPlaces
  /\ \A p \in Peers : pc[p] \in {"none"} \cup Serving \cup Leaving
  /\ pc[MAIN] \in {"create", "resume", "terminate", "close", "reset", "join"} => idx <= NumBindings
  /\ pc[MAIN] = "active" => idx = 1
  /\ pc[MAIN] = "create" => \A l \in Listeners : l >= idx <=> pc[l] = "none"
  /\ pc[MAIN] = "resume" => \A l \in Listeners : l > idx <=> pc[l] = "none"
  /\ \A l, k \in Listeners : l < k /\ pc[l] = "none" => pc[k] = "none"

\* MAIN holds the lock while it walks the list, and closes nothing but what it has come to.
Walk ==
  /\ lock = MAIN <=> pc[MAIN] \in {"each", "next"}
  /\ pc[MAIN] = "next" => idx \in DOMAIN threads
  /\ closing[MAIN] # "no" => pc[MAIN] = "next"

\* A listener hands one thread at a time over, its own, and that thread sleeps till it is started.
Handed ==
  /\ \A l \in Listeners : pc[l] \in {"add", "start"} <=> pending[l] \in Peers
  /\ \A l, k \in Listeners : pending[l] = pending[k] => l = k \/ pending[l] = NIL
  /\ \A l \in Listeners : pending[l] \in Peers => pc[pending[l]] \in {"new", "asleep"}
                                                  /\ suspended[pending[l]]
  /\ \A p \in Peers : pc[p] = "none" => suspended[p]

\* The list holds, each once, the threads that serve and were handed over.
ListAgrees ==
  /\ \A p \in Peers : conn[p].live <=> pc[p] \notin {"none", "ended"}
  /\ \A p \in Peers :
       p \in Listed <=> pc[p] \in Serving
                        /\ \A l \in Listeners : pc[l] = "add" => pending[l] # p
  /\ \A i, j \in DOMAIN threads : threads[i] = threads[j] => i = j

\* A thread that is about to leave has reported its connection.
Reported == \A p \in Peers : pc[p] \in {"cleanup"} \cup Leaving => told[p] \in {"refused", "disconnected"}

\* SetActive(false) has joined the listeners before it locks the list, and has seen the list empty.
Joined ==
  /\ pc[MAIN] \in {"terminate", "close", "reset", "join"} =>
       \A l \in Listeners : l < idx => pc[l] = "ended"
  /\ pc[MAIN] \in {"lock", "each", "next", "wait", "inactive", "destroyed"} =>
       \A l \in Listeners : pc[l] \in {"none", "ended"}
  /\ pc[MAIN] \in {"inactive", "destroyed"} /\ ~timedOut => threads = <<>>

IndInv ==
  TypeOK /\ Places /\ Walk /\ Handed /\ ListAgrees /\ Reported /\ Joined

----------------------------------------------------------------------------
(* Liveness *)

\* SetActive(false) returns: no listener stays in accept, and no thread waits for a lock for ever.
Deactivates ==
  At(MAIN, "terminate") ~> (pc[MAIN] \in {"inactive", "destroyed"} \/ undefined)

\* A peer thread whose socket was closed, by SetActive(false) or after its client left, ends: with
\* its IO handler in place every way of the read and of CheckForDisconnect leads to the end.  The
\* premise leaves out the threads for which Disconnect() is ever called, by a handler or by Run
\* after a reset: it frees the IO handler, and DisconnectedStops says what comes of that.
PeersEnd ==
  \A p \in Peers :
    []~At(p, "disconnect") =>
      ((conn[p].live /\ ~conn[p].open) ~> (At(p, "ended") \/ undefined))

\* "Stop this thread if we were disconnected" (CPeerThread::BeforeRun, and the same test in Run): a
\* peer thread whose connection was disconnected does not go on to serve it.
DisconnectedStops ==
  [][\A p \in Peers :
       At(p, "check") /\ ~conn[p].io /\ ~At(p, "check")' => ~At(p, "execute")']_vars
=============================================================================
