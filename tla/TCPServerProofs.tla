-------------------------- MODULE TCPServerProofs --------------------------
(***************************************************************************)
(* Proofs about TCPServer, for every number of bindings, every set of peer   *)
(* threads and every bound on the wait of TerminateAllThreads.               *)
(***************************************************************************)
EXTENDS TCPServer, ListLemmas

LEMMA Names ==
  /\ MAIN \notin Listeners /\ MAIN \notin Peers /\ NIL \notin Peers /\ NIL # MAIN
  /\ \A l \in Listeners : l \notin Peers /\ l # NIL
BY NameAssumption DEF Threads

LEMMA PeerGoes ==
  ASSUME IndInv, TypeOK', NEW p \in Peers, NEW there,
         pc' = [pc EXCEPT ![p] = there],
         there \in Serving \cup {"release", "free", "remove"},
         pc[p] \in Serving <=> there \in Serving,
         pc[p] \notin {"none", "ended"},
         pc[p] \in {"new", "asleep"} /\ suspended[p] => there \in {"new", "asleep"},
         UNCHANGED <<threads, lock, pending, suspended, idx, timedOut>>,
         \A q \in Peers : conn'[q].live = conn[q].live,
         \A q \in Peers \ {p} : told'[q] = told[q],
         there \in {"cleanup", "release", "free", "remove"} => told'[p] \in {"refused", "disconnected"},
         closing'[MAIN] = closing[MAIN]
  PROVE  IndInv'
<1>0. /\ MAIN # p /\ p \notin Listeners /\ p \in Threads \cup {MAIN}
      /\ \A l \in Listeners : l # p /\ l \in Threads \cup {MAIN}
      /\ \A q \in Peers : q \in Threads \cup {MAIN}
      /\ MAIN \in Threads \cup {MAIN}
  BY Names DEF Threads
<1>1. pc'[p] = there /\ \A t \in Threads \cup {MAIN} : t # p => pc'[t] = pc[t]
  BY <1>0 DEF IndInv, TypeOK
<1>a. pc'[MAIN] = pc[MAIN] BY <1>0, <1>1
<1>b. \A l \in Listeners : pc'[l] = pc[l] BY <1>0, <1>1
<1>c. \A q \in Peers \ {p} : pc'[q] = pc[q] BY <1>0, <1>1
<1>2. Places' BY <1>1, <1>a, <1>b, <1>c DEF IndInv, Places, Serving, Leaving
<1>3. Walk' BY <1>a DEF IndInv, Walk
<1>4. Handed' BY <1>1, <1>b, <1>c DEF IndInv, Handed, Serving
<1>5. ListAgrees' BY <1>1, <1>b, <1>c DEF IndInv, ListAgrees, Listed, Serving
<1>6. Reported' BY <1>1, <1>c DEF IndInv, Reported, Serving, Leaving
<1>7. Joined' BY <1>a, <1>b DEF IndInv, Joined
<1> QED BY <1>2, <1>3, <1>4, <1>5, <1>6, <1>7 DEF IndInv

LEMMA Records ==
  /\ Accepted \in ConnRec /\ NoConnection \in ConnRec
  /\ \A c \in ConnRec, b \in BOOLEAN :
       /\ [c EXCEPT !.graceful = b] \in ConnRec
       /\ [c EXCEPT !.open = b] \in ConnRec
       /\ [c EXCEPT !.binding = b] \in ConnRec
       /\ [c EXCEPT !.remote = b] \in ConnRec
       /\ [c EXCEPT !.io = FALSE, !.binding = FALSE] \in ConnRec
  /\ \A r \in SocketRec : [r EXCEPT !.open = FALSE] \in SocketRec
                          /\ [r EXCEPT !.allocated = FALSE] \in SocketRec
  /\ [allocated |-> TRUE, open |-> TRUE] \in SocketRec
BY DEF ConnRec, SocketRec, Accepted, NoConnection

LEMMA Types ==
  ASSUME TypeOK, Handed, Next
  PROVE  TypeOK'
<1>k. conn \in [Peers -> ConnRec] BY DEF TypeOK
<1>t. Listeners \subseteq Threads /\ Peers \subseteq Threads /\ Peers \cap Listeners = {}
      /\ MAIN \notin Threads
  BY NameAssumption DEF Threads
<1>p. {"none", "new", "asleep", "run", "check", "disconnect", "execute", "forever", "after",
       "cleanup", "release", "free", "remove", "ended", "insert", "accept", "add", "start",
       "create", "resume", "active", "terminate", "close", "reset", "join", "lock", "each",
       "next", "wait", "inactive", "destroyed", "failed", "torn"} \subseteq AllPlaces
  BY DEF AllPlaces, MainPlaces, ListenerPlaces, Serving, Leaving
<1> USE <1>t, <1>p
<1>g. \A t \in Threads \cup {MAIN}, x \in AllPlaces : Go(t, x) => pc' \in [Threads \cup {MAIN} -> AllPlaces]
  BY DEF TypeOK, Go
<1>u. ASSUME Undefined PROVE TypeOK'
  BY <1>u DEF TypeOK, Undefined, flags, list
<1>c. ASSUME NEW t \in Peers \cup {MAIN}, NEW q, Closing(t, q) PROVE TypeOK'
  <2>1. CASE DisconnectSocket(t, q)
    <3>1. conn' \in [Peers -> ConnRec] BY ZenonT(40), <1>k, <2>1 DEF DisconnectSocket, ConnRec
    <3> QED BY <2>1, <3>1 DEF TypeOK, DisconnectSocket, flags, list
  <2>2. CASE CloseSocket(t, q)
    <3>1. conn' \in [Peers -> ConnRec] BY ZenonT(40), <1>k, <2>2 DEF CloseSocket, ConnRec
    <3> QED BY <2>2, <3>1 DEF TypeOK, CloseSocket, flags, list
  <2>3. CASE FreeBinding(t, q)
    <3>1. CASE ~conn[q].binding BY <1>u, <2>3, <3>1 DEF TypeOK, FreeBinding
    <3>2. CASE conn[q].binding
      <4>1. conn' \in [Peers -> ConnRec] 
        <5>1. conn' = [conn EXCEPT ![q].binding = FALSE] BY <2>3, <3>2 DEF FreeBinding
        <5> QED BY <1>k, <5>1 DEF ConnRec
      <4> QED BY <2>3, <3>2, <4>1 DEF TypeOK, FreeBinding, flags, list
    <3> QED BY <3>1, <3>2
  <2> QED BY <1>c, <2>1, <2>2, <2>3 DEF Closing
<1>1. CASE \E l \in Listeners : ListenerStep(l) \/ AcceptReturns(l)
  <2>0. PICK l \in Listeners : ListenerStep(l) \/ AcceptReturns(l)
    BY <1>1
  <2>1. CASE Suspend(l) BY <2>1 DEF TypeOK, Suspend, Go, flags, list
  <2>2. CASE Listen(l)
    <3>1. pc' \in [Threads \cup {MAIN} -> AllPlaces] BY <1>g, <2>2 DEF TypeOK, Listen
    <3>2. items' \subseteq Threads /\ undefined' \in BOOLEAN BY <2>2 DEF TypeOK, Listen
    <3> QED BY <2>2, <3>1, <3>2 DEF TypeOK, Listen, flags, list
  <2>3. CASE Insert(l) BY <2>3 DEF TypeOK, Insert, Go, flags, list
  <2>4. CASE AddThread(l)
    <3>1. pending[l] \in Peers BY <2>4 DEF TypeOK, AddThread, At, Handed
    <3>2. threads' \in Seq(Peers) BY <2>4, <3>1, Appended DEF TypeOK, AddThread
    <3> QED BY <2>4, <3>2 DEF TypeOK, AddThread, Go, flags, list
  <2>5. CASE Start(l) BY <2>5 DEF TypeOK, Start, Resume, Signalled, flags, list
  <2>6. CASE ListenerCloses(l)
    <3>1. socket' \in [Listeners -> SocketRec] /\ pc' \in [Threads \cup {MAIN} -> AllPlaces]
      <4>1. CASE CloseBinding(l, l, "ended") BY <1>g, <4>1, Records DEF TypeOK, CloseBinding
      <4>2. CASE ResetBinding(l, l, "ended") BY <1>g, <4>2, Records DEF TypeOK, ResetBinding
      <4> QED BY <2>6, <4>1, <4>2 DEF TypeOK, ListenerCloses
    <3> QED BY <2>6, <3>1 DEF TypeOK, ListenerCloses, flags, list
  <2>7. CASE Accept(l)
    <3> PICK p \in Peers : /\ pc' = [pc EXCEPT ![l] = "add", ![p] = "new"]
                           /\ conn' = [conn EXCEPT ![p] = Accepted]
                           /\ pending' = [pending EXCEPT ![l] = p]
      BY <2>7 DEF TypeOK, Accept
    <3>1. conn' \in [Peers -> ConnRec] /\ pending' \in [Listeners -> Peers \cup {NIL}]
      BY Records DEF TypeOK
    <3>2. pc' \in [Threads \cup {MAIN} -> AllPlaces] BY DEF TypeOK
    <3> QED BY <2>7, <3>1, <3>2 DEF TypeOK, Accept, flags, list
  <2>8. CASE AcceptInterrupted(l)
    <3>1. CASE items # {} BY <1>u, <2>8, <3>1 DEF TypeOK, AcceptInterrupted
    <3>2. CASE items = {} 
      <4>1. /\ terminated' = [terminated EXCEPT ![l] = TRUE] /\ Go(l, "run")
            /\ UNCHANGED <<suspended, list, conn, closing, socket, pending, items, told, idx, timedOut, undefined>>
        BY <2>8, <3>2 DEF AcceptInterrupted
      <4> QED BY <4>1, <1>g DEF TypeOK, list
    <3> QED BY <3>1, <3>2
  <2>9. CASE AcceptFails(l) BY <2>9 DEF TypeOK, AcceptFails, Go, flags, list
  <2> QED BY <1>u, <2>0, <2>1, <2>2, <2>3, <2>4, <2>5, <2>6, <2>7, <2>8, <2>9
          DEF ListenerStep, AcceptReturns
<1>2. CASE \E p \in Peers : PeerStep(p) \/ Execute(p) \/ ClientCloses(p)
  <2>0. PICK p \in Peers : PeerStep(p) \/ Execute(p) \/ ClientCloses(p)
    BY <1>2
  <2>1. CASE Suspend(p) BY <2>1 DEF TypeOK, Suspend, Go, flags, list
  <2>2. CASE BeforeRun(p)
    <3>1. told' \in [Peers -> Reports] /\ closing' \in [Peers \cup {MAIN} -> {"no", "test", "close", "free"}]
      BY <2>2 DEF TypeOK, BeforeRun, Reports
    <3>2. pc' \in [Threads \cup {MAIN} -> AllPlaces] BY <1>g, <2>2 DEF TypeOK, BeforeRun
    <3> QED BY <2>2, <3>1, <3>2 DEF TypeOK, BeforeRun, flags, list
  <2>3. CASE Disconnect(p)
    <3>1. CASE MainCloses(p) BY <1>u, <2>3, <3>1 DEF TypeOK, Disconnect
    <3>2. CASE ~MainCloses(p)
      <4>1. /\ conn' = [conn EXCEPT ![p].io = FALSE, ![p].binding = FALSE] /\ Go(p, "check")
            /\ UNCHANGED <<flags, list, closing, socket, pending, items, told, idx, timedOut, undefined>>
        BY <2>3, <3>2 DEF Disconnect
      <4>2. conn' \in [Peers -> ConnRec] BY <1>k, <4>1 DEF ConnRec
      <4> QED BY <1>g, <4>1, <4>2 DEF TypeOK, flags, list
    <3> QED BY <3>1, <3>2
  <2>4. CASE CheckConnected(p) BY ZenonT(40), <2>4 DEF TypeOK, CheckConnected, Connected, Go, flags, list
  <2>5. CASE ExecuteClosed(p) BY Records, <2>5 DEF TypeOK, ExecuteClosed, Go, flags, list
  <2>6. CASE ExecuteForever(p) BY Records, <2>6 DEF TypeOK, ExecuteForever, Go, flags, list
  <2>7. CASE AfterRun(p) BY <2>7 DEF TypeOK, AfterRun, Reports, Go, flags, list
  <2>8. CASE Cleanup(p) BY <2>8, RemovedFirst DEF TypeOK, Cleanup, Go, flags, list
  <2>9. CASE ReleaseThread(p) BY <2>9 DEF TypeOK, ReleaseThread, Go, flags, list
  <2>10. CASE FreeIOHandler(p)
    <3>1. CASE items # {} BY <1>u, <2>10, <3>1 DEF TypeOK, FreeIOHandler
    <3>2. CASE items = {}
      <4>1. /\ conn' = [conn EXCEPT ![p].io = FALSE, ![p].binding = FALSE] /\ Go(p, "remove")
            /\ items' = {p}
            /\ UNCHANGED <<flags, list, closing, socket, pending, told, idx, timedOut, undefined>>
        BY <2>10, <3>2 DEF FreeIOHandler
      <4>2. conn' \in [Peers -> ConnRec] BY <1>k, <4>1 DEF ConnRec
      <4> QED BY <1>g, <4>1, <4>2 DEF TypeOK, flags, list
    <3> QED BY <3>1, <3>2
  <2>11. CASE FreeConnection(p) BY Records, <2>11 DEF TypeOK, FreeConnection, Go, flags, list
  <2>12. CASE Closing(p, p)
    BY <1>c, <2>12
  <2>13. CASE Execute(p)
    <3>1. conn' \in [Peers -> ConnRec] /\ closing' \in [Peers \cup {MAIN} -> {"no", "test", "close", "free"}]
      BY Records, <2>13 DEF TypeOK, Execute
    <3>2. pc' \in [Threads \cup {MAIN} -> AllPlaces] BY <1>g, <2>13 DEF TypeOK, Execute
    <3> QED BY <2>13, <3>1, <3>2 DEF TypeOK, Execute, flags, list
  <2>14. CASE ClientCloses(p) BY Records, <2>14 DEF TypeOK, ClientCloses, flags, list
  <2> QED BY <1>u, <2>0, <2>1, <2>2, <2>3, <2>4, <2>5, <2>6, <2>7, <2>8, <2>9, <2>10, <2>11,
             <2>12, <2>13, <2>14 DEF PeerStep
<1>3. CASE MainStep \/ ActivationFails \/ Deactivate \/ Destroy
  <2>1. CASE CreateListener BY Records, <2>1 DEF TypeOK, CreateListener, flags, list
  <2>2. CASE ResumeListener
    <3>1. idx \in Listeners \/ idx \notin Listeners OBVIOUS
    <3>2. suspended' \in [Threads -> BOOLEAN] BY <2>2 DEF TypeOK, ResumeListener, Resume
    <3>3. Signalled(idx) \in [Threads \cup {MAIN} -> AllPlaces] BY DEF TypeOK, Signalled
    <3>4. pc' \in [Threads \cup {MAIN} -> AllPlaces] BY <2>2, <3>3 DEF TypeOK, ResumeListener
    <3>5. idx' \in Nat \ {0} BY <2>2 DEF TypeOK, ResumeListener
    <3> QED BY <2>2, <3>2, <3>4, <3>5 DEF TypeOK, ResumeListener, flags, list
  <2>3. CASE TerminateListener BY <2>3 DEF TypeOK, TerminateListener, Go, flags, list
  <2>4. CASE CloseListener
    <3>1. socket' \in [Listeners -> SocketRec] /\ pc' \in [Threads \cup {MAIN} -> AllPlaces]
      <4>1. CASE CloseBinding(MAIN, idx, "join") BY <1>g, <4>1, Records DEF TypeOK, CloseBinding
      <4>2. CASE ResetBinding(MAIN, idx, "join") BY <1>g, <4>2, Records DEF TypeOK, ResetBinding
      <4> QED BY <2>4, <4>1, <4>2 DEF TypeOK, CloseListener
    <3> QED BY <2>4, <3>1 DEF TypeOK, CloseListener, flags, list
  <2>5. CASE JoinListener BY <2>5 DEF TypeOK, JoinListener, Go, flags, list
  <2>6. CASE LockThreads BY <2>6 DEF TypeOK, LockThreads, Go, flags, list
  <2>7. CASE DisconnectEach BY <2>7 DEF TypeOK, DisconnectEach, Go, flags, list
  <2>8. CASE NextThread BY <2>8 DEF TypeOK, NextThread, Go, flags, list
  <2>9. CASE UnlockThreads BY <2>9 DEF TypeOK, UnlockThreads, Go, flags, list
  <2>10. CASE WaitThreads
    <3>1. pc' \in [Threads \cup {MAIN} -> AllPlaces]
      BY <1>g, <2>10 DEF TypeOK, WaitThreads
    <3>2. idx' \in Nat \ {0} /\ timedOut' \in BOOLEAN
      <4>1. idx' \in {idx, idx + 1} /\ (timedOut' = timedOut \/ timedOut' = TRUE)
        BY <2>10 DEF WaitThreads
      <4>2. idx \in Nat \ {0} /\ timedOut \in BOOLEAN BY DEF TypeOK
      <4>3. idx' \in Nat \ {0} BY <4>1, <4>2
      <4>4. timedOut' \in BOOLEAN BY <4>1, <4>2, Zenon
      <4> QED BY <4>3, <4>4
    <3> QED BY <2>10, <3>1, <3>2 DEF TypeOK, WaitThreads, flags, list
  <2>11. CASE Closing(MAIN, threads[idx])
    BY <1>c, <2>11
  <2>12. CASE Deactivate BY <2>12 DEF TypeOK, Deactivate, Go, flags, list
  <2>13. CASE Destroy BY <2>13 DEF TypeOK, Destroy, Go, flags, list
  <2>14. CASE ActivationFails
    <3>1. PICK made \in BOOLEAN : socket' = [socket EXCEPT ![idx] = [allocated |-> made, open |-> made]]
      BY <2>14 DEF ActivationFails
    <3>2. [allocated |-> made, open |-> made] \in SocketRec BY DEF SocketRec
    <3>3. socket' \in [Listeners -> SocketRec] BY <3>1, <3>2 DEF TypeOK
    <3> QED BY <2>14, <3>3 DEF TypeOK, ActivationFails, Go, flags, list
  <2> QED BY <1>3, <2>1, <2>2, <2>3, <2>4, <2>5, <2>6, <2>7, <2>8, <2>9, <2>10, <2>11, <2>12,
             <2>13, <2>14 DEF MainStep
<1> QED BY <1>1, <1>2, <1>3 DEF Next

-----------------------------------------------------------------------------
(* Kinds of step, by the thread that moves.                                 *)

\* Nobody moves.
LEMMA NobodyGoes ==
  ASSUME IndInv, TypeOK', UNCHANGED <<pc, threads, lock, pending, suspended, idx, timedOut, told>>,
         \A q \in Peers : conn'[q].live = conn[q].live,
         closing'[MAIN] # "no" => pc[MAIN] = "next"
  PROVE  IndInv'
<1>1. Places' /\ Walk' /\ Handed' BY DEF IndInv, Places, Walk, Handed
<1>2. ListAgrees' BY DEF IndInv, ListAgrees, Listed
<1>3. Reported' /\ Joined' BY DEF IndInv, Reported, Joined
<1> QED BY <1>1, <1>2, <1>3 DEF IndInv

\* A listener moves, and hands nothing over.
LEMMA ListenerGoes ==
  ASSUME IndInv, TypeOK', NEW l \in Listeners, NEW there,
         pc' = [pc EXCEPT ![l] = there],
         there \in ListenerPlaces \ {"none", "add", "start"},
         pc[l] \notin {"none", "add", "start", "ended"},
         UNCHANGED <<threads, lock, pending, suspended, idx, timedOut, told, conn, closing>>
  PROVE  IndInv'
<1>0. /\ MAIN # l /\ l \notin Peers /\ l \in Threads \cup {MAIN}
      /\ \A q \in Peers : q # l /\ q \in Threads \cup {MAIN}
      /\ \A k \in Listeners : k \in Threads \cup {MAIN}
      /\ MAIN \in Threads \cup {MAIN}
  BY Names DEF Threads
<1>1. pc'[l] = there /\ \A t \in Threads \cup {MAIN} : t # l => pc'[t] = pc[t]
  BY <1>0 DEF IndInv, TypeOK
<1>a. pc'[MAIN] = pc[MAIN] BY <1>0, <1>1
<1>b. \A k \in Listeners \ {l} : pc'[k] = pc[k] BY <1>0, <1>1
<1>c. \A q \in Peers : pc'[q] = pc[q] BY <1>0, <1>1
<1>2. Places' BY <1>1, <1>a, <1>b, <1>c DEF IndInv, Places
<1>3. Walk' BY <1>a DEF IndInv, Walk
<1>4. Handed' BY <1>1, <1>b, <1>c DEF IndInv, Handed
<1>5. ListAgrees' BY <1>1, <1>b, <1>c DEF IndInv, ListAgrees, Listed
<1>6. Reported' BY <1>c DEF IndInv, Reported
<1>7. Joined' BY <1>1, <1>a, <1>b DEF IndInv, Joined
<1> QED BY <1>2, <1>3, <1>4, <1>5, <1>6, <1>7 DEF IndInv

\* MAIN moves: what is said of MAIN itself is left to the step.
LEMMA MainGoes ==
  ASSUME IndInv, TypeOK', NEW there,
         pc' = [pc EXCEPT ![MAIN] = there],
         UNCHANGED <<threads, pending, suspended, told, conn>>,
         there \in MainPlaces,
         there \in {"terminate", "close", "reset", "join"} => idx' <= NumBindings,
         there = "active" => idx' = 1, there \notin {"create", "resume"},
         lock' = MAIN <=> there \in {"each", "next"},
         there = "next" => idx' \in DOMAIN threads,
         closing'[MAIN] # "no" => there = "next",
         there \in {"terminate", "close", "reset", "join"} =>
           \A l \in Listeners : l < idx' => pc[l] = "ended",
         there \in {"lock", "each", "next", "wait", "inactive", "destroyed"} =>
           \A l \in Listeners : pc[l] \in {"none", "ended"},
         there \in {"inactive", "destroyed"} /\ ~timedOut' => threads = <<>>
  PROVE  IndInv'
<1>0. /\ \A q \in Peers : q # MAIN /\ q \in Threads \cup {MAIN}
      /\ \A k \in Listeners : k # MAIN /\ k \in Threads \cup {MAIN}
      /\ MAIN \in Threads \cup {MAIN}
  BY Names DEF Threads
<1>1. pc'[MAIN] = there /\ \A t \in Threads \cup {MAIN} : t # MAIN => pc'[t] = pc[t]
  BY <1>0 DEF IndInv, TypeOK
<1>b. \A k \in Listeners : pc'[k] = pc[k] BY <1>0, <1>1
<1>c. \A q \in Peers : pc'[q] = pc[q] BY <1>0, <1>1
<1>2. Places' BY <1>1, <1>b, <1>c DEF IndInv, Places
<1>3. Walk' BY <1>1 DEF IndInv, Walk
<1>4. Handed' BY <1>b, <1>c DEF IndInv, Handed
<1>5. ListAgrees' BY <1>b, <1>c DEF IndInv, ListAgrees, Listed
<1>6. Reported' BY <1>c DEF IndInv, Reported
<1>7. Joined' BY <1>1, <1>b DEF IndInv, Joined
<1> QED BY <1>2, <1>3, <1>4, <1>5, <1>6, <1>7 DEF IndInv

LEMMA UndefinedSteps ==
  ASSUME IndInv, TypeOK', Undefined
  PROVE  IndInv'
BY NobodyGoes DEF Undefined, flags, list, IndInv, Walk

LEMMA ClosingSteps ==
  ASSUME IndInv, TypeOK', NEW t \in Peers \cup {MAIN}, NEW q, Closing(t, q),
         t = MAIN => pc[MAIN] = "next"
  PROVE  IndInv'
<1>1. CASE Undefined BY <1>1, UndefinedSteps
<1>2. CASE ~Undefined
  <2>1. /\ UNCHANGED <<pc, threads, lock, pending, suspended, idx, timedOut, told>>
        /\ \E x : closing' = [closing EXCEPT ![t] = x]
    BY <1>2 DEF Closing, DisconnectSocket, CloseSocket, FreeBinding, flags, list
  <2>2. conn' \in {conn, [conn EXCEPT ![q].graceful = TRUE], [conn EXCEPT ![q].open = FALSE],
                   [conn EXCEPT ![q].binding = FALSE]}
    BY <1>2 DEF Closing, DisconnectSocket, CloseSocket, FreeBinding
  <2>3. conn \in [Peers -> ConnRec] /\ closing \in [Peers \cup {MAIN} -> {"no", "test", "close", "free"}]
    BY DEF IndInv, TypeOK
  <2>4. \A r \in Peers : conn'[r].live = conn[r].live
    BY <2>2, <2>3 DEF ConnRec
  <2>5. closing'[MAIN] # "no" => pc[MAIN] = "next"
    <3>1. CASE t = MAIN BY <3>1
    <3>2. CASE t # MAIN
      <4>1. closing'[MAIN] = closing[MAIN] BY <2>1, <2>3, <3>2
      <4> QED BY <4>1 DEF IndInv, Walk
    <3> QED BY <3>1, <3>2
  <2> QED BY <2>1, <2>4, <2>5, NobodyGoes
<1> QED BY <1>1, <1>2

\* Cleanup: the thread, and no other, leaves the list.
LEMMA CleanupSteps ==
  ASSUME IndInv, TypeOK', NEW p \in Peers, Cleanup(p)
  PROVE  IndInv'
<1> USE DEF Cleanup, Go, At, flags, list
<1>0. /\ MAIN # p /\ p \notin Listeners /\ p \in Threads \cup {MAIN}
      /\ \A l \in Listeners : l # p /\ l \in Threads \cup {MAIN}
      /\ \A q \in Peers : q \in Threads \cup {MAIN}
      /\ MAIN \in Threads \cup {MAIN} /\ NIL # MAIN
  BY Names DEF Threads
<1>1. pc'[p] = "release" /\ \A t \in Threads \cup {MAIN} : t # p => pc'[t] = pc[t]
  BY <1>0 DEF IndInv, TypeOK
<1>a. pc'[MAIN] = pc[MAIN] /\ pc[MAIN] \notin {"each", "next"}
  BY <1>0, <1>1 DEF IndInv, Walk
<1>b. \A l \in Listeners : pc'[l] = pc[l] BY <1>0, <1>1
<1>c. \A q \in Peers \ {p} : pc'[q] = pc[q] BY <1>0, <1>1
<1>2. /\ \A i, j \in DOMAIN threads' : threads'[i] = threads'[j] => i = j
      /\ Listed' = Listed \ {p}
  <2>1. threads \in Seq(Peers) /\ NoDuplicates(threads)
    BY DEF IndInv, TypeOK, ListAgrees, NoDuplicates
  <2>2. /\ NoDuplicates(RemoveFirst(threads, p))
        /\ Members(RemoveFirst(threads, p)) = Members(threads) \ {p}
    BY <2>1, RemovedFirst
  <2> QED BY <2>2 DEF NoDuplicates, Members, Listed
<1>3. Places' BY <1>1, <1>a, <1>b, <1>c DEF IndInv, Places, Serving, Leaving
<1>4. Walk' BY <1>a DEF IndInv, Walk
<1>5. Handed' BY <1>1, <1>b, <1>c DEF IndInv, Handed
<1>6. ListAgrees' BY <1>1, <1>2, <1>b, <1>c DEF IndInv, ListAgrees, Serving
<1>7. Reported' BY <1>1, <1>c DEF IndInv, Reported, Leaving
<1>8. Joined'
  <2>1. ASSUME pc[MAIN] \in {"inactive", "destroyed"}, ~timedOut PROVE threads' = <<>>
    <3>1. p \in Listed BY <2>1 DEF IndInv, ListAgrees, Joined, Serving
    <3> QED BY <2>1, <3>1 DEF IndInv, Joined, Listed
  <2> QED BY <1>a, <1>b, <2>1 DEF IndInv, Joined
<1> QED BY <1>3, <1>4, <1>5, <1>6, <1>7, <1>8 DEF IndInv

\* The connection is gone when its thread ends.
LEMMA FreeConnectionSteps ==
  ASSUME IndInv, TypeOK', NEW p \in Peers, FreeConnection(p)
  PROVE  IndInv'
<1> USE DEF FreeConnection, Go, At, flags, list
<1>0. /\ MAIN # p /\ p \notin Listeners /\ p \in Threads \cup {MAIN}
      /\ \A l \in Listeners : l # p /\ l \in Threads \cup {MAIN}
      /\ \A q \in Peers : q \in Threads \cup {MAIN}
      /\ MAIN \in Threads \cup {MAIN}
  BY Names DEF Threads
<1>1. pc'[p] = "ended" /\ \A t \in Threads \cup {MAIN} : t # p => pc'[t] = pc[t]
  BY <1>0 DEF IndInv, TypeOK
<1>a. pc'[MAIN] = pc[MAIN] BY <1>0, <1>1
<1>b. \A l \in Listeners : pc'[l] = pc[l] BY <1>0, <1>1
<1>c. \A q \in Peers \ {p} : pc'[q] = pc[q] BY <1>0, <1>1
<1>d. ~conn'[p].live /\ \A q \in Peers \ {p} : conn'[q] = conn[q]
  BY DEF IndInv, TypeOK, NoConnection
<1>2. Places' BY <1>1, <1>a, <1>b, <1>c DEF IndInv, Places, Leaving
<1>3. Walk' BY <1>a DEF IndInv, Walk
<1>4. Handed' BY <1>1, <1>b, <1>c DEF IndInv, Handed
<1>5. ListAgrees' BY <1>1, <1>b, <1>c, <1>d DEF IndInv, ListAgrees, Listed, Serving
<1>6. Reported' BY <1>1, <1>c DEF IndInv, Reported, Leaving
<1>7. Joined' BY <1>a, <1>b DEF IndInv, Joined
<1> QED BY <1>2, <1>3, <1>4, <1>5, <1>6, <1>7 DEF IndInv

LEMMA PeerSteps ==
  ASSUME IndInv, TypeOK', NEW p \in Peers, PeerStep(p) \/ Execute(p) \/ ClientCloses(p)
  PROVE  IndInv'
<1> USE DEF Go, At, flags, list
<1>0. /\ p # MAIN /\ p \in Peers \cup {MAIN} /\ MAIN \in Peers \cup {MAIN}
      /\ conn \in [Peers -> ConnRec] /\ told \in [Peers -> Reports]
      /\ closing \in [Peers \cup {MAIN} -> {"no", "test", "close", "free"}]
  BY Names DEF IndInv, TypeOK
<1>u. CASE Undefined BY <1>u, UndefinedSteps
<1>c. \A x : [closing EXCEPT ![p] = x][MAIN] = closing[MAIN]
  BY <1>0
<1>l. \A b : \A q \in Peers : /\ [conn EXCEPT ![p].graceful = b][q].live = conn[q].live
                             /\ [conn EXCEPT ![p].remote = b][q].live = conn[q].live
                             /\ [conn EXCEPT ![p].io = FALSE, ![p].binding = FALSE][q].live = conn[q].live
  BY <1>0 DEF ConnRec
<1>t. \A x : \A q \in Peers \ {p} : [told EXCEPT ![p] = x][q] = told[q] /\ [told EXCEPT ![p] = x][p] = x
  BY <1>0
<1>1. CASE Suspend(p)
  <2>1. PICK there : /\ there = IF suspended[p] THEN "asleep" ELSE "run"
                     /\ pc' = [pc EXCEPT ![p] = there]
    BY <1>1 DEF Suspend
  <2> QED BY <1>1, <2>1, PeerGoes DEF Suspend, Serving
<1>2. CASE BeforeRun(p)
  <2>1. PICK there \in {"check", "disconnect", "cleanup"} :
          /\ pc' = [pc EXCEPT ![p] = there]
          /\ \E x : told' = [told EXCEPT ![p] = x] /\ (there = "cleanup" => x = "refused")
          /\ closing' = closing \/ closing' = [closing EXCEPT ![p] = "test"]
    BY <1>2 DEF BeforeRun
  <2>2. \A q \in Peers \ {p} : told'[q] = told[q] BY <1>t, <2>1
  <2>3. there = "cleanup" => told'[p] = "refused" BY <1>0, <2>1
  <2>4. closing'[MAIN] = closing[MAIN] BY <1>c, <2>1
  <2> QED BY <1>2, <2>1, <2>2, <2>3, <2>4, PeerGoes DEF BeforeRun, Serving
<1>3. CASE Disconnect(p)
  <2>1. CASE ~MainCloses(p)
    <3>1. \A q \in Peers : conn'[q].live = conn[q].live BY <1>l, <1>3, <2>1 DEF Disconnect
    <3> QED BY <1>3, <2>1, <3>1, PeerGoes DEF Disconnect, Serving
  <2> QED BY <1>u, <1>3, <2>1 DEF Disconnect
<1>4. CASE CheckConnected(p)
  <2>1. CASE ClosesFirst(conn[p])
    <3>1. closing'[MAIN] = closing[MAIN] BY <1>c, <1>4, <2>1 DEF CheckConnected
    <3> QED BY <1>4, <2>1, <3>1, NobodyGoes DEF CheckConnected, IndInv, Walk
  <2>2. CASE ~ClosesFirst(conn[p])
    <3>1. PICK there \in {"execute", "after"} : pc' = [pc EXCEPT ![p] = there]
      BY <1>4, <2>2 DEF CheckConnected
    <3> QED BY <1>4, <2>2, <3>1, PeerGoes DEF CheckConnected, Serving
  <2> QED BY <2>1, <2>2
<1>5. CASE ExecuteClosed(p)
  <2>1. \A q \in Peers : conn'[q].live = conn[q].live BY <1>l, <1>5 DEF ExecuteClosed
  <2> QED BY <1>5, <2>1, PeerGoes DEF ExecuteClosed, Serving
<1>6. CASE ExecuteForever(p)
  <2>1. \A q \in Peers : conn'[q].live = conn[q].live BY <1>l, <1>6 DEF ExecuteForever
  <2> QED BY <1>6, <2>1, PeerGoes DEF ExecuteForever, Serving
<1>7. CASE AfterRun(p)
  <2>1. told'[p] = "disconnected" /\ \A q \in Peers \ {p} : told'[q] = told[q]
    BY <1>0, <1>7 DEF AfterRun
  <2> QED BY <1>7, <2>1, PeerGoes DEF AfterRun, Serving
<1>8. CASE ReleaseThread(p)
  <2>1. closing'[MAIN] = closing[MAIN] BY <1>c, <1>8 DEF ReleaseThread
  <2>2. told[p] \in {"refused", "disconnected"} BY <1>8 DEF ReleaseThread, IndInv, Reported, Leaving
  <2> QED BY <1>8, <2>1, <2>2, PeerGoes DEF ReleaseThread, Serving
<1>9. CASE FreeIOHandler(p)
  <2>1. CASE items = {}
    <3>1. \A q \in Peers : conn'[q].live = conn[q].live BY <1>l, <1>9, <2>1 DEF FreeIOHandler
    <3>2. told[p] \in {"refused", "disconnected"} BY <1>9 DEF FreeIOHandler, IndInv, Reported, Leaving
    <3> QED BY <1>9, <2>1, <3>1, <3>2, PeerGoes DEF FreeIOHandler, Serving
  <2> QED BY <1>u, <1>9, <2>1 DEF FreeIOHandler
<1>10. CASE Execute(p)
  <2>1. PICK there \in {"check", "disconnect", "after"} :
          /\ pc' = [pc EXCEPT ![p] = there]
          /\ closing' = closing \/ closing' = [closing EXCEPT ![p] = "test"]
    BY <1>10 DEF Execute
  <2>2. \A q \in Peers : conn'[q].live = conn[q].live BY <1>l, <1>10 DEF Execute
  <2>3. closing'[MAIN] = closing[MAIN] BY <1>c, <2>1
  <2> QED BY <1>10, <2>1, <2>2, <2>3, PeerGoes DEF Execute, Serving
<1>11. CASE ClientCloses(p)
  <2>1. \A q \in Peers : conn'[q].live = conn[q].live BY <1>l, <1>11 DEF ClientCloses
  <2> QED BY <1>11, <2>1, NobodyGoes DEF ClientCloses, IndInv, Walk
<1>12. CASE Closing(p, p) BY <1>0, <1>12, ClosingSteps
<1>13. CASE Cleanup(p) BY <1>13, CleanupSteps
<1>14. CASE FreeConnection(p) BY <1>14, FreeConnectionSteps
<1> QED BY <1>u, <1>1, <1>2, <1>3, <1>4, <1>5, <1>6, <1>7, <1>8, <1>9, <1>10, <1>11, <1>12,
           <1>13, <1>14 DEF PeerStep

\* Accept hands an unborn peer thread a connection, and keeps it until it is listed and started.
LEMMA AcceptSteps ==
  ASSUME IndInv, TypeOK', NEW l \in Listeners, Accept(l)
  PROVE  IndInv'
<1> USE DEF At, flags, list
<1> PICK p \in Peers : /\ pc[p] = "none"
                       /\ pc' = [pc EXCEPT ![l] = "add", ![p] = "new"]
                       /\ conn' = [conn EXCEPT ![p] = Accepted]
                       /\ pending' = [pending EXCEPT ![l] = p]
  BY DEF Accept
<1>0. /\ MAIN # p /\ p # l /\ p \notin Listeners /\ l # MAIN /\ l \notin Peers
      /\ \A k \in Listeners : k # p /\ k \in Threads \cup {MAIN}
      /\ \A q \in Peers : q # l /\ q # NIL /\ q \in Threads \cup {MAIN}
      /\ MAIN \in Threads \cup {MAIN} /\ p \in Threads \cup {MAIN}
  BY Names DEF Threads
<1>1. /\ pc'[p] = "new" /\ pc'[l] = "add" /\ pc[l] = "accept"
      /\ \A t \in Threads \cup {MAIN} : t # p /\ t # l => pc'[t] = pc[t]
  BY <1>0 DEF IndInv, TypeOK, Accept
<1>a. pc'[MAIN] = pc[MAIN] BY <1>0, <1>1
<1>b. \A k \in Listeners \ {l} : pc'[k] = pc[k] BY <1>0, <1>1
<1>c. \A q \in Peers \ {p} : pc'[q] = pc[q] BY <1>0, <1>1
<1>d. conn'[p].live /\ \A q \in Peers \ {p} : conn'[q] = conn[q]
  BY DEF IndInv, TypeOK, Accepted
<1>e. pending'[l] = p /\ \A k \in Listeners \ {l} : pending'[k] = pending[k]
  BY DEF IndInv, TypeOK
<1>f. UNCHANGED <<threads, lock, suspended, idx, timedOut, told, closing>>
  BY DEF Accept
<1>2. Places' BY <1>1, <1>a, <1>b, <1>c, <1>f DEF IndInv, Places, Serving, ListenerPlaces
<1>3. Walk' BY <1>a, <1>f DEF IndInv, Walk
<1>4. Handed'
  <2>1. \A k \in Listeners : pending[k] # p BY DEF IndInv, Handed
  <2>2. pending[l] \notin Peers BY <1>1 DEF IndInv, Handed
  <2>3. \A k \in Listeners : pc'[k] \in {"add", "start"} <=> pending'[k] \in Peers
    BY ZenonT(40), <1>1, <1>b, <1>e DEF IndInv, Handed
  <2>4. \A j, k \in Listeners : pending'[j] = pending'[k] => j = k \/ pending'[j] = NIL
    BY <1>e, <2>1 DEF IndInv, Handed
  <2>5. \A k \in Listeners : pending'[k] \in Peers => pc'[pending'[k]] \in {"new", "asleep"}
                                                    /\ suspended'[pending'[k]]
    <3>1. suspended[p] BY DEF IndInv, Handed
    <3> TAKE k \in Listeners
    <3>2. CASE k = l BY <1>1, <1>e, <1>f, <3>1, <3>2
    <3>3. CASE k # l
      <4>1. pending'[k] = pending[k] /\ pending[k] # p BY <1>e, <2>1, <3>3
      <4>2. pending[k] \in Peers => pc[pending[k]] \in {"new", "asleep"} /\ suspended[pending[k]]
        BY DEF IndInv, Handed
      <4> QED BY <1>c, <1>f, <4>1, <4>2
    <3> QED BY <3>2, <3>3
  <2>6. \A q \in Peers : pc'[q] = "none" => suspended'[q]
    BY <1>1, <1>c, <1>f DEF IndInv, Handed
  <2> QED BY <2>3, <2>4, <2>5, <2>6 DEF Handed
<1>5. ListAgrees'
  <2>1. p \notin Listed /\ Listed' = Listed BY <1>f DEF IndInv, ListAgrees, Listed, Serving
  <2>2. p \in Listed' <=> pc'[p] \in Serving /\ \A k \in Listeners : pc'[k] = "add" => pending'[k] # p
    BY <1>1, <1>e, <2>1
  <2>3. \A q \in Peers \ {p} :
          q \in Listed' <=> pc'[q] \in Serving /\ \A k \in Listeners : pc'[k] = "add" => pending'[k] # q
    <3> TAKE q \in Peers \ {p}
    <3>1. \A k \in Listeners : (pc'[k] = "add" => pending'[k] # q)
                              <=> (pc[k] = "add" => pending[k] # q)
      BY <1>1, <1>b, <1>e
    <3>2. q \in Listed <=> pc[q] \in Serving /\ \A k \in Listeners : pc[k] = "add" => pending[k] # q
      BY DEF IndInv, ListAgrees
    <3> QED BY <1>c, <2>1, <3>1, <3>2
  <2> QED BY ZenonT(40), <1>1, <1>c, <1>d, <1>f, <2>2, <2>3 DEF IndInv, ListAgrees
<1>6. Reported' BY <1>1, <1>c, <1>f DEF IndInv, Reported, Leaving
<1>7. Joined' BY <1>1, <1>a, <1>b, <1>f DEF IndInv, Joined
<1> QED BY <1>2, <1>3, <1>4, <1>5, <1>6, <1>7 DEF IndInv

\* The handed thread is listed, then started.
LEMMA HandingSteps ==
  ASSUME IndInv, TypeOK', NEW l \in Listeners, AddThread(l) \/ Start(l)
  PROVE  IndInv'
<1> DEFINE p == pending[l]
<1> USE DEF At, Go, flags, list
<1>0. /\ l # MAIN /\ l \notin Peers /\ l # NIL
      /\ \A k \in Listeners : k \in Threads \cup {MAIN} /\ k \notin Peers
      /\ \A q \in Peers : q # l /\ q # NIL /\ q # MAIN /\ q \in Threads \cup {MAIN}
      /\ MAIN \in Threads \cup {MAIN} /\ NIL # MAIN /\ MAIN \notin Listeners
  BY Names DEF Threads
<1>1. p \in Peers /\ pc[p] \in {"new", "asleep"} /\ suspended[p]
  BY DEF AddThread, Start, IndInv, Handed
<1>2. CASE AddThread(l)
  <2>1. /\ pc'[l] = "start" /\ pc[l] = "add"
        /\ \A t \in Threads \cup {MAIN} : t # l => pc'[t] = pc[t]
    BY <1>0, <1>2 DEF AddThread, IndInv, TypeOK
  <2>a. pc'[MAIN] = pc[MAIN] /\ pc[MAIN] \notin {"each", "next"}
    BY <1>0, <1>2, <2>1 DEF AddThread, IndInv, Walk
  <2>b. \A k \in Listeners \ {l} : pc'[k] = pc[k] BY <1>0, <2>1
  <2>c. \A q \in Peers : pc'[q] = pc[q] BY <1>0, <2>1
  <2>f. UNCHANGED <<lock, suspended, pending, idx, timedOut, told, closing, conn>>
    BY <1>2 DEF AddThread
  <2>2. /\ \A i, j \in DOMAIN threads' : threads'[i] = threads'[j] => i = j
        /\ Listed' = Listed \cup {p}
    <3>1. threads \in Seq(Peers) /\ NoDuplicates(threads)
      BY DEF IndInv, TypeOK, ListAgrees, NoDuplicates
    <3>2. p \notin Members(threads) /\ p \notin Listed
      BY <1>1, <2>1 DEF IndInv, ListAgrees, Listed, Members
    <3>3. threads' = Append(threads, p) BY <1>2, <3>2 DEF AddThread
    <3>4. NoDuplicates(Append(threads, p)) /\ Members(Append(threads, p)) = Members(threads) \cup {p}
      BY <1>1, <3>1, <3>2, Appended
    <3> QED BY <3>3, <3>4 DEF NoDuplicates, Members, Listed
  <2>3. Places' BY <2>1, <2>a, <2>b, <2>c, <2>f DEF IndInv, Places, ListenerPlaces
  <2>4. Walk' BY <2>a, <2>f DEF IndInv, Walk
  <2>5. Handed' BY <2>1, <2>b, <2>c, <2>f DEF IndInv, Handed
  <2>6. ListAgrees'
    <3>1. \A k \in Listeners \ {l} : pending[k] # p BY <1>0, <1>1 DEF IndInv, Handed
    <3>2. p \in Listed' <=> pc'[p] \in Serving /\ \A k \in Listeners : pc'[k] = "add" => pending'[k] # p
      BY <1>1, <2>1, <2>2, <2>c, <2>f, <3>1 DEF Serving
    <3>3. \A q \in Peers \ {p} :
            q \in Listed' <=> pc'[q] \in Serving /\ \A k \in Listeners : pc'[k] = "add" => pending'[k] # q
      BY <2>1, <2>2, <2>b, <2>c, <2>f DEF IndInv, ListAgrees
    <3> QED BY <2>2, <2>c, <2>f, <3>2, <3>3 DEF IndInv, ListAgrees
  <2>7. Reported' BY <2>c, <2>f DEF IndInv, Reported
  <2>8. Joined' BY <2>1, <2>a, <2>b, <2>f DEF IndInv, Joined
  <2> QED BY <2>3, <2>4, <2>5, <2>6, <2>7, <2>8 DEF IndInv
<1>3. CASE Start(l)
  <2>1. /\ pc'[l] = "run" /\ pc[l] = "start" /\ pc'[p] \in {"new", "run"}
        /\ \A t \in Threads \cup {MAIN} : t # l /\ t # p => pc'[t] = pc[t]
    <3>1. pc' = [Signalled(p) EXCEPT ![l] = "run"] BY <1>3 DEF Start
    <3> QED BY <1>0, <1>1, <1>3, <3>1 DEF Start, Signalled, IndInv, TypeOK
  <2>a. pc'[MAIN] = pc[MAIN] BY <1>0, <1>1, <2>1
  <2>b. \A k \in Listeners \ {l} : pc'[k] = pc[k] BY <1>0, <1>1, <2>1
  <2>c. \A q \in Peers \ {p} : pc'[q] = pc[q] BY <1>0, <2>1
  <2>e. /\ pending'[l] = NIL /\ \A k \in Listeners \ {l} : pending'[k] = pending[k]
        /\ \A q \in Peers \ {p} : suspended'[q] = suspended[q]
    BY <1>0, <1>1, <1>3 DEF Start, Resume, IndInv, TypeOK, Threads
  <2>f. UNCHANGED <<threads, lock, idx, timedOut, told, closing, conn>>
    BY <1>3 DEF Start
  <2>3. Places' BY <2>1, <2>a, <2>b, <2>c, <2>f DEF IndInv, Places, ListenerPlaces, Serving
  <2>4. Walk' BY <2>a, <2>f DEF IndInv, Walk
  <2>5. Handed'
    <3>1. \A k \in Listeners \ {l} : pending[k] # p BY <1>0, <1>1 DEF IndInv, Handed
    <3> QED BY <1>0, <1>1, <2>1, <2>b, <2>c, <2>e, <3>1 DEF IndInv, Handed
  <2>6. ListAgrees'
    <3>1. Listed' = Listed /\ pc[p] \in Serving /\ pc'[p] \in Serving
      BY <1>1, <2>1, <2>f DEF Listed, Serving
    <3>2. \A q \in Peers :
            q \in Listed' <=> pc'[q] \in Serving /\ \A k \in Listeners : pc'[k] = "add" => pending'[k] # q
      BY <2>1, <2>b, <2>c, <2>e, <3>1 DEF IndInv, ListAgrees
    <3> QED BY <1>1, <2>1, <2>c, <2>f, <3>2 DEF IndInv, ListAgrees
  <2>7. Reported' BY <2>1, <2>c, <2>f DEF IndInv, Reported, Leaving
  <2>8. Joined' BY <2>1, <2>a, <2>b, <2>f DEF IndInv, Joined
  <2> QED BY <2>3, <2>4, <2>5, <2>6, <2>7, <2>8 DEF IndInv
<1> QED BY <1>2, <1>3

LEMMA ListenerSteps ==
  ASSUME IndInv, TypeOK', NEW l \in Listeners, ListenerStep(l) \/ AcceptReturns(l)
  PROVE  IndInv'
<1> USE DEF Go, At, flags, list, ListenerPlaces
<1>u. CASE Undefined BY <1>u, UndefinedSteps
<1>1. CASE Suspend(l)
  <2>1. PICK there \in {"asleep", "run"} : pc' = [pc EXCEPT ![l] = there]
    BY <1>1 DEF Suspend
  <2> QED BY <1>1, <2>1, ListenerGoes DEF Suspend
<1>2. CASE Listen(l)
  <2>1. CASE pc' = pc BY <1>2, <2>1, NobodyGoes DEF Listen, IndInv, Walk
  <2>2. CASE pc' # pc
    <3>1. PICK there \in {"close", "insert"} : pc' = [pc EXCEPT ![l] = there]
      BY <1>2, <2>2 DEF Listen
    <3> QED BY <1>2, <3>1, ListenerGoes DEF Listen
  <2> QED BY <2>1, <2>2
<1>3. CASE Insert(l) BY <1>3, ListenerGoes DEF Insert
<1>4. CASE AddThread(l) \/ Start(l) BY <1>4, HandingSteps
<1>5. CASE ListenerCloses(l)
  <2>1. PICK there \in {"reset", "ended"} : pc' = [pc EXCEPT ![l] = there]
    BY <1>5 DEF ListenerCloses, CloseBinding, ResetBinding
  <2>2. pc[l] \in {"close", "reset"} BY <1>5 DEF ListenerCloses
  <2> QED BY <1>5, <2>1, <2>2, ListenerGoes DEF ListenerCloses
<1>6. CASE Accept(l) BY <1>6, AcceptSteps
<1>7. CASE AcceptInterrupted(l)
  <2>1. CASE items = {} BY <1>7, <2>1, ListenerGoes DEF AcceptInterrupted
  <2> QED BY <1>u, <1>7, <2>1 DEF AcceptInterrupted
<1>8. CASE AcceptFails(l) BY <1>8, ListenerGoes DEF AcceptFails
<1> QED BY <1>u, <1>1, <1>2, <1>3, <1>4, <1>5, <1>6, <1>7, <1>8 DEF ListenerStep, AcceptReturns

\* SetActive(true): a listener thread is made, and resumed.
LEMMA StartingSteps ==
  ASSUME IndInv, TypeOK', CreateListener \/ ResumeListener
  PROVE  IndInv'
<1> USE DEF At, flags, list
<1>0. /\ \A q \in Peers : q # MAIN /\ q # idx /\ q \in Threads \cup {MAIN}
      /\ \A k \in Listeners : k # MAIN /\ k \in Threads \cup {MAIN}
      /\ MAIN \in Threads \cup {MAIN} /\ idx # MAIN /\ idx \in Listeners /\ NIL # MAIN
      /\ idx <= NumBindings /\ idx \in Nat /\ NumBindings \in Nat \ {0}
  <2>1. idx <= NumBindings
    BY DEF CreateListener, ResumeListener, IndInv, Places
  <2>2. idx \in Listeners /\ idx \in Nat
    BY <2>1, CountAssumption DEF IndInv, TypeOK, Listeners
  <2> QED BY <2>1, <2>2, Names, CountAssumption DEF Threads
<1>1. /\ pc[MAIN] \in {"create", "resume"}
      /\ \A t \in Threads \cup {MAIN} : t # MAIN /\ t # idx => pc'[t] = pc[t]
      /\ \/ pc'[idx] = pc[idx] /\ pc[idx] # "none"
         \/ pc'[idx] \in {"new", "run"} /\ pc[idx] \in {"none", "asleep"}
      /\ pc'[MAIN] \in {"create", "resume", "active"}
      /\ pc'[MAIN] = "create" => idx' = idx + 1 /\ idx < NumBindings
      /\ pc'[MAIN] = "resume" => idx' = idx
      /\ pc'[MAIN] = "active" => idx' = 1
      /\ \A q \in Peers : suspended'[q] = suspended[q]
      /\ \A l \in Listeners : l > idx => pc[l] = "none"
  <2>0. pc \in [Threads \cup {MAIN} -> AllPlaces] /\ suspended \in [Threads -> BOOLEAN]
    BY DEF IndInv, TypeOK
  <2>1. CASE CreateListener
    <3>1. pc[idx] = "none" /\ \A l \in Listeners : l > idx => pc[l] = "none"
      BY <1>0, <2>1 DEF CreateListener, IndInv, Places, Listeners
    <3> QED BY <1>0, <2>0, <2>1, <3>1 DEF CreateListener
  <2>2. CASE ResumeListener
    <3>1. /\ \A l \in Listeners : l > idx => pc[l] = "none"
          /\ pc[idx] # "none"
      <4>1. \A l \in Listeners : l > idx <=> pc[l] = "none"
        BY <2>2 DEF ResumeListener, IndInv, Places
      <4> QED BY <1>0, <4>1
    <3>2. Signalled(idx) \in [Threads \cup {MAIN} -> AllPlaces]
      BY <2>0 DEF Signalled, AllPlaces, ListenerPlaces
    <3>3. /\ \A t \in Threads \cup {MAIN} : t # idx => Signalled(idx)[t] = pc[t]
          /\ Signalled(idx)[idx] = IF pc[idx] = "asleep" THEN "run" ELSE pc[idx]
      BY <1>0, <2>0 DEF Signalled
    <3>4. PICK there \in {"active", "create"} :
            /\ pc' = [Signalled(idx) EXCEPT ![MAIN] = there]
            /\ there = "create" => idx < NumBindings /\ idx' = idx + 1
            /\ there = "active" => idx' = 1
      BY <2>2 DEF ResumeListener
    <3>5. \A q \in Peers : suspended'[q] = suspended[q]
      BY <1>0, <2>0, <2>2 DEF ResumeListener, Resume, Threads
    <3>7. pc[MAIN] = "resume" BY <2>2 DEF ResumeListener
    <3>8. /\ pc'[MAIN] = there
          /\ \A t \in Threads \cup {MAIN} : t # MAIN => pc'[t] = Signalled(idx)[t]
      BY <1>0, <3>2, <3>4
    <3>9. \A t \in Threads \cup {MAIN} : t # MAIN /\ t # idx => pc'[t] = pc[t]
      BY <3>3, <3>8
    <3>10. pc'[idx] = IF pc[idx] = "asleep" THEN "run" ELSE pc[idx]
      BY <1>0, <3>3, <3>8
    <3> QED BY <1>0, <3>1, <3>4, <3>5, <3>7, <3>8, <3>9, <3>10
  <2> QED BY <2>1, <2>2
<1>f. UNCHANGED <<threads, lock, pending, timedOut, told, closing, conn>>
  BY DEF CreateListener, ResumeListener
<1>b. \A k \in Listeners \ {idx} : pc'[k] = pc[k] BY <1>0, <1>1
<1>c. \A q \in Peers : pc'[q] = pc[q] BY <1>0, <1>1
<1>2. Places'
  <2>1. /\ pc'[MAIN] = "create" => \A l \in Listeners : l >= idx' <=> pc'[l] = "none"
        /\ pc'[MAIN] = "resume" => \A l \in Listeners : l > idx' <=> pc'[l] = "none"
    <3> SUFFICES ASSUME NEW l \in Listeners PROVE l > idx <=> pc'[l] = "none"
      BY <1>0, <1>1 DEF Listeners
    <3>1. CASE l = idx BY <1>0, <1>1, <3>1
    <3>2. CASE l # idx
      <4>1. pc'[l] = pc[l] BY <1>b, <3>2
      <4>2. l > idx <=> pc[l] = "none"
        BY <1>0, <3>2 DEF CreateListener, ResumeListener, IndInv, Places, Listeners
      <4> QED BY <4>1, <4>2
    <3> QED BY <3>1, <3>2
  <2>2. pc'[MAIN] \in {"create", "resume"} => idx' <= NumBindings
    BY <1>0, <1>1
  <2>3. \A l, k \in Listeners : l < k /\ pc'[l] = "none" => pc'[k] = "none"
    <3> SUFFICES ASSUME NEW l \in Listeners, NEW k \in Listeners, l < k, pc'[l] = "none"
                 PROVE  pc'[k] = "none"
      OBVIOUS
    <3>1. pc[l] = "none" BY <1>1, <1>b
    <3>2. pc[k] = "none" BY <3>1 DEF IndInv, Places
    <3>3. CASE k # idx BY <1>b, <3>2, <3>3
    <3>4. CASE k = idx
      <4>1. \A j \in Listeners : j < idx => pc[j] # "none"
        BY <1>0 DEF CreateListener, ResumeListener, IndInv, Places, Listeners
      <4> QED BY <3>1, <3>4, <4>1
    <3> QED BY <3>3, <3>4
  <2> QED BY <1>1, <1>b, <1>c, <2>1, <2>2, <2>3 DEF IndInv, Places, MainPlaces, ListenerPlaces
<1>3. Walk' BY <1>0, <1>1, <1>f DEF IndInv, Walk
<1>4. Handed' BY <1>1, <1>b, <1>c, <1>f DEF IndInv, Handed
<1>5. ListAgrees' BY <1>1, <1>b, <1>c, <1>f DEF IndInv, ListAgrees, Listed
<1>6. Reported' BY <1>c, <1>f DEF IndInv, Reported
<1>7. Joined' BY <1>1 DEF Joined
<1> QED BY <1>2, <1>3, <1>4, <1>5, <1>6, <1>7 DEF IndInv

LEMMA MainSteps ==
  ASSUME IndInv, TypeOK', MainStep \/ ActivationFails \/ Deactivate \/ Destroy
  PROVE  IndInv'
<1> USE DEF Go, At, flags, list
<1>0. idx \in Nat \ {0} /\ NumBindings \in Nat \ {0} /\ NIL # MAIN /\ threads \in Seq(Peers)
  BY CountAssumption, Names DEF IndInv, TypeOK
<1>w. /\ lock = MAIN <=> pc[MAIN] \in {"each", "next"}
      /\ closing[MAIN] # "no" => pc[MAIN] = "next"
  BY DEF IndInv, Walk
<1>j. /\ pc[MAIN] \in {"terminate", "close", "reset", "join"} =>
           idx <= NumBindings /\ \A l \in Listeners : l < idx => pc[l] = "ended"
      /\ pc[MAIN] \in {"lock", "each", "next", "wait", "inactive", "destroyed"} =>
           \A l \in Listeners : pc[l] \in {"none", "ended"}
      /\ pc[MAIN] \in {"inactive", "destroyed"} /\ ~timedOut => threads = <<>>
      /\ pc[MAIN] \in {"create", "resume"} => idx <= NumBindings
      /\ pc[MAIN] = "active" => idx = 1
  BY DEF IndInv, Places, Joined
<1>1. CASE CreateListener \/ ResumeListener BY <1>1, StartingSteps
<1>2. CASE Deactivate
  <2>1. PICK there : there = "terminate" /\ pc' = [pc EXCEPT ![MAIN] = there]
    BY <1>2 DEF Deactivate
  <2>2. idx' = idx /\ idx <= NumBindings /\ \A l \in Listeners : ~(l < idx)
    BY <1>0, <1>2, <1>j DEF Deactivate, Listeners
  <2>3. lock' # MAIN /\ ~(closing'[MAIN] # "no") BY <1>2, <1>w DEF Deactivate
  <2> QED BY ZenonT(40), <1>2, <2>1, <2>2, <2>3, MainGoes DEF Deactivate, MainPlaces
<1>3. CASE TerminateListener
  <2>1. PICK there : there = "close" /\ pc' = [pc EXCEPT ![MAIN] = there]
    BY <1>3 DEF TerminateListener
  <2> QED BY <1>3, <1>w, <1>j, <2>1, MainGoes DEF TerminateListener, MainPlaces
<1>4. CASE CloseListener
  <2>1. PICK there \in {"reset", "join"} : pc' = [pc EXCEPT ![MAIN] = there]
    BY <1>4 DEF CloseListener, CloseBinding, ResetBinding
  <2>2. pc[MAIN] \in {"close", "reset"} BY <1>4 DEF CloseListener
  <2> QED BY <1>4, <1>w, <1>j, <2>1, <2>2, MainGoes DEF CloseListener, MainPlaces
<1>5. CASE JoinListener
  <2>1. CASE LastListener
    <3>1. \A l \in Listeners : pc[l] \in {"none", "ended"}
      <4> TAKE l \in Listeners
      <4>1. l \in Nat /\ l <= NumBindings BY DEF Listeners
      <4>2. CASE l <= idx BY <1>0, <1>5, <1>j, <4>1, <4>2 DEF JoinListener
      <4>3. CASE l > idx
        <5>1. idx + 1 \in Listeners /\ pc[idx + 1] = "none"
          BY <1>0, <2>1, <4>1, <4>3 DEF LastListener, Listeners
        <5>2. l = idx + 1 \/ idx + 1 < l BY <1>0, <4>1, <4>3
        <5> QED BY <5>1, <5>2 DEF IndInv, Places
      <4> QED BY <1>0, <4>1, <4>2, <4>3
    <3>2. PICK there : there = "lock" /\ pc' = [pc EXCEPT ![MAIN] = there]
      BY <1>5, <2>1 DEF JoinListener
    <3>3. UNCHANGED <<threads, pending, suspended, told, conn>> BY <1>5 DEF JoinListener
    <3>4. lock' # MAIN /\ closing'[MAIN] = "no" BY <1>5, <1>w DEF JoinListener
    <3>5. /\ there \in MainPlaces
          /\ there \notin {"terminate", "close", "reset", "join", "active", "create", "resume",
                           "each", "next", "inactive", "destroyed"}
      BY <3>2 DEF MainPlaces
    <3>6. lock' = MAIN <=> there \in {"each", "next"} BY <3>4, <3>5
    <3> HIDE DEF Go, At, flags, list
    <3> QED BY <3>1, <3>2, <3>3, <3>4, <3>5, <3>6, MainGoes, Zenon
  <2>2. CASE ~LastListener
    <3>1. idx + 1 <= NumBindings /\ \A l \in Listeners : l < idx + 1 => pc[l] = "ended"
      BY <1>0, <1>5, <1>j, <2>2 DEF JoinListener, LastListener, Listeners
    <3>2. PICK there : there = "terminate" /\ pc' = [pc EXCEPT ![MAIN] = there]
      BY <1>5, <2>2 DEF JoinListener
    <3> QED BY <1>5, <1>w, <2>2, <3>1, <3>2, MainGoes DEF JoinListener, MainPlaces
  <2> QED BY <2>1, <2>2
<1>6. CASE LockThreads
  <2>1. PICK there : there = "each" /\ pc' = [pc EXCEPT ![MAIN] = there]
    BY <1>6 DEF LockThreads
  <2> QED BY <1>6, <1>w, <1>j, <2>1, MainGoes DEF LockThreads, MainPlaces
<1>7. CASE DisconnectEach
  <2>1. idx \in DOMAIN threads BY <1>0, <1>7 DEF DisconnectEach
  <2>2. PICK there : there = "next" /\ pc' = [pc EXCEPT ![MAIN] = there]
    BY <1>7 DEF DisconnectEach
  <2> QED BY <1>7, <1>w, <1>j, <2>1, <2>2, MainGoes DEF DisconnectEach, MainPlaces
<1>8. CASE NextThread
  <2>1. PICK there : there = "each" /\ pc' = [pc EXCEPT ![MAIN] = there]
    BY <1>8 DEF NextThread
  <2>2. UNCHANGED <<threads, pending, suspended, told, conn>> BY <1>8 DEF NextThread
  <2>3. /\ there \in MainPlaces
        /\ there \notin {"terminate", "close", "reset", "join", "active", "create", "resume",
                         "next", "inactive", "destroyed"}
    BY <2>1 DEF MainPlaces
  <2>4. lock' = MAIN /\ there \in {"each", "next"} BY <1>8, <1>w, <2>1 DEF NextThread
  <2>5. ~(closing'[MAIN] # "no") BY <1>8 DEF NextThread
  <2>6. \A l \in Listeners : pc[l] \in {"none", "ended"} BY <1>8, <1>j DEF NextThread
  <2> HIDE DEF Go, At, flags, list
  <2> QED BY <2>1, <2>2, <2>3, <2>4, <2>5, <2>6, MainGoes, Zenon
<1>9. CASE UnlockThreads
  <2>1. PICK there : there = "wait" /\ pc' = [pc EXCEPT ![MAIN] = there]
    BY <1>9 DEF UnlockThreads
  <2>2. lock' # MAIN /\ closing'[MAIN] = "no" BY <1>0, <1>9, <1>w DEF UnlockThreads
  <2>3. \A l \in Listeners : pc[l] \in {"none", "ended"} BY <1>9, <1>j DEF UnlockThreads
  <2>4. UNCHANGED <<threads, pending, suspended, told, conn>> BY <1>9 DEF UnlockThreads
  <2>5. /\ there \in MainPlaces
        /\ there \notin {"terminate", "close", "reset", "join", "active", "create", "resume",
                         "each", "next", "inactive", "destroyed"}
    BY <2>1 DEF MainPlaces
  <2>6. lock' = MAIN <=> there \in {"each", "next"} BY <2>2, <2>5
  <2> HIDE DEF Go, At, flags, list
  <2> QED BY <2>1, <2>2, <2>3, <2>4, <2>5, <2>6, MainGoes, Zenon
<1>10. CASE WaitThreads
  <2>1. CASE pc' = pc
    <3>1. pc' = [pc EXCEPT ![MAIN] = "wait"]
      BY <1>10, <2>1 DEF WaitThreads, IndInv, TypeOK
    <3> QED BY <1>10, <1>w, <1>j, <3>1, MainGoes DEF WaitThreads, MainPlaces
  <2>2. CASE pc' # pc
    <3>1. /\ pc' = [pc EXCEPT ![MAIN] = "inactive"]
          /\ ~timedOut' => threads = <<>>
      BY <1>10, <2>2 DEF WaitThreads
    <3> QED BY <1>10, <1>w, <1>j, <3>1, MainGoes DEF WaitThreads, MainPlaces
  <2> QED BY <2>1, <2>2
<1>11. CASE At(MAIN, "next") /\ Closing(MAIN, threads[idx]) BY <1>11, ClosingSteps
<1>12. CASE Destroy
  <2>1. CASE pc[MAIN] = "inactive"
    <3>1. PICK there : there = "destroyed" /\ pc' = [pc EXCEPT ![MAIN] = there]
      BY <1>12, <2>1 DEF Destroy
    <3> QED BY <1>12, <1>w, <1>j, <2>1, <3>1, MainGoes DEF Destroy, MainPlaces
  <2>2. CASE pc[MAIN] = "failed"
    <3>1. PICK there : there = "torn" /\ pc' = [pc EXCEPT ![MAIN] = there]
      BY <1>12, <2>2 DEF Destroy
    <3> QED BY <1>12, <1>w, <2>2, <3>1, MainGoes DEF Destroy, MainPlaces
  <2> QED BY <1>12, <2>1, <2>2 DEF Destroy
<1>13. CASE ActivationFails
  <2>1. PICK there : there = "failed" /\ pc' = [pc EXCEPT ![MAIN] = there]
    BY <1>13 DEF ActivationFails
  <2> QED BY <1>13, <1>w, <2>1, MainGoes DEF ActivationFails, MainPlaces
<1> QED BY <1>1, <1>2, <1>3, <1>4, <1>5, <1>6, <1>7, <1>8, <1>9, <1>10, <1>11, <1>12, <1>13 DEF MainStep

-----------------------------------------------------------------------------
(* The invariant holds, and with it what MAIN may rely on.                  *)

LEMMA InitInv == Init => IndInv
<1> SUFFICES ASSUME Init PROVE IndInv OBVIOUS
<1> USE DEF Init
<1>0. /\ MAIN \in Threads \cup {MAIN} /\ pc[MAIN] = "create" /\ NIL # MAIN /\ NIL \notin Peers
      /\ \A t \in Threads : t # MAIN /\ pc[t] = "none"
      /\ Listeners \subseteq Threads /\ Peers \subseteq Threads
  BY Names DEF Threads
<1>1. TypeOK
  <2>1. pc \in [Threads \cup {MAIN} -> AllPlaces] BY DEF AllPlaces, MainPlaces, ListenerPlaces
  <2>2. conn \in [Peers -> ConnRec] BY Records
  <2>3. socket \in [Listeners -> SocketRec] BY DEF SocketRec
  <2>4. told \in [Peers -> Reports] BY DEF Reports
  <2>5. threads \in Seq(Peers) /\ lock \in {MAIN, NIL} /\ items \subseteq Threads OBVIOUS
  <2>6. idx \in Nat \ {0} OBVIOUS
  <2>8. timedOut \in BOOLEAN /\ undefined \in BOOLEAN BY Zenon
  <2>7. /\ suspended \in [Threads -> BOOLEAN] /\ terminated \in [Threads -> BOOLEAN]
        /\ closing \in [Peers \cup {MAIN} -> {"no", "test", "close", "free"}]
        /\ pending \in [Listeners -> Peers \cup {NIL}]
    OBVIOUS
  <2> HIDE DEF Init
  <2> QED BY <2>1, <2>2, <2>3, <2>4, <2>5, <2>6, <2>7, <2>8 DEF TypeOK
<1>2. Places
  <2>1. \A l \in Listeners : l >= 1 BY DEF Listeners
  <2>2. idx = 1 /\ idx <= NumBindings BY CountAssumption
  <2> HIDE DEF Init
  <2> QED BY <1>0, <2>1, <2>2 DEF Places, MainPlaces, ListenerPlaces
<1>3. Walk BY <1>0 DEF Walk
<1>4. Handed BY <1>0 DEF Handed
<1>5. ListAgrees BY <1>0 DEF ListAgrees, NoConnection, Listed, Serving
<1>6. Reported BY <1>0 DEF Reported, Leaving
<1>7. Joined BY <1>0 DEF Joined
<1> QED BY <1>1, <1>2, <1>3, <1>4, <1>5, <1>6, <1>7 DEF IndInv

LEMMA NextInv == IndInv /\ [Next]_vars => IndInv'
<1> SUFFICES ASSUME IndInv, [Next]_vars PROVE IndInv' OBVIOUS
<1>1. CASE UNCHANGED vars
  <2>1. TypeOK' BY <1>1 DEF vars, flags, list, IndInv, TypeOK
  <2> QED BY <1>1, <2>1, NobodyGoes DEF vars, flags, list, IndInv, Walk
<1>2. CASE Next
  <2>1. TypeOK' BY <1>2, Types DEF IndInv
  <2> QED BY <1>2, <2>1, PeerSteps, ListenerSteps, MainSteps DEF Next
<1> QED BY <1>1, <1>2

\* The invariant of the threads, for every number of bindings and every set of peer threads.
THEOREM InvariantHolds == Spec => []IndInv
BY InitInv, NextInv, PTL DEF Spec

LEMMA Relies == IndInv => ThreadsAgree
<1> SUFFICES ASSUME IndInv PROVE ThreadsAgree OBVIOUS
<1>1. ListedIsWhole
  <2>1. \A p \in Listed : p \in Peers BY DEF IndInv, TypeOK, Listed
  <2> QED BY <2>1 DEF ListedIsWhole, IndInv, ListAgrees, Walk, Serving
<1>2. QuietWhenInactive
  <2>0. pc[MAIN] \in {"inactive", "destroyed"} => \A l \in Listeners : ~Listening(l)
    BY DEF IndInv, Joined, Listening
  <2> SUFFICES ASSUME pc[MAIN] \in {"inactive", "destroyed"}, ~timedOut, NEW p \in Peers,
                      pc[p] # "none"
               PROVE  told[p] \in {"refused", "disconnected"}
    BY <2>0 DEF QuietWhenInactive
  <2>1. p \notin Listed /\ \A l \in Listeners : pc[l] # "add"
    BY DEF IndInv, Joined, Listed
  <2> QED BY <2>1 DEF IndInv, ListAgrees, Places, Reported
<1> QED BY <1>1, <1>2 DEF ThreadsAgree, IndInv

\* The thread that deactivates the server may rely on its list: while TerminateAllThreads walks it,
\* every listed thread still has its connection, and when SetActive(false) of a server that had become
\* active returns without giving up,
\* no listener is left and every accepted connection was reported to its end.
THEOREM ThreadsAlwaysAgree == Spec => []ThreadsAgree
BY InvariantHolds, Relies, PTL
=============================================================================
