------------------------------ MODULE CURLClient ------------------------------
(***************************************************************************)
(* CCURLClient of libdelphi (src/src/CURL.cpp): libcurl's multi interface   *)
(* on the event loop.  libcurl says by callbacks which sockets it wants     *)
(* watched and when it wants to be called; the client keeps a handler for   *)
(* each socket and one timer, and tells the application what has become of  *)
(* a fetch.                                                                 *)
(*                                                                         *)
(* libcurl is external: a transfer waits for a socket or for time, moves    *)
(* between sockets, and is finished at some point.  A handler of the list   *)
(* is known by a number that is used again once it is destroyed; a pointer  *)
(* left behind becomes DANGLER.                                             *)
(***************************************************************************)
EXTENDS Integers, SequencesExt

CONSTANTS
  CurlSockets,  \* numbers of the sockets libcurl opens
  MaxFetches    \* bound on the calls of Perform

ASSUME CurlSocketsAssumption == CurlSockets \subseteq Nat \ {0} /\ IsFiniteSet(CurlSockets)

VARIABLES
  fetches,   \* CCurlAsyncFetch: [stage, socket, told]; its stage is libcurl's
  polled,    \* m_pEventHandlers: [type, socket, bound, armed]; bound to the timer, which is armed
  assigned,  \* the handler libcurl was given for a socket (curl_multi_assign)
  asked,     \* libcurl has asked to be called in time
  curl,      \* [timer |-> m_pTimer, running |-> m_StillRunning]
  curlPc,    \* [at, from]: "wait", "batch", or "info" while MultiInfo runs, for a timer or an event
  due,       \* the handlers of the batch whose events are left
  astray     \* [why, wild]: what the client has not recovered from; a destroyed object was used

curlVars == <<fetches, polled, assigned, asked, curl, curlPc, due, astray>>

NoHandler == 0
DANGLER == -1
NoSocket == 0

CurlInit ==
  /\ fetches = <<>> /\ polled = <<>> /\ asked = FALSE
  /\ assigned = [s \in CurlSockets |-> NoHandler]
  /\ curl = [timer |-> NoHandler, running |-> 0]
  /\ curlPc = [at |-> "wait", from |-> "none"] /\ due = <<>>
  /\ astray = [why |-> {}, wild |-> FALSE]

-----------------------------------------------------------------------------
(* The methods are functions on the state w *)

Client == [fetches |-> fetches, polled |-> polled, assigned |-> assigned, asked |-> asked, curl |-> curl,
           astray |-> astray]
Leaves(w) ==
  /\ fetches' = w.fetches /\ polled' = w.polled /\ assigned' = w.assigned /\ asked' = w.asked
  /\ curl' = w.curl /\ astray' = w.astray

Strays(w, why) == [w EXCEPT !.astray.why = @ \cup {why}]
Uses(w, h) == [w EXCEPT !.astray.wild = @ \/ h = DANGLER]

NextHandler(w) == Min((1..(Cardinality(DOMAIN w.polled) + 1)) \ DOMAIN w.polled)
AddHandlers(w, added) ==
  [w EXCEPT !.polled = [h \in DOMAIN w.polled \cup DOMAIN added |->
                          IF h \in DOMAIN added THEN added[h] ELSE w.polled[h]]]
\* CPollEventHandler::Stop
Stop(w, h) == IF h = DANGLER THEN Uses(w, h) ELSE [w EXCEPT !.polled[h].type = "etDelete"]

\* SocketCallBack, by what libcurl says of the sockets. A new handler is at a free place, given[s] for the socket s.
HandlersOf(w, socks) == {w.assigned[s] : s \in socks}
\* CPollEventHandler::Start for etEvent, or Stop, of the handlers of the sockets
Retype(w, socks, type) ==
  [w EXCEPT !.polled = [h \in DOMAIN w.polled |->
                          IF h \in HandlersOf(w, socks) THEN [w.polled[h] EXCEPT !.type = type] ELSE w.polled[h]],
            !.astray.wild = @ \/ DANGLER \in HandlersOf(w, socks)]
SetSocket(w, socks) == Retype(w, socks, "etEvent")
RemoveSocket(w, socks) ==
  [Retype(w, socks, "etDelete") EXCEPT
     !.assigned = [s \in CurlSockets |-> IF s \in socks THEN NoHandler ELSE w.assigned[s]]]
AddSocket(w, given) ==
  LET SocketOf(h) == CHOOSE s \in DOMAIN given : given[s] = h
  IN  [AddHandlers(w, [h \in Range(given) |->
                         [type |-> "etEvent", socket |-> SocketOf(h), bound |-> FALSE, armed |-> FALSE]]) EXCEPT
         !.assigned = [s \in CurlSockets |-> IF s \in DOMAIN given THEN given[s] ELSE w.assigned[s]]]
Places(w, socks) ==
  Injection(socks, (1..(Cardinality(DOMAIN w.polled) + Cardinality(socks))) \ DOMAIN w.polled)

\* UpdateTimer, with a time to come or, by a negative one, with none
UpdateTimer(w, armed) ==
  LET h == NextHandler(w)
  IN  CASE w.curl.timer = NoHandler ->
             [AddHandlers(w, [k \in {h} |-> [type |-> "etTimer", socket |-> NoSocket, bound |-> TRUE, armed |-> armed]])
                EXCEPT !.curl.timer = h]
        [] w.curl.timer = DANGLER -> Uses(w, DANGLER)
        [] OTHER -> [w EXCEPT !.polled[w.curl.timer].armed = armed]

\* FreeAndNil(m_pTimer): ~CEPollTimer stops the handler and takes itself out of it.
FreeTimer(w) ==
  LET freed == [w EXCEPT !.curl.timer = NoHandler]
  IN  CASE w.curl.timer = NoHandler -> w
        [] w.curl.timer = DANGLER -> Uses(freed, DANGLER)
        [] OTHER -> [freed EXCEPT !.polled[w.curl.timer] = [@ EXCEPT !.type = "etDelete", !.bound = FALSE, !.armed = FALSE]]

-----------------------------------------------------------------------------
(* libcurl *)

InStage(w, stages) == {i \in DOMAIN w.fetches : w.fetches[i].stage \in stages}
OwnersOf(w, s) == {i \in InStage(w, {"waiting"}) : w.fetches[i].socket = s}

\* What may become of a transfer
Stages ==
  [stage : {"waiting"}, socket : CurlSockets, told : {0}] \cup
  [stage : {"timed", "finished"}, socket : {NoSocket}, told : {0}]

\* MultiTimerCallBack, at the end of a call that has changed the time libcurl waits for
TellTimer(w) ==
  LET wants == InStage(w, {"added", "timed"}) # {}
  IN  IF wants \/ w.asked THEN [UpdateTimer(w, wants) EXCEPT !.asked = wants] ELSE w

\* The socket callbacks of a call that brings the transfers from before to w: a socket that goes to another transfer
\* is given up and taken again.
Kept(before, w) == {s \in CurlSockets : OwnersOf(before, s) # {} /\ OwnersOf(w, s) = OwnersOf(before, s)}
GivenUp(before, w) == {s \in CurlSockets : OwnersOf(before, s) # {} /\ OwnersOf(w, s) # OwnersOf(before, s)}
Taken(before, w) == {s \in CurlSockets : OwnersOf(w, s) # {} /\ OwnersOf(w, s) # OwnersOf(before, s)}
TellSockets(before, w) ==
  {AddSocket(RemoveSocket(SetSocket(w, Kept(before, w)), GivenUp(before, w)), given) :
     given \in Places(w, Taken(before, w))}

\* curl_multi_socket_action: it goes on with the transfer of the socket and with those whose time has come.
Moves(w, s) ==
  UNION {{t \in [timed \cup OwnersOf(w, s) -> Stages] :
            \A i \in DOMAIN t : t[i].socket # NoSocket =>
              /\ OwnersOf(w, t[i].socket) \subseteq DOMAIN t
              /\ \A j \in DOMAIN t \ {i} : t[j].socket # t[i].socket} :
           timed \in SUBSET InStage(w, {"added", "timed"})}
Moved(w, to) == [w EXCEPT !.fetches = [i \in DOMAIN @ |-> IF i \in DOMAIN to THEN to[i] ELSE @[i]]]
SocketAction(w, s) ==
  {[TellTimer(v) EXCEPT !.curl.running = Cardinality(InStage(v, {"added", "timed", "waiting"}))] :
     v \in UNION {TellSockets(w, Moved(w, to)) : to \in Moves(w, s)}}

\* curl_multi_add_handle with Perform's own call of UpdateTimer
Perform(w) ==
  UpdateTimer(TellTimer([w EXCEPT !.fetches = Append(@, [stage |-> "added", socket |-> NoSocket, told |-> 0])]), TRUE)

-----------------------------------------------------------------------------
(* The client *)

AppPerforms ==
  /\ curlPc.at = "wait" /\ Len(fetches) < MaxFetches
  /\ Leaves(Perform(Client))
  /\ UNCHANGED <<curlPc, due>>

\* epoll_wait: a timer is due only if it is armed, a socket whenever its peer says so.
Reported ==
  {h \in DOMAIN polled : polled[h].type = "etEvent" \/ (polled[h].type = "etTimer" /\ polled[h].armed)}
Waits ==
  /\ curlPc.at = "wait"
  /\ \E some \in SUBSET Reported \ {{}} : due' \in SetToSeqs(some)
  /\ curlPc' = [curlPc EXCEPT !.at = "batch"]
  /\ UNCHANGED <<fetches, polled, assigned, asked, curl, astray>>

Dispatched(type) == curlPc.at = "batch" /\ due # <<>> /\ polled[Head(due)].type = type /\ due' = Tail(due)

\* DoTimer and DoEvent up to MultiInfo, which runs when libcurl has not failed
DoTimer ==
  /\ Dispatched("etTimer")
  /\ \E w \in SocketAction([Client EXCEPT !.polled[Head(due)].armed = FALSE], NoSocket) : Leaves(w)
  /\ curlPc' = [at |-> "info", from |-> "timer"]
DoEvent ==
  /\ Dispatched("etEvent")
  /\ \E w \in SocketAction(Client, polled[Head(due)].socket) : Leaves(w)
  /\ curlPc' = [at |-> "info", from |-> "event"]

\* What follows an exception in DoTimer, and the end of DoEvent in any case
\* Mutant of FreesTimer: whatever is still running.
FreesTimerAlways(w, from) == from = "event"
FreesTimer(w, from) == from = "event" /\ w.curl.running = 0
Finally(w, from) ==
  IF FreesTimer(w, from)
  THEN FreeTimer(IF w.curl.running = 0 /\ InStage(w, {"added"}) # {} THEN Strays(w, "chained") ELSE w)
  ELSE w
Caught(w, from, timer) == IF from = "timer" THEN Stop(w, timer) ELSE Finally(w, from)

\* ErrorCheck throws: libcurl says that it has failed, and has done nothing.
TimerFails ==
  /\ Dispatched("etTimer")
  /\ Leaves(Caught([Strays(Client, "failed") EXCEPT !.polled[Head(due)].armed = FALSE], "timer", Head(due)))
  /\ UNCHANGED curlPc
EventFails ==
  /\ Dispatched("etEvent")
  /\ Leaves(Caught(Strays(Client, "failed"), "event", NoHandler))
  /\ UNCHANGED curlPc

StoppedIsSkipped == Dispatched("etDelete") /\ UNCHANGED <<fetches, polled, assigned, asked, curl, curlPc, astray>>

\* MultiInfo, one message: DoDone or DoFail, then the fetch is deleted.
Told(i, end) == [Client EXCEPT !.fetches[i].told = @ + 1, !.fetches[i].stage = end]
Concludes(i) ==
  /\ curlPc.at = "info" /\ fetches[i].stage = "finished"
  /\ \/ Leaves(Told(i, "ended"))
     \/ Len(fetches) < MaxFetches /\ Leaves(Perform(Told(i, "ended")))
  /\ UNCHANGED <<curlPc, due>>
\* The application's handler throws: the fetch is never deleted, and the other messages stay where they are.
ConcludeThrows(i) ==
  /\ curlPc.at = "info" /\ fetches[i].stage = "finished"
  /\ Leaves(Caught(Strays(Told(i, "leaked"), "threw"), curlPc.from, curl.timer))
  /\ curlPc' = [at |-> "batch", from |-> "none"] /\ UNCHANGED due
InfoEnds ==
  /\ curlPc.at = "info" /\ InStage(Client, {"finished"}) = {}
  /\ Leaves(Finally(Client, curlPc.from))
  /\ curlPc' = [at |-> "batch", from |-> "none"] /\ UNCHANGED due

\* PackEventHandlers: the timer goes with a handler that still has it (AutoFree), and m_pTimer stays.
Packs ==
  /\ curlPc.at = "batch" /\ due = <<>>
  /\ LET stopped == {h \in DOMAIN polled : polled[h].type = "etDelete"}
         Left(h) == IF h \in stopped THEN DANGLER ELSE h
     IN  /\ polled' = Restrict(polled, DOMAIN polled \ stopped)
         /\ curl' = [curl EXCEPT !.timer = Left(@)]
         /\ assigned' = [s \in CurlSockets |-> Left(assigned[s])]
  /\ curlPc' = [curlPc EXCEPT !.at = "wait"]
  /\ UNCHANGED <<fetches, asked, due, astray>>

CurlNext ==
  \/ AppPerforms \/ Waits \/ DoTimer \/ DoEvent \/ TimerFails \/ EventFails \/ StoppedIsSkipped
  \/ \E i \in DOMAIN fetches : Concludes(i) \/ ConcludeThrows(i)
  \/ InfoEnds \/ Packs

-----------------------------------------------------------------------------
(* Properties *)

\* Between two passes whatever a transfer waits for makes the loop go on with it: its socket is watched by the one
\* handler libcurl knows it by, and a time that libcurl has asked for is the timer's; no message is left unread,
\* and no fetch has been concluded twice. No destroyed handler or timer is used, however sockets are removed and
\* taken again, and the timer freed and made again, in the course of one batch.
\* The code falls short of this after three things: libcurl fails, or a handler of the application throws (DoTimer
\* then stops the timer's handler, the pack deletes the timer and m_pTimer is left; messages stay unread); and a
\* handler starts the next fetch when the last one has ended in DoEvent, which then frees the timer that Perform set.
FetchesDriven ==
  /\ \A i \in DOMAIN fetches : fetches[i].told <= 1
  /\ astray.why \cap {"failed", "threw"} = {} => ~astray.wild
  /\ curlPc.at = "wait" /\ astray.why = {} =>
       /\ InStage(Client, {"finished"}) = {}
       /\ InStage(Client, {"added", "timed"}) # {} =>
            curl.timer \in DOMAIN polled /\ polled[curl.timer].type = "etTimer" /\ polled[curl.timer].armed
       /\ \A s \in CurlSockets :
            {h \in DOMAIN polled : polled[h].type = "etEvent" /\ polled[h].socket = s} =
              (IF OwnersOf(Client, s) = {} THEN {} ELSE {assigned[s]})
===============================================================================
