------------------------------- MODULE Sessions -------------------------------
(***************************************************************************)
(* Sessions over WebSocket connections of libdelphi                         *)
(* (src/src/WSProtocol.cpp): CSessionManager, CSession and the calls a      *)
(* session waits for (CMessageManager, CMessageHandler).                    *)
(*                                                                         *)
(* A session outlives its connection when its owner comes back over another *)
(* one.  The application is external: it finds the session of who opens a   *)
(* connection, or adds one; when a connection is disconnected it deletes    *)
(* the session of that connection, unless the session is being updated.     *)
(***************************************************************************)
EXTENDS Naturals, SequencesExt

CONSTANTS
  Links,       \* connections, each used once
  Identities,  \* who opens them
  NoLink,      \* no connection
  MaxSessions, \* bound on the sessions that are made
  MaxCalls     \* bound on the calls

ASSUME NoLinkAssumption == NoLink \notin Links

VARIABLES
  links,      \* [Links -> [state, object, identity]]: a CHTTPServerConnection
  sessions,   \* the items of the session manager, in their order
  born,       \* how many sessions there have been
  calls,      \* [session, answered] of every call, by its UniqueId
  wired,      \* [Links -> calls on their way to the peer and not answered by it]
  misled,     \* a handler has been run that was not the one of the call
  wild        \* an object was used after it was deleted

sessionVars == <<links, sessions, born, calls, wired, misled, wild>>

NoSession == 0
Free == [state |-> "none", object |-> NoSession, identity |-> NoLink]

SessionInit ==
  /\ links = [l \in Links |-> Free]
  /\ sessions = <<>> /\ born = 0 /\ calls = <<>>
  /\ wired = [l \in Links |-> {}]
  /\ misled = FALSE /\ wild = FALSE

-----------------------------------------------------------------------------
(* The library's operations on w = [links, sessions, wild] *)

Held == [links |-> links, sessions |-> sessions, wild |-> wild]
Keeps(w) == links' = w.links /\ sessions' = w.sessions /\ wild' = w.wild

Position(list, id) == SelectInSeq(list, LAMBDA s : s.id = id)
Has(list, id) == Position(list, id) # 0

\* CSession::AddToConnection, DeleteFromConnection; a connection that has been freed must not be touched.
AddToConnection(w, l, id) == IF l = NoLink THEN w ELSE [w EXCEPT !.links[l].object = id]
DeleteFromConnection(w, l) ==
  IF l = NoLink THEN w
  ELSE [w EXCEPT !.links[l].object = NoSession, !.wild = @ \/ w.links[l].state = "freed"]

\* CSessionManager::Add with the constructor of CSession
AddSession(w, l, id, who) ==
  AddToConnection([w EXCEPT !.sessions = Append(@, [id |-> id, conn |-> l, updates |-> 0, identity |-> who,
                                                    handlers |-> <<>>])], l, id)

\* ~CSession; its handlers go with it.
DeleteSession(w, id) ==
  LET i == Position(w.sessions, id)
  IN  DeleteFromConnection([w EXCEPT !.sessions = RemoveAt(@, i)], w.sessions[i].conn)

\* Disconnect of a connection, with what the application does when it is told
Disconnected(w, l) ==
  LET id == w.links[l].object
      d == [w EXCEPT !.links[l].state = "closed"]
      i == Position(w.sessions, id)
  IN  IF w.links[l].state # "open" \/ id = NoSession THEN d
      ELSE IF i = 0 THEN [d EXCEPT !.wild = TRUE]
      ELSE IF d.sessions[i].updates > 0 THEN d ELSE DeleteSession(d, id)

Update(w, id, n) ==
  LET i == Position(w.sessions, id)
  IN  IF i = 0 THEN [w EXCEPT !.wild = TRUE] ELSE [w EXCEPT !.sessions[i].updates = n]

SetConnection(w, id, l) ==
  LET i == Position(w.sessions, id)
  IN  IF i = 0 THEN [w EXCEPT !.wild = TRUE] ELSE [w EXCEPT !.sessions[i].conn = l]

\* Mutant of SwitchConnection: the session is not held while its old connection is disconnected.
SwitchConnectionUnheld(w, id, l) ==
  LET old == w.sessions[Position(w.sessions, id)].conn
      left == IF old = NoLink THEN w ELSE DeleteFromConnection(Disconnected(w, old), old)
  IN  SetConnection(AddToConnection(left, l, id), id, l)

\* CSession::SwitchConnection to a connection
SwitchConnection(w, id, l) ==
  LET old == w.sessions[Position(w.sessions, id)].conn
      held == Update(w, id, 1)
      left == IF old = NoLink THEN held ELSE DeleteFromConnection(Disconnected(held, old), old)
  IN  IF old = l THEN w ELSE Update(SetConnection(AddToConnection(left, l, id), id, l), id, 0)

FindByIdentity(list, who) == SelectInSeq(list, LAMBDA s : s.identity = who)
FindByConnection(list, l) == SelectInSeq(list, LAMBDA s : s.conn = l)

-----------------------------------------------------------------------------
(* What happens to connections and calls *)

\* The application finds the session of who is there, or adds one.
Opens(l, who) ==
  LET i == FindByIdentity(sessions, who)
      w == [Held EXCEPT !.links[l] = [state |-> "open", object |-> NoSession, identity |-> who]]
  IN  /\ links[l].state = "none" /\ ~wild
      /\ i = 0 => born < MaxSessions
      /\ IF i = 0 THEN Keeps(AddSession(w, l, born + 1, who)) /\ born' = born + 1
         ELSE Keeps(SwitchConnection(w, sessions[i].id, l)) /\ UNCHANGED born
      /\ UNCHANGED <<calls, wired, misled>>

\* The peer hangs up, or there is an error.
Breaks(l) ==
  /\ links[l].state = "open" /\ ~wild
  /\ Keeps(Disconnected(Held, l))
  /\ UNCHANGED <<born, calls, wired, misled>>

\* The event loop frees a connection some time after it was disconnected; what was on its way is lost.
Freed(l) ==
  /\ links[l].state = "closed"
  /\ links' = [links EXCEPT ![l].state = "freed"]
  /\ wired' = [wired EXCEPT ![l] = {}]
  /\ UNCHANGED <<sessions, born, calls, misled, wild>>

\* CMessageManager::Add: a handler with a UniqueId of its own, and the call is sent at once.
Calls(i) ==
  LET u == Len(calls) + 1
      l == sessions[i].conn
  IN  /\ Len(calls) < MaxCalls /\ ~wild
      /\ calls' = Append(calls, [session |-> sessions[i].id, answered |-> FALSE])
      /\ sessions' = [sessions EXCEPT ![i].handlers = Append(@, u)]
      /\ wired' = IF l \in Links THEN [wired EXCEPT ![l] = @ \cup {u}] ELSE wired
      /\ wild' = (l = NoLink \/ links[l].state = "freed")
      /\ UNCHANGED <<links, born, misled>>

FindMessageById(handlers, u) == SelectInSeq(handlers, LAMBDA h : h = u)

\* The peer answers a call, over the connection it has now: it was called over link m of the same owner. The
\* application finds the session of the connection, and the handler by the UniqueId, runs it and deletes it.
Answered(l, m, u) ==
  LET i == FindByConnection(sessions, l)
      k == FindMessageById(sessions[i].handlers, u)
      found == sessions[i].handlers[k]
  IN  /\ links[l].state = "open" /\ links[m].identity = links[l].identity /\ u \in wired[m] /\ ~wild
      /\ i # 0
      /\ wired' = [wired EXCEPT ![m] = @ \ {u}]
      /\ IF k = 0 THEN UNCHANGED <<calls, sessions, misled>>
         ELSE /\ misled' = (misled \/ calls[u].session # sessions[i].id \/ found # u \/ calls[found].answered)
              /\ calls' = [calls EXCEPT ![found].answered = TRUE]
              /\ sessions' = [sessions EXCEPT ![i].handlers = RemoveAt(@, k)]
      /\ UNCHANGED <<links, born, wild>>

SessionNext ==
  \/ \E l \in Links, who \in Identities : Opens(l, who)
  \/ \E l \in Links : Breaks(l) \/ Freed(l)
  \/ \E i \in DOMAIN sessions : Calls(i)
  \/ \E l, m \in Links : \E u \in wired[m] : Answered(l, m, u)

SessionSpec == SessionInit /\ [][SessionNext]_sessionVars

-----------------------------------------------------------------------------
(* Properties *)

\* A session and its connection know each other, and neither refers to one that is gone: not when the owner comes
\* back while the old connection is still there, nor when connections break in between (SwitchConnection holds the
\* session with BeginUpdate over the Disconnect, whose callback would delete it).
SessionsMatch ==
  /\ ~wild
  /\ \A i \in DOMAIN sessions : /\ links[sessions[i].conn].state = "open"
                                /\ links[sessions[i].conn].object = sessions[i].id
                                /\ sessions[i].updates = 0
  /\ \A l \in Links : links[l].object # NoSession => Has(sessions, links[l].object)

\* An answer runs the handler of its call, once, though the session has moved to another connection in between.
CallsMatch == ~misled /\ \A u \in DOMAIN calls :
  calls[u].answered => \A i \in DOMAIN sessions : u \notin ToSet(sessions[i].handlers)

\* Both: the sessions, and the calls that go with them from one connection to the next.
SessionsAgree == SessionsMatch /\ CallsMatch
===============================================================================
