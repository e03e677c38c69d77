---------------------------- MODULE QueryService ----------------------------
(***************************************************************************)
(* What the Postgres pool of libdelphi promises to those who start queries  *)
(* (CPQPollQuery::Start and its callbacks), whatever happens to connections. *)
(***************************************************************************)
CONSTANT Queries   \* CPQPollQuery objects

VARIABLE stage \* "new", "waiting", "running", "executed", "failed" or "lost", of each query

Move(q, from, to) == stage[q] = from /\ stage' = [stage EXCEPT ![q] = to]

\* The application starts a query.
Submit(q) == Move(q, "new", "waiting")

\* A connection takes it: PQsendQuery.
Serve(q) == Move(q, "waiting", "running")

\* OnPollExecuted
Answer(q) == Move(q, "running", "executed")

\* OnException
Refuse(q) == Move(q, "waiting", "failed")

\* The connection is gone, and nobody is told.
Lose(q) == Move(q, "running", "lost")

Init == stage = [q \in Queries |-> "new"]

Next == \E q \in Queries : Submit(q) \/ Serve(q) \/ Answer(q) \/ Refuse(q) \/ Lose(q)

Spec == Init /\ [][Next]_stage
=============================================================================
