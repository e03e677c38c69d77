-------------------------- MODULE MCPQConnectPoll --------------------------
(* Instances of the Postgres pool for TLC. *)
EXTENDS PQConnectPoll, TLC

\* Handlers and connections are taken in a fixed order, so only these are interchangeable.
Symmetry == Permutations(Fds) \cup Permutations(Queries)
=============================================================================
