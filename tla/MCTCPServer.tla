---------------------------- MODULE MCTCPServer ----------------------------
(***************************************************************************)
(* An instance of TCPServer for TLC: a server with one or two bindings, and *)
(* two clients; when a second binding is activated, only one of them       *)
(* connects.                                                                *)
(***************************************************************************)
EXTENDS TCPServer, FiniteSets

Clients == {p \in Peers : pc[p] # "none"}
SecondListener == NumBindings > 1 /\ (pc[2] # "none" \/ (idx = 2 /\ pc[MAIN] \in {"create", "failed", "torn"}))

MCNext == Next /\ (SecondListener' => Cardinality(Clients') <= 1)
MCSpec == Init /\ [][MCNext]_vars /\ Fairness
=============================================================================
