---------------------------- MODULE MCEventPoll ----------------------------
(* Small instances of EventPoll for TLC. *)
EXTENDS EventPoll, TLC

Symmetry == Permutations(Conns) \cup Permutations(Handlers) \cup Permutations(Fds)
=============================================================================
