---------------------------- MODULE MCVideoServer ----------------------------
(* VideoServer with small sets, for TLC. *)
EXTENDS VideoServer, TLC

CONSTANTS cam, r1, r2, s1, s2

\* The requests of a run are alike, and so are its sessions.
Symmetric == Permutations(Requests) \cup Permutations(Sessions)
=============================================================================
