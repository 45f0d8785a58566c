----------------------------- MODULE MCRecorder -----------------------------
(* Recorder with small sets, for TLC. *)
EXTENDS Recorder, TLC

CONSTANTS e1, e2

\* The senders of a run are alike.
Symmetric == Permutations(Senders)
=============================================================================
