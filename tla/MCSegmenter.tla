---------------------------- MODULE MCSegmenter ----------------------------
(***************************************************************************)
(* Segmenter for TLC.                                                      *)
(***************************************************************************)
EXTENDS Segmenter
=============================================================================
