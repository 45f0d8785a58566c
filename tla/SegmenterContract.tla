-------------------------- MODULE SegmenterContract --------------------------
(***************************************************************************)
(* What the segmenter (pkg/video/hls/segmenter.go, segment.go) promises to *)
(* the playlist it calls, stated on the IDs it hands out: segments are     *)
(* finalized one by one with consecutive IDs, a finalized segment has at   *)
(* least one part and its parts are those finalized since the segment      *)
(* before it, part IDs grow, and at most one ID is lost between segments   *)
(* (that of a part that was started and got no sample).                    *)
(*                                                                         *)
(* Segmenter.tla shows that the code keeps this promise; HLSPlaylist.tla   *)
(* uses it as its environment.                                             *)
(***************************************************************************)
EXTENDS Integers, Sequences

CONSTANT FirstSegmentID     \* newSegmenter: nextSegmentID starts at 7

ASSUME FirstSegmentIDAssumption == FirstSegmentID \in Nat

VARIABLES
    segID,      \* the ID of the segment being written
    segParts,   \* the IDs of its finalized parts, currentSegment.Parts
    partID      \* the ID of the part being written, or to be written next

contractVars == <<segID, segParts, partID>>

ContractInit ==
    /\ segID = FirstSegmentID
    /\ segParts = <<>>
    /\ partID = 0

\* onPartFinalized(part)
FinalizePart ==
    /\ segParts' = Append(segParts, partID)
    /\ partID' = partID + 1
    /\ UNCHANGED segID

\* onSegmentFinalized(segment).  The part ID that was taken for an empty last
\* part is lost.
FinalizeSegment ==
    /\ segParts # <<>>
    /\ segID' = segID + 1
    /\ segParts' = <<>>
    /\ partID' \in {partID, partID + 1}

ContractNext == FinalizePart \/ FinalizeSegment

ContractSpec == ContractInit /\ [][ContractNext]_contractVars
=============================================================================
