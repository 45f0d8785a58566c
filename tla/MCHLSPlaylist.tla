---------------------------- MODULE MCHLSPlaylist ----------------------------
(* HLSPlaylist with small sets of requests, for TLC. *)
EXTENDS HLSPlaylist

CONSTANTS Msns, PartIndexes, PrevIDs, FileIDs, c1, c2

MCRequests ==
    {[op |-> "playlist"], [op |-> "waitForSegFinal"]}
    \cup [op : {"segment"}, ID : FileIDs]
    \cup [op : {"part"}, partName : {FileName(id) : id \in FileIDs}]
    \cup [op : {"blockingPlaylist"}, msn : Msns, part : PartIndexes]
    \cup [op : {"nextSegment"}, prevID : PrevIDs]
=============================================================================
