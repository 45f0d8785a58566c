-------------------------- MODULE HLSPlaylistProofs --------------------------
(***************************************************************************)
(* Theorems about HLSPlaylist, for every number of gaps, segment count,    *)
(* set of clients and set of requests.                                     *)
(***************************************************************************)
EXTENDS HLSPlaylist, WellFoundedInduction, TLAPS

-----------------------------------------------------------------------------
(* Sequences                                                               *)

LEMMA SeqElement ==
    ASSUME NEW S, NEW s \in Seq(S), NEW i \in 1..Len(s)
    PROVE  s[i] \in S
  OBVIOUS

LEMMA SeqLength ==
    ASSUME NEW S, NEW s \in Seq(S)
    PROVE  Len(s) \in Nat /\ DOMAIN s = 1..Len(s)
  OBVIOUS

LEMMA SeqEmpty ==
    ASSUME NEW S
    PROVE  /\ <<>> \in Seq(S) /\ Len(<<>>) = 0
           /\ \A s \in Seq(S) : s # <<>> => Len(s) \in Nat \ {0}
  OBVIOUS

LEMMA SeqSame ==
    ASSUME NEW S, NEW s \in Seq(S), NEW t \in Seq(S),
           Len(s) = Len(t), \A i \in 1..Len(s) : s[i] = t[i]
    PROVE  s = t
  OBVIOUS

LEMMA SeqAppend ==
    ASSUME NEW S, NEW s \in Seq(S), NEW e \in S
    PROVE  /\ Append(s, e) \in Seq(S) /\ Len(Append(s, e)) = Len(s) + 1
           /\ \A i \in 1..Len(s) : Append(s, e)[i] = s[i]
           /\ Append(s, e)[Len(s) + 1] = e
  OBVIOUS

LEMMA SeqTail ==
    ASSUME NEW S, NEW s \in Seq(S), s # <<>>
    PROVE  /\ Tail(s) \in Seq(S) /\ Len(Tail(s)) = Len(s) - 1
           /\ \A i \in 1..Len(s) - 1 : Tail(s)[i] = s[i + 1]
  OBVIOUS

LEMMA SeqConcat ==
    ASSUME NEW S, NEW s \in Seq(S), NEW t \in Seq(S)
    PROVE  /\ s \o t \in Seq(S) /\ Len(s \o t) = Len(s) + Len(t)
           /\ \A i \in 1..Len(s) + Len(t) :
                (s \o t)[i] = IF i <= Len(s) THEN s[i] ELSE t[i - Len(s)]
  OBVIOUS

LEMMA SeqWhole ==
    ASSUME NEW S, NEW s \in Seq(S)
    PROVE  SubSeq(s, 1, Len(s)) = s /\ SubSeq(s, 1, 0) = <<>>
  OBVIOUS

LEMMA SeqSub ==
    ASSUME NEW S, NEW s \in Seq(S), NEW k \in Nat
    PROVE  SubSeq(s, k + 1, Len(s)) \in Seq(S)
  OBVIOUS

-----------------------------------------------------------------------------
\* The list that segmentFinalized has after appending the new segment
AllSegments(d) == Append(WithGaps(segments, d), Segment(segID, segParts, d))

\* What segmentFinalized(segment) does to the fields that the theorems are
\* about.
SegmentStep(d) ==
    /\ segID' = segID + 1
    /\ segParts' = <<>>
    /\ partID' \in {partID, partID + 1}
    /\ segments' = IF DeleteHead(AllSegments(d)) THEN Tail(AllSegments(d))
                                                 ELSE AllSegments(d)
    /\ segmentDeleteCount' = DeleteCount(AllSegments(d))
    /\ nextSegmentID' = segID + 1
    /\ nextSegmentParts' = <<>>
    /\ UNCHANGED <<nextPartID, ctxDone, running>>

LEMMA SegmentFinalizedStep ==
    ASSUME NEW d \in Durations, SegmentFinalized(d)
    PROVE  SegmentStep(d)
  BY ZenonT(30) DEF SegmentFinalized, SegmentStep, AllSegments, FinalizeSegment

\* The entries of the appended list: gaps when the list was empty, then the
\* old list, then the new segment.
LEMMA AllSegmentsType ==
    ASSUME TypeOK, NEW d \in Durations
    PROVE  /\ AllSegments(d) \in Seq(Entries)
           /\ Len(AllSegments(d)) =
                (IF Len(segments) = 0 THEN InitialGaps ELSE Len(segments)) + 1
           /\ \A i \in 1..Len(AllSegments(d)) - 1 :
                AllSegments(d)[i] = IF Len(segments) = 0 THEN Gap(d) ELSE segments[i]
           /\ AllSegments(d)[Len(AllSegments(d))] = Segment(segID, segParts, d)
<1>1. Gap(d) \in Entries
  BY ZenonT(30) DEF Gap, Entries
<1>2. Segment(segID, segParts, d) \in Entries
  BY ZenonT(30) DEF Segment, Entries, TypeOK
<1>3. /\ WithGaps(segments, d) \in Seq(Entries)
      /\ Len(WithGaps(segments, d)) =
            IF Len(segments) = 0 THEN InitialGaps ELSE Len(segments)
      /\ \A i \in 1..Len(WithGaps(segments, d)) :
            WithGaps(segments, d)[i] = IF Len(segments) = 0 THEN Gap(d) ELSE segments[i]
  BY <1>1, PlaylistAssumption DEF WithGaps, TypeOK
<1> QED
  BY <1>2, <1>3 DEF AllSegments

-----------------------------------------------------------------------------

\* The steps of the playlist that are not SegmentFinalized leave the segment
\* list alone.
ListUnchanged ==
    UNCHANGED <<segments, segmentDeleteCount, nextSegmentID>>

LEMMA NextCases ==
    ASSUME [Next]_vars
    PROVE  \/ \E d \in Durations : SegmentFinalized(d)
           \/ /\ ListUnchanged
              /\ ctxDone' = FALSE => ctxDone = FALSE /\ segID' = segID
<1>1. CASE UNCHANGED vars
  BY ZenonT(30), <1>1 DEF vars, playlistVars, contractVars, ListUnchanged
<1>2. ASSUME NEW c \in Clients, NEW req \in Requests, Call(c, req) PROVE ListUnchanged /\ UNCHANGED <<ctxDone, segID>>
  BY ZenonT(30), <1>2 DEF Call, playlistVars, contractVars, ListUnchanged
<1>3. ASSUME NEW c \in Clients, CallCanceled(c) PROVE ListUnchanged /\ UNCHANGED <<ctxDone, segID>>
  BY ZenonT(30), <1>3 DEF CallCanceled, playlistVars, contractVars, ListUnchanged
<1>4. ASSUME NEW c \in Clients, Serve(c) PROVE ListUnchanged /\ UNCHANGED <<ctxDone, segID>>
  BY ZenonT(30), <1>4 DEF Serve, ServePlaylist, ServeSegment, ServeBlockingPlaylist, ServePart,
              ServeWaitForSegFinal, ServeNextSegment, playlistVars, contractVars,
              ListUnchanged
<1>5. CASE PartFinalized
  BY ZenonT(30), <1>5 DEF PartFinalized, FinalizePart, ListUnchanged
<1>6. CASE FinalizedDropped
  BY ZenonT(30), <1>6 DEF FinalizedDropped, playlistVars, ListUnchanged
<1>7. CASE Cancel
  BY ZenonT(30), <1>7 DEF Cancel, playlistVars, ListUnchanged
<1>8. CASE Cleanup
  BY ZenonT(30), <1>8 DEF Cleanup, playlistVars, contractVars, ListUnchanged
<1> QED
  BY ZenonT(30), <1>1, <1>2, <1>3, <1>4, <1>5, <1>6, <1>7, <1>8 DEF Next

-----------------------------------------------------------------------------
(* Type correctness *)

LEMMA TypeInit == Init => TypeOK
<1> SUFFICES ASSUME Init PROVE TypeOK
  OBVIOUS
<1>1. <<>> \in Seq(Nat) /\ <<>> \in Seq(Entries)
  BY ZenonT(30), SeqEmpty
<1>2. ctxDone \in BOOLEAN /\ running \in BOOLEAN
  BY ZenonT(30) DEF Init
<1> QED
  BY <1>1, <1>2, FirstSegmentIDAssumption DEF Init, ContractInit, TypeOK

LEMMA TypeStep == TypeOK /\ [Next]_vars => TypeOK'
<1> SUFFICES ASSUME TypeOK, [Next]_vars PROVE TypeOK'
  OBVIOUS
<1>1. CASE UNCHANGED vars
  BY ZenonT(30), <1>1 DEF TypeOK, vars, playlistVars, contractVars
<1>2. ASSUME NEW c \in Clients, NEW req \in Requests, Call(c, req) PROVE TypeOK'
  BY ZenonT(30), <1>2 DEF TypeOK, Call, playlistVars, contractVars
<1>3. ASSUME NEW c \in Clients, CallCanceled(c) PROVE TypeOK'
  BY ZenonT(30), <1>3 DEF TypeOK, CallCanceled, playlistVars, contractVars
<1>4. ASSUME NEW c \in Clients, Serve(c) PROVE TypeOK'
  <2>1. UNCHANGED <<playlistVars, contractVars, ctxDone, running>>
    BY ZenonT(30), <1>4 DEF Serve, ServePlaylist, ServeSegment, ServeBlockingPlaylist, ServePart,
                ServeWaitForSegFinal, ServeNextSegment
  <2> QED
    BY ZenonT(30), <2>1 DEF TypeOK, playlistVars, contractVars
<1>5. CASE PartFinalized
  <2>1. /\ partsByName' = partsByName \cup {partID}
        /\ parts' = Append(parts, partID)
        /\ nextSegmentParts' = Append(nextSegmentParts, partID)
        /\ nextPartID' = partID + 1
        /\ segParts' = Append(segParts, partID)
        /\ partID' = partID + 1
        /\ UNCHANGED <<segments, segmentsByName, segmentDeleteCount,
                       nextSegmentID, segID, ctxDone, running>>
    BY ZenonT(30), <1>5 DEF PartFinalized, FinalizePart
  <2> QED
    BY <2>1 DEF TypeOK
<1>6. ASSUME NEW d \in Durations, SegmentFinalized(d) PROVE TypeOK'
  <2>1. SegmentStep(d)
    BY Zenon, <1>6, SegmentFinalizedStep
  <2>2. segments' \in Seq(Entries)
    BY <2>1, AllSegmentsType, PlaylistAssumption DEF SegmentStep, TypeOK
  <2>3. segmentsByName' \subseteq Nat /\ partsByName' \subseteq Nat
    BY <1>6, Zenon DEF SegmentFinalized, TypeOK
  <2>4. parts' \in Seq(Nat)
    <3>1. parts' = SubSeq(parts, Len(DeletedParts(AllSegments(d))) + 1, Len(parts))
      BY ZenonT(30), <1>6 DEF SegmentFinalized, AllSegments
    <3>2. Len(DeletedParts(AllSegments(d))) \in Nat
      <4>1. AllSegments(d)[1] \in Entries
        <5>1. Len(segments) \in Nat
          BY DEF TypeOK
        <5>2. AllSegments(d) \in Seq(Entries) /\ 1 \in 1..Len(AllSegments(d))
          BY <5>1, AllSegmentsType, PlaylistAssumption
        <5> QED
          BY ZenonT(30), <5>2, SeqElement
      <4>2. ~AllSegments(d)[1].gap => AllSegments(d)[1].Parts \in Seq(Nat)
        BY ZenonT(30), <4>1 DEF Entries
      <4> QED
        BY <4>2 DEF DeletedParts
    <3>3. Len(DeletedParts(AllSegments(d))) \in Nat /\ parts \in Seq(Nat)
      BY <3>2 DEF TypeOK
    <3> QED
      BY Zenon, <3>1, <3>3, SeqSub
  <2>5. segmentDeleteCount' \in Nat
    BY <2>1 DEF SegmentStep, DeleteCount, TypeOK
  <2> QED
    BY <2>1, <2>2, <2>3, <2>4, <2>5 DEF SegmentStep, TypeOK
<1>7. CASE FinalizedDropped
  <2>1. UNCHANGED <<playlistVars, ctxDone, running>>
    BY Zenon, <1>7 DEF FinalizedDropped
  <2>2. CASE FinalizePart
    BY <2>1, <2>2 DEF TypeOK, FinalizePart, playlistVars
  <2>3. CASE FinalizeSegment
    <3>1. segParts' \in Seq(Nat)
      BY Zenon, <2>3, SeqEmpty DEF FinalizeSegment
    <3> QED
      BY <2>1, <2>3, <3>1 DEF TypeOK, FinalizeSegment, playlistVars
  <2> QED
    BY Zenon, <1>7, <2>2, <2>3 DEF FinalizedDropped
<1>8. CASE Cancel
  BY Zenon, <1>8 DEF TypeOK, Cancel, playlistVars, contractVars
<1>9. CASE Cleanup
  <2>1. UNCHANGED <<playlistVars, contractVars, ctxDone>> /\ running' = FALSE
    BY Zenon, <1>9 DEF Cleanup
  <2> QED
    BY ZenonT(30), <2>1 DEF TypeOK, playlistVars, contractVars
<1> QED
  BY <1>1, <1>2, <1>3, <1>4, <1>5, <1>6, <1>7, <1>8, <1>9 DEF Next

\* The playlist's fields keep their types whatever the clients ask for and
\* whenever the muxer is closed (playlist.start).
THEOREM TypeCorrect == Spec => []TypeOK
  BY TypeInit, TypeStep, PTL DEF Spec

-----------------------------------------------------------------------------
(* Media sequence numbers *)

\* MediaSequence is not inductive: it does not say which ID the next segment
\* gets.  The ID being written is the number after the last entry, and the
\* first one is the number of initial gaps.
NumberingInv ==
    ctxDone = FALSE =>
        /\ \A i \in 1..Len(segments) :
              ~segments[i].gap => segments[i].ID = segmentDeleteCount + i - 1
        /\ Len(segments) = 0 =>
              segmentDeleteCount = 0 /\ segID = FirstSegmentID
        /\ Len(segments) # 0 =>
              /\ segID = segmentDeleteCount + Len(segments)
              /\ nextSegmentID = segID

LEMMA NumberingInit == Init => NumberingInv
  BY SeqEmpty DEF Init, ContractInit, NumberingInv

LEMMA NumberingStep == TypeOK /\ NumberingInv /\ [Next]_vars => NumberingInv'
<1> SUFFICES ASSUME TypeOK, NumberingInv, [Next]_vars, ctxDone' = FALSE
             PROVE  NumberingInv'
  BY ZenonT(30) DEF NumberingInv
<1>1. CASE \E d \in Durations : SegmentFinalized(d)
  <2>1. PICK d \in Durations : SegmentFinalized(d)
    BY Zenon, <1>1
  <2>2. SegmentStep(d)
    BY <2>1, SegmentFinalizedStep
  <2> DEFINE all == AllSegments(d)
             n == IF Len(segments) = 0 THEN InitialGaps ELSE Len(segments)
  <2>3. /\ all \in Seq(Entries)
        /\ Len(all) = n + 1
        /\ \A i \in 1..Len(all) - 1 :
              all[i] = IF Len(segments) = 0 THEN Gap(d) ELSE segments[i]
        /\ all[Len(all)] = Segment(segID, segParts, d)
    BY ZenonT(30), AllSegmentsType
  <2>4. n \in Nat \ {0}
    BY PlaylistAssumption, SeqLength DEF TypeOK
  <2>5. ctxDone = FALSE /\ segID' = segID + 1 /\ nextSegmentID' = segID + 1
    BY ZenonT(30), <2>2 DEF SegmentStep
  <2>6. segmentDeleteCount \in Nat /\ segID = segmentDeleteCount + n
    BY <2>5, PlaylistAssumption, SeqLength DEF NumberingInv, TypeOK
  <2>7. \A i \in 1..Len(all) : ~all[i].gap => all[i].ID = segmentDeleteCount + i - 1
    <3> SUFFICES ASSUME NEW i \in 1..Len(all), ~all[i].gap
                 PROVE  all[i].ID = segmentDeleteCount + i - 1
      OBVIOUS
    <3>1. CASE i = Len(all)
      <4>1. all[i].ID = segID
        BY <2>3, <3>1 DEF Segment
      <4> QED
        BY <4>1, <3>1, <2>3, <2>4, <2>6
    <3>2. CASE i # Len(all)
      <4>1. i \in 1..Len(all) - 1
        BY <3>2, <2>3, <2>4
      <4>2. Len(segments) # 0
        BY <4>1, <2>3 DEF Gap
      <4>3. i \in 1..Len(segments) /\ all[i] = segments[i]
        BY <4>1, <4>2, <2>3, <2>4
      <4> QED
        BY <4>3, <2>5 DEF NumberingInv
    <3> QED
      BY <3>1, <3>2
  <2> HIDE DEF all, n
  <2>8. CASE DeleteHead(all)
    <3>1. segments' = Tail(all)
      BY <2>2, <2>8 DEF SegmentStep, all
    <3>a. segmentDeleteCount' = segmentDeleteCount + 1
      BY <2>2, <2>8 DEF SegmentStep, DeleteCount, all
    <3>2. all # <<>>
      BY <2>3, <2>4, SeqEmpty
    <3>3. Len(segments') = n /\ \A i \in 1..n : segments'[i] = all[i + 1]
      BY <3>1, <3>2, <2>3, <2>4, SeqTail
    <3>4. \A i \in 1..Len(segments') : ~segments'[i].gap =>
                segments'[i].ID = segmentDeleteCount' + i - 1
      <4> SUFFICES ASSUME NEW i \in 1..Len(segments'), ~segments'[i].gap
                   PROVE  segments'[i].ID = segmentDeleteCount' + i - 1
        OBVIOUS
      <4>1. i \in Nat /\ i + 1 \in 1..Len(all) /\ segments'[i] = all[i + 1]
        BY <3>3, <2>3, <2>4
      <4>2. all[i + 1].ID = segmentDeleteCount + (i + 1) - 1
        BY <4>1, <2>7
      <4> QED
        BY <4>1, <4>2, <3>a, <2>6
    <3>5. segID' = segmentDeleteCount' + Len(segments') /\ nextSegmentID' = segID'
      BY <3>a, <3>3, <2>4, <2>5, <2>6
    <3> QED
      BY <3>3, <3>4, <3>5, <2>4 DEF NumberingInv
  <2>9. CASE ~DeleteHead(all)
    <3>1. segments' = all /\ segmentDeleteCount' = segmentDeleteCount
      BY Zenon, <2>2, <2>9 DEF SegmentStep, DeleteCount, all
    <3>2. segID' = segmentDeleteCount' + Len(segments') /\ nextSegmentID' = segID'
      BY <3>1, <2>3, <2>4, <2>5, <2>6
    <3> QED
      BY <3>1, <3>2, <2>3, <2>4, <2>7 DEF NumberingInv
  <2> QED
    BY Zenon, <2>8, <2>9
<1>2. CASE ListUnchanged /\ ctxDone = FALSE /\ segID' = segID
  BY ZenonT(30), <1>2 DEF ListUnchanged, NumberingInv
<1> QED
  BY ZenonT(30), <1>1, <1>2, NextCases

\* In every playlist, the number clients give to a segment is the ID by which
\* hasPart finds it: the seven gaps put in front of segment 7, the single
\* deletion per new segment and segmentDeleteCount agree (segmentFinalized).
THEOREM MediaSequenceCorrect == Spec => []MediaSequence
<1>1. TypeOK /\ NumberingInv => MediaSequence
  BY SeqLength DEF NumberingInv, MediaSequence, hasContent, TypeOK
<1> QED
  BY <1>1, TypeInit, TypeStep, NumberingInit, NumberingStep, PTL DEF Spec

-----------------------------------------------------------------------------
(* The playlist implements the media window *)

LEMMA WindowStep == TypeOK /\ [Next]_vars => [Window!Publish]_(Window!windowVars)
<1> SUFFICES ASSUME TypeOK, [Next]_vars PROVE [Window!Publish]_(Window!windowVars)
  OBVIOUS
<1>1. CASE \E d \in Durations : SegmentFinalized(d)
  <2>1. PICK d \in Durations : SegmentFinalized(d)
    BY <1>1
  <2>2. SegmentStep(d)
    BY Zenon, <2>1, SegmentFinalizedStep
  <2> DEFINE all == AllSegments(d)
             n == IF Len(segments) = 0 THEN InitialGaps ELSE Len(segments)
  <2>3. /\ all \in Seq(Entries)
        /\ Len(all) = n + 1
        /\ \A i \in 1..Len(all) - 1 :
              all[i] = IF Len(segments) = 0 THEN Gap(d) ELSE segments[i]
    BY ZenonT(30), AllSegmentsType
  <2>4. /\ n \in Nat \ {0} /\ Len(segments) \in Nat /\ Len(segments) <= n
        /\ Len(segments) # 0 => Len(segments) = n
        /\ windowLo \in Nat
    BY PlaylistAssumption, SeqLength DEF TypeOK, windowLo
  <2>5. \A i \in 1..Len(segments) : all[i] = segments[i]
    BY <2>3, <2>4
  <2>6. \A i \in 1..n + 1 : all[i] \in Entries
    BY Zenon, <2>3, <2>4, SeqElement
  <2> HIDE DEF all, n
  <2>b. windowHi = windowLo + Len(segments)
    BY ZenonT(30) DEF windowHi, windowLo
  <2>7. /\ windowLo' \in {windowLo, windowLo + 1} /\ windowHi' = windowLo + n + 1
        /\ \A k \in windowLo' .. windowLo + n :
              segments'[k - windowLo' + 1] = all[k - windowLo + 1]
    <3>1. CASE DeleteHead(all)
      <4>1. segments' = Tail(all)
        BY <2>2, <3>1 DEF SegmentStep, all
      <4>a. segmentDeleteCount' = segmentDeleteCount + 1
        BY <2>2, <3>1 DEF SegmentStep, DeleteCount, all
      <4>2. all # <<>>
        BY <2>3, <2>4, SeqEmpty
      <4>3. Len(segments') = n /\ \A i \in 1..n : segments'[i] = all[i + 1]
        BY <4>1, <4>2, <2>3, <2>4, SeqTail
      <4>4. windowLo' = windowLo + 1 /\ windowHi' = windowLo + n + 1
        BY <4>a, <4>3, <2>4 DEF windowLo, windowHi
      <4>5. ASSUME NEW k \in windowLo' .. windowLo + n
            PROVE  segments'[k - windowLo' + 1] = all[k - windowLo + 1]
        <5>1. k - windowLo \in 1..n /\ k - windowLo' + 1 = k - windowLo
          BY <4>4, <2>4
        <5> QED
          BY <5>1, <4>3
      <4> QED
        BY <4>4, <4>5
    <3>2. CASE ~DeleteHead(all)
      <4>1. segments' = all /\ segmentDeleteCount' = segmentDeleteCount
        BY ZenonT(30), <2>2, <3>2 DEF SegmentStep, DeleteCount, all
      <4>2. windowLo' = windowLo /\ windowHi' = windowLo + n + 1
        BY <4>1, <2>3, <2>4 DEF windowLo, windowHi
      <4> QED
        BY ZenonT(30), <4>1, <4>2
    <3> QED
      BY <3>1, <3>2
  <2>d. \A k \in windowLo' .. windowLo + n :
              segments'[k - windowLo' + 1] = all[k - windowLo + 1]
    BY ZenonT(30), <2>7
  <2>a. windowLo' \in {windowLo, windowLo + 1} /\ windowLo' \in Int /\ windowHi' = windowLo + n + 1
    BY <2>7, <2>4
  <2>8. windowLo' \in {windowLo, windowLo + 1} /\ windowHi' \in Int /\ windowHi' > windowHi
    BY <2>a, <2>b, <2>4
  <2>c. /\ windowLo \in Int /\ windowHi \in Int /\ n \in Int
        /\ windowLo' \in Int /\ windowHi' \in Int
        /\ windowLo <= windowLo' /\ windowHi <= windowHi'
        /\ windowHi' = windowLo + n + 1
        /\ windowHi = windowLo + Len(segments) /\ Len(segments) \in Int
    BY <2>4, <2>a, <2>b, <2>8
  <2>9. DOMAIN windowEntry' = windowLo' .. windowHi' - 1
    BY ZenonT(30) DEF windowEntry
  <2>10. \A k \in windowLo' .. windowHi - 1 : windowEntry'[k] = windowEntry[k]
    <3> SUFFICES ASSUME NEW k \in windowLo' .. windowHi - 1 PROVE windowEntry'[k] = windowEntry[k]
      OBVIOUS
    <3>1. k \in windowLo' .. windowHi' - 1 /\ k \in windowLo .. windowHi - 1
      BY <2>c
    <3>2. windowEntry'[k] = segments'[k - windowLo' + 1] /\ windowEntry[k] = segments[k - windowLo + 1]
      BY ZenonT(30), <3>1 DEF windowEntry
    <3>a. k \in windowLo' .. windowLo + n
      BY <3>1, <2>c
    <3>3. segments'[k - windowLo' + 1] = all[k - windowLo + 1]
      BY <3>a, <2>d
    <3>4. k - windowLo + 1 \in 1..Len(segments)
      BY <3>1, <2>c
    <3> QED
      BY <3>2, <3>3, <3>4, <2>5
  <2>11. \A k \in windowHi .. windowHi' - 1 : k >= windowLo' => windowEntry'[k] \in Entries
    <3> SUFFICES ASSUME NEW k \in windowHi .. windowHi' - 1, k >= windowLo' PROVE windowEntry'[k] \in Entries
      OBVIOUS
    <3>1. k \in windowLo' .. windowHi' - 1
      BY <2>c
    <3>2. windowEntry'[k] = segments'[k - windowLo' + 1]
      BY ZenonT(30), <3>1 DEF windowEntry
    <3>a. k \in windowLo' .. windowLo + n
      BY <3>1, <2>c
    <3>3. segments'[k - windowLo' + 1] = all[k - windowLo + 1]
      BY <3>a, <2>d
    <3>4. k - windowLo + 1 \in 1..n + 1
      BY <3>1, <2>c
    <3> QED
      BY <3>2, <3>3, <3>4, <2>6
  <2> QED
    BY ZenonT(30), <2>8, <2>9, <2>10, <2>11 DEF Window!Publish
<1>2. CASE ListUnchanged
  BY ZenonT(30), <1>2 DEF ListUnchanged, Window!windowVars, windowLo, windowHi, windowEntry
<1> QED
  BY ZenonT(30), <1>1, <1>2, NextCases

\* Reloading clients see a media window: entries keep their number and content
\* until they leave from the front, whatever the segment count
\* (playlist.segmentFinalized, fullPlaylist).
THEOREM PlaylistImplementsWindow == Spec => WindowSpec
<1>1. Init => Window!WindowInit
  BY SeqEmpty DEF Init, Window!WindowInit, windowLo, windowHi, windowEntry
<1> QED
  BY <1>1, TypeInit, TypeStep, WindowStep, PTL DEF Spec, WindowSpec, Window!WindowSpec

-----------------------------------------------------------------------------
(* Induction and recursion over the natural numbers                        *)

\* A non-empty set of naturals has a least element.
LEMMA LeastElement ==
    ASSUME NEW T \in SUBSET Nat, T # {}
    PROVE  \E x \in T : \A y \in T : x <= y
<1> DEFINE R == OpToRel(<, Nat)
<1>1. IsWellFoundedOn(R, Nat)
  BY NatLessThanWellFounded
<1> HIDE DEF R
<1>2. PICK x \in T : \A y \in T : <<y, x>> \notin R
  BY Zenon, <1>1, WFMin
<1>3. \A i, j \in Nat : i < j => <<i, j>> \in R
  BY DEF R, OpToRel
<1>4. \A y \in T : ~(y < x)
  BY Zenon, <1>2, <1>3
<1>5. \A y \in T : x <= y
  BY <1>4
<1> QED
  BY Zenon, <1>5

\* Induction up to n, on the set of the numbers that have the property.
LEMMA InductionUpTo ==
    ASSUME NEW n \in Nat, NEW S, 0 \in S, \A i \in 0..n-1 : i \in S => i + 1 \in S
    PROVE  0..n \subseteq S
<1> SUFFICES ASSUME (0..n) \ S # {} PROVE FALSE
  BY Zenon
<1>1. (0..n) \ S \in SUBSET Nat
  OBVIOUS
<1>2. PICK x \in (0..n) \ S : \A y \in (0..n) \ S : x <= y
  BY Zenon, <1>1, LeastElement
<1>3. x # 0 /\ x - 1 \in 0..n-1 /\ x - 1 \in 0..n /\ ~(x <= x - 1) /\ (x - 1) + 1 = x
  BY <1>2
<1>4. x - 1 \in S
  BY Zenon, <1>2, <1>3
<1> QED
  BY Zenon, <1>3, <1>4

\* f is what the recursion from v0 computes, up to n.
Iterates(f, n, V, v0, step) ==
    /\ f \in [0..n -> V]
    /\ f[0] = v0
    /\ \A i \in 1..n : f[i] = step[<<i, f[i - 1]>>]

\* A recursion over 0..n defines a function.
LEMMA RecursionUpTo ==
    ASSUME NEW V, NEW v0 \in V, NEW n \in Nat, NEW step \in [(1..n) \X V -> V]
    PROVE  \E f : Iterates(f, n, V, v0, step)
<1> DEFINE S == {m \in 0..n : \E f : Iterates(f, m, V, v0, step)}
<1>1. 0 \in S
  <2> DEFINE f == [i \in 0..0 |-> v0]
  <2>1. Iterates(f, 0, V, v0, step)
    BY DEF Iterates
  <2> QED
    BY <2>1
<1>2. ASSUME NEW m \in 0..n-1, m \in S PROVE m + 1 \in S
  <2>1. PICK f : Iterates(f, m, V, v0, step)
    BY Zenon, <1>2
  <2>2. f \in [0..m -> V] /\ f[0] = v0
    BY Zenon, <2>1 DEF Iterates
  <2>a. \A i \in 1..m : f[i] = step[<<i, f[i - 1]>>]
    BY Zenon, <2>1 DEF Iterates
  <2> DEFINE g == [i \in 0..m+1 |-> IF i <= m THEN f[i] ELSE step[<<m + 1, f[m]>>]]
  <2>3. step[<<m + 1, f[m]>>] \in V
    BY <2>2
  <2>4. g \in [0..m+1 -> V] /\ (\A i \in 0..m : g[i] = f[i]) /\ g[m + 1] = step[<<m + 1, f[m]>>]
    BY <2>2, <2>3
  <2> HIDE DEF g
  <2>5. ASSUME NEW i \in 1..m+1 PROVE g[i] = step[<<i, g[i - 1]>>]
    <3>1. CASE i = m + 1
      <4>1. i - 1 = m /\ m \in 0..m
        BY <3>1
      <4> QED
        BY Zenon, <4>1, <3>1, <2>4
    <3>2. CASE i # m + 1
      <4>1. i \in 1..m /\ i \in 0..m /\ i - 1 \in 0..m
        BY <3>2
      <4> QED
        BY Zenon, <4>1, <2>a, <2>4
    <3> QED
      BY Zenon, <3>1, <3>2
  <2>6. g[0] = v0
    BY <2>2, <2>4
  <2>7. Iterates(g, m + 1, V, v0, step)
    BY Zenon, <2>4, <2>5, <2>6 DEF Iterates
  <2>8. m + 1 \in 0..n
    OBVIOUS
  <2> QED
    BY Zenon, <2>7, <2>8
<1> HIDE DEF S
<1>3. 0..n \subseteq S
  BY Zenon, <1>1, <1>2, InductionUpTo
<1>4. n \in S
  BY <1>3
<1> QED
  BY Zenon, <1>4 DEF S

-----------------------------------------------------------------------------
(* Delta updates                                                           *)

\* A set of naturals that has a bound has a greatest element.
LEMMA GreatestElement ==
    ASSUME NEW T \in SUBSET Nat, T # {}, NEW b \in Nat, \A x \in T : x <= b
    PROVE  Max(T) \in T /\ \A x \in T : x <= Max(T)
<1> DEFINE U == {u \in Nat : \A x \in T : x <= u}
<1>1. U \in SUBSET Nat /\ U # {}
  BY Zenon
<1>2. PICK u \in U : \A v \in U : u <= v
  BY Zenon, <1>1, LeastElement
<1>3. u \in Nat /\ \A x \in T : x <= u
  BY Zenon
<1>4. u \in T
  <2> SUFFICES ASSUME u \notin T PROVE FALSE
    BY Zenon
  <2>1. \A x \in T : x \in Nat /\ x # u /\ x <= u
    BY Zenon, <1>3
  <2>2. \A x \in T : x <= u - 1 /\ u - 1 \in Nat
    BY <2>1, <1>3
  <2>3. u - 1 \in U
    BY Zenon, <2>2
  <2>4. ~(u <= u - 1)
    BY <1>3
  <2> QED
    BY Zenon, <1>2, <2>3, <2>4
<1>5. \A x \in T : u >= x
  BY <1>3
<1>6. Max(T) \in T /\ \A x \in T : Max(T) >= x
  BY Zenon, <1>4, <1>5 DEF Max
<1>7. \A x, y \in Nat : x >= y => y <= x
  OBVIOUS
<1> QED
  BY Zenon, <1>6, <1>7

LEMMA DurationType ==
    ASSUME NEW s \in Entries
    PROVE  s.dur \in Nat
<1>1. s.dur \in Durations
  BY Zenon DEF Entries
<1> QED
  BY Zenon, <1>1, PlaylistAssumption

LEMMA RoundType ==
    ASSUME NEW t \in Nat
    PROVE  Round(t) \in Nat /\ t <= 10 * Round(t) + 4 /\ (t > 5 => Round(t) >= 1)
  BY DEF Round

\* The durations of finitely many entries have a bound.
LEMMA RoundsBounded ==
    ASSUME NEW segs \in Seq(Entries)
    PROVE  \E b \in Nat : \A i \in 1..Len(segs) : Round(segs[i].dur) <= b
<1> DEFINE n == Len(segs)
           S == {m \in 0..n : \E b \in Nat : \A i \in 1..m : Round(segs[i].dur) <= b}
<1>1. n \in Nat
  OBVIOUS
<1>2. \A i \in 1..n : Round(segs[i].dur) \in Nat
  BY Zenon, SeqElement, DurationType, RoundType
<1>3. 0 \in S
  <2>1. 0 \in 0..n /\ 1..0 = {} /\ 0 \in Nat
    BY <1>1
  <2> QED
    BY Zenon, <2>1
<1>4. ASSUME NEW m \in 0..n-1, m \in S PROVE m + 1 \in S
  <2>1. PICK b \in Nat : \A i \in 1..m : Round(segs[i].dur) <= b
    BY Zenon, <1>4
  <2>2. m + 1 \in 1..n /\ m + 1 \in 0..n
    BY <1>1
  <2> DEFINE r == Round(segs[m + 1].dur)
  <2>3. r \in Nat
    BY Zenon, <2>2, <1>2
  <2>4. b + r \in Nat /\ r <= b + r
    BY <2>3
  <2>5. ASSUME NEW i \in 1..m+1 PROVE Round(segs[i].dur) <= b + r
    <3>1. CASE i = m + 1
      BY Zenon, <3>1, <2>4
    <3>2. CASE i # m + 1
      <4>1. i \in 1..m /\ i \in 1..n
        BY <3>2, <1>1
      <4>2. Round(segs[i].dur) <= b /\ Round(segs[i].dur) \in Nat
        BY Zenon, <4>1, <2>1, <1>2
      <4> HIDE DEF r
      <4> QED
        BY <4>2, <2>3
    <3> QED
      BY Zenon, <3>1, <3>2
  <2> QED
    BY Zenon, <2>2, <2>4, <2>5
<1> HIDE DEF S
<1>5. 0..n \subseteq S
  BY Zenon, <1>1, <1>3, <1>4, InductionUpTo
<1>6. n \in S
  BY <1>1, <1>5
<1> QED
  BY Zenon, <1>6 DEF S

LEMMA TargetDurationBounds ==
    ASSUME NEW segs \in Seq(Entries)
    PROVE  /\ targetDuration(segs) \in Nat
           /\ \A i \in 1..Len(segs) : Round(segs[i].dur) <= targetDuration(segs)
<1> DEFINE R == {Round(segs[i].dur) : i \in 1..Len(segs)}
           T == {0} \cup R
<1>1. DOMAIN segs = 1..Len(segs)
  OBVIOUS
<1>2. targetDuration(segs) = Max(T)
  BY Zenon, <1>1 DEF targetDuration
<1>3. \A i \in 1..Len(segs) : Round(segs[i].dur) \in Nat
  BY Zenon, SeqElement, DurationType, RoundType
<1>4. T \in SUBSET Nat /\ T # {}
  <2>1. 0 \in Nat
    OBVIOUS
  <2> QED
    BY Zenon, <2>1, <1>3
<1>5. PICK b \in Nat : \A i \in 1..Len(segs) : Round(segs[i].dur) <= b
  BY Zenon, RoundsBounded
<1>6. 0 <= b
  OBVIOUS
<1>7. \A x \in T : x <= b
  BY Zenon, <1>5, <1>6
<1>8. Max(T) \in T /\ \A x \in T : x <= Max(T)
  BY Zenon, <1>4, <1>7, GreatestElement
<1> QED
  BY Zenon, <1>2, <1>4, <1>8

LEMMA CumulatedTwo ==
    ASSUME NEW segs, segs[1].dur \in Nat, segs[2].dur \in Nat
    PROVE  Cumulated(segs, 2) = segs[1].dur + segs[2].dur
<1> DEFINE a == segs[1].dur
           b == segs[2].dur
           w == [i \in 0..2 |-> IF i = 0 THEN 0 ELSE IF i = 1 THEN a ELSE a + b]
           cur == CHOOSE cur : cur = [i \in 0..2 |-> IF i = 0 THEN 0 ELSE cur[i - 1] + segs[i].dur]
<1>1. w = [i \in 0..2 |-> IF i = 0 THEN 0 ELSE w[i - 1] + segs[i].dur]
  <2>1. w[0] = 0 /\ w[1] = a /\ w[2] = a + b
    OBVIOUS
  <2>2. \A i \in 0..2 : i = 0 \/ i = 1 \/ i = 2
    OBVIOUS
  <2>3. 1 - 1 = 0 /\ 2 - 1 = 1 /\ 1 # 0 /\ 2 # 0 /\ 2 # 1 /\ 0 + a = a
    OBVIOUS
  <2>4. \A i \in 0..2 : (IF i = 0 THEN 0 ELSE IF i = 1 THEN a ELSE a + b)
                            = IF i = 0 THEN 0 ELSE w[i - 1] + segs[i].dur
    <3> HIDE DEF w
    <3> QED
      BY ZenonT(30), <2>1, <2>2, <2>3
  <2> QED
    BY ZenonT(30), <2>4
<1> HIDE DEF w
<1>2. cur = [i \in 0..2 |-> IF i = 0 THEN 0 ELSE cur[i - 1] + segs[i].dur]
  BY ZenonT(30), <1>1
<1>3. Cumulated(segs, 2) = cur[2]
  BY Zenon DEF Cumulated
<1> HIDE DEF cur
<1>4. 0 \in 0..2 /\ 1 \in 0..2 /\ 2 \in 0..2 /\ 1 # 0 /\ 2 # 0 /\ 1 - 1 = 0 /\ 2 - 1 = 1
  OBVIOUS
<1>5. cur[0] = 0
  BY Zenon, <1>2, <1>4
<1>6. cur[1] = cur[0] + segs[1].dur
  BY Zenon, <1>2, <1>4
<1>7. cur[2] = cur[1] + segs[2].dur
  BY Zenon, <1>2, <1>4
<1> QED
  BY <1>3, <1>5, <1>6, <1>7

\* Two entries are shorter than six target durations.
LEMMA TwoFit ==
    ASSUME NEW x \in Nat, NEW y \in Nat, NEW rx \in Nat, NEW ry \in Nat, NEW t \in Nat,
           x <= 10 * rx + 4, y <= 10 * ry + 4, rx <= t, ry <= t, rx >= 1
    PROVE  x + y < 10 * 6 * t
  OBVIOUS

LEMMA NewestKept ==
    ASSUME NEW segs \in Seq(Entries), Len(segs) >= 2, segs[1].dur > 5
    PROVE  Skipped(segs, TRUE) + 2 <= Len(segs)
<1> DEFINE n == Len(segs)
           t == targetDuration(segs)
           T == {0} \cup {m \in 1..n : Cumulated(segs, m) < 10 * 6 * t}
<1>1. n \in Nat /\ 1 \in 1..n /\ 2 \in 1..n
  OBVIOUS
<1>2. segs[1].dur \in Nat /\ segs[2].dur \in Nat
  BY Zenon, <1>1, SeqElement, DurationType
<1>3. t \in Nat /\ Round(segs[1].dur) <= t /\ Round(segs[2].dur) <= t
  BY Zenon, <1>1, TargetDurationBounds
<1>4. /\ Round(segs[1].dur) \in Nat /\ segs[1].dur <= 10 * Round(segs[1].dur) + 4
      /\ Round(segs[1].dur) >= 1
      /\ Round(segs[2].dur) \in Nat /\ segs[2].dur <= 10 * Round(segs[2].dur) + 4
  BY Zenon, <1>2, RoundType
<1>5. segs[1].dur + segs[2].dur < 10 * 6 * t
  BY Zenon, <1>2, <1>3, <1>4, TwoFit
<1>6. Cumulated(segs, 2) = segs[1].dur + segs[2].dur
  BY Zenon, <1>2, CumulatedTwo
<1>7. 2 \in T
  BY Zenon, <1>1, <1>5, <1>6
<1>8. T \in SUBSET Nat /\ \A x \in T : x <= n
  BY <1>1
<1>9. Max(T) \in T /\ 2 <= Max(T)
  BY Zenon, <1>1, <1>7, <1>8, GreatestElement
<1>10. Skipped(segs, TRUE) = n - Max(T)
  BY Zenon DEF Skipped
<1>11. Max(T) \in Nat
  BY Zenon, <1>8, <1>9
<1>12. \A x \in Nat : 2 <= x => (n - x) + 2 <= n
  BY <1>1
<1> QED
  BY Zenon, <1>9, <1>10, <1>11, <1>12

\* A delta update always has the two newest entries, the ones that are listed
\* with their parts, for every segment count and all durations above half a
\* second (fullPlaylist, targetDuration).
THEOREM DeltaAlwaysKeepsNewest == Spec => []DeltaKeepsNewest
<1>1. TypeOK => DeltaKeepsNewest
  <2> SUFFICES ASSUME TypeOK, Len(segments) >= 2, \A i \in 1..Len(segments) : segments[i].dur > 5
               PROVE  Skipped(segments, TRUE) + 2 <= Len(segments)
    BY Zenon DEF DeltaKeepsNewest
  <2>1. segments \in Seq(Entries)
    BY Zenon DEF TypeOK
  <2>2. 1 \in 1..Len(segments)
    BY <2>1
  <2> QED
    BY Zenon, <2>1, <2>2, NewestKept
<1> QED
  BY <1>1, TypeCorrect, PTL

-----------------------------------------------------------------------------
(* hasPart finds the part or a later one                                   *)

Position == [seg : Nat, part : Nat, found : BOOLEAN]

LEMMA SearchStepType ==
    ASSUME NEW at \in Position, NEW s \in Entries
    PROVE  SearchStep(at, s) \in Position
<1>1. at.seg \in Nat /\ at.part \in Nat /\ at.found \in BOOLEAN
  BY Zenon DEF Position
<1>2. [seg |-> at.seg + 1, part |-> 0, found |-> FALSE] \in Position
  BY <1>1 DEF Position
<1>3. [at EXCEPT !.found = TRUE] \in Position
  BY Zenon DEF Position
<1> QED
  BY Zenon, <1>2, <1>3 DEF SearchStep

Start(msn, part) == [seg |-> msn, part |-> part, found |-> FALSE]

\* What the loop of hasPart computes.
LEMMA SearchComputes ==
    ASSUME NEW segs \in Seq(Entries), NEW msn \in Nat, NEW part \in Nat
    PROVE  /\ Search(segs, msn, part)[0] = Start(msn, part)
           /\ \A i \in 1..Len(segs) : Search(segs, msn, part)[i] =
                    SearchStep(Search(segs, msn, part)[i - 1], segs[i])
<1> DEFINE n == Len(segs)
           step == [p \in (1..n) \X Position |-> SearchStep(p[2], segs[p[1]])]
<1>1. n \in Nat /\ \A i \in 1..n : segs[i] \in Entries
  OBVIOUS
<1> HIDE DEF n
<1>2. step \in [(1..n) \X Position -> Position]
  BY <1>1, SearchStepType
<1>3. \A i \in 1..n, at \in Position : step[<<i, at>>] = SearchStep(at, segs[i])
  OBVIOUS
<1> HIDE DEF step
<1>4. Start(msn, part) \in Position
  BY DEF Start, Position
<1>5. PICK f : Iterates(f, n, Position, Start(msn, part), step)
  BY Zenon, <1>1, <1>2, <1>4, RecursionUpTo
<1>6. f \in [0..n -> Position] /\ f[0] = Start(msn, part)
  BY Zenon, <1>5 DEF Iterates
<1>7. \A i \in 1..n : i - 1 \in 0..n /\ i # 0 /\ i \in 0..n
  BY <1>1
<1>8. \A i \in 1..n : f[i] = SearchStep(f[i - 1], segs[i])
  BY Zenon, <1>3, <1>5, <1>6, <1>7 DEF Iterates
<1>9. \A i \in 0..n : i = 0 \/ i \in 1..n
  BY <1>1
<1>10. f = [i \in 0..n |-> IF i = 0 THEN Start(msn, part) ELSE SearchStep(f[i - 1], segs[i])]
  BY Zenon, <1>6, <1>8, <1>9
<1>11. Search(segs, msn, part) = [i \in 0..n |-> IF i = 0 THEN Start(msn, part)
                    ELSE SearchStep(Search(segs, msn, part)[i - 1], segs[i])]
  BY Zenon, <1>10 DEF Search, n, Start
<1>12. 0 \in 0..n
  BY <1>1
<1> QED
  BY Zenon, <1>7, <1>11, <1>12 DEF n

\* Entries that are not the segment looked for do not move the search.
LEMMA SearchPasses ==
    ASSUME NEW segs \in Seq(Entries), NEW msn \in Nat, NEW part \in Nat,
           NEW m \in 0..Len(segs),
           \A j \in 1..m : segs[j].gap \/ segs[j].ID # msn
    PROVE  Search(segs, msn, part)[m] = Start(msn, part)
<1> DEFINE S == {i \in 0..m : Search(segs, msn, part)[i] = Start(msn, part)}
<1>1. m \in Nat /\ 0 \in 0..m /\ m \in 0..m
  OBVIOUS
<1>2. 0 \in S
  BY Zenon, <1>1, SearchComputes
<1>3. ASSUME NEW i \in 0..m-1, i \in S PROVE i + 1 \in S
  <2>1. i + 1 \in 1..Len(segs) /\ i + 1 \in 1..m /\ i + 1 \in 0..m /\ (i + 1) - 1 = i
    OBVIOUS
  <2>2. Search(segs, msn, part)[i + 1] = SearchStep(Start(msn, part), segs[i + 1])
    <3>1. Search(segs, msn, part)[i + 1] =
            SearchStep(Search(segs, msn, part)[(i + 1) - 1], segs[i + 1])
      BY Zenon, <2>1, SearchComputes
    <3>2. Search(segs, msn, part)[i] = Start(msn, part)
      BY Zenon, <1>3
    <3> QED
      BY Zenon, <3>1, <3>2, <2>1
  <2>3. Start(msn, part).seg = msn
    BY Zenon DEF Start
  <2>4. SearchStep(Start(msn, part), segs[i + 1]) = Start(msn, part)
    <3>1. CASE segs[i + 1].gap
      BY Zenon, <3>1 DEF SearchStep
    <3>2. CASE segs[i + 1].ID # msn
      <4>1. Start(msn, part).seg # segs[i + 1].ID
        BY Zenon, <2>3, <3>2
      <4> QED
        BY Zenon, <4>1 DEF SearchStep
    <3> QED
      BY Zenon, <2>1, <3>1, <3>2
  <2> QED
    BY Zenon, <2>1, <2>2, <2>4
<1> HIDE DEF S
<1>4. 0..m \subseteq S
  BY Zenon, <1>1, <1>2, <1>3, InductionUpTo
<1> QED
  BY Zenon, <1>1, <1>4 DEF S

\* A part that was found stays found.
LEMMA SearchStays ==
    ASSUME NEW segs \in Seq(Entries), NEW msn \in Nat, NEW part \in Nat,
           NEW m \in 0..Len(segs), Search(segs, msn, part)[m].found
    PROVE  Search(segs, msn, part)[Len(segs)].found
<1> DEFINE n == Len(segs) - m
           S == {i \in 0..n : Search(segs, msn, part)[m + i].found}
<1>1. n \in Nat /\ 0 \in 0..n /\ n \in 0..n /\ m + 0 = m /\ m + n = Len(segs)
  OBVIOUS
<1>2. 0 \in S
  BY Zenon, <1>1
<1>3. ASSUME NEW i \in 0..n-1, i \in S PROVE i + 1 \in S
  <2>1. /\ m + (i + 1) \in 1..Len(segs) /\ (m + (i + 1)) - 1 = m + i
        /\ i + 1 \in 0..n
    OBVIOUS
  <2>2. Search(segs, msn, part)[m + (i + 1)] =
            SearchStep(Search(segs, msn, part)[m + i], segs[m + (i + 1)])
    <3>1. Search(segs, msn, part)[m + (i + 1)] =
            SearchStep(Search(segs, msn, part)[(m + (i + 1)) - 1], segs[m + (i + 1)])
      BY Zenon, <2>1, SearchComputes
    <3> QED
      BY Zenon, <3>1, <2>1
  <2>3. Search(segs, msn, part)[m + i].found
    BY Zenon, <1>3
  <2>4. Search(segs, msn, part)[m + (i + 1)] = Search(segs, msn, part)[m + i]
    BY Zenon, <2>2, <2>3 DEF SearchStep
  <2> QED
    BY Zenon, <2>1, <2>3, <2>4
<1> HIDE DEF S, n
<1>4. 0..n \subseteq S
  BY Zenon, <1>1, <1>2, <1>3, InductionUpTo
<1> QED
  BY Zenon, <1>1, <1>4 DEF S

\* The IDs of the segments are their positions from D on, gaps come before
\* segments, and segments have parts.
WellNumbered(segs, D) ==
    \A i \in 1..Len(segs) : ~segs[i].gap =>
        /\ segs[i].ID = D + i - 1
        /\ segs[i].Parts # <<>>
        /\ i < Len(segs) => ~segs[i + 1].gap

\* The part is there: it is of the next segment, or of a listed one that has it
\* or is followed by a part.
PartThere(segs, D, nextParts, msn, part) ==
    \/ msn = D + Len(segs) /\ part < Len(nextParts)
    \/ \E m \in 1..Len(segs) :
          /\ ~segs[m].gap /\ segs[m].ID = msn
          /\ part < Len(segs[m].Parts) \/ m < Len(segs) \/ Len(nextParts) # 0

\* hasPart moves from the end of a segment to the next one and no further.
LEMMA HasPartExact ==
    ASSUME NEW segs \in Seq(Entries), NEW D \in Nat, NEW nextParts \in Seq(Nat),
           WellNumbered(segs, D), Len(segs) # 0, NEW msn \in Nat, NEW part \in Nat
    PROVE  hasPart(segs, D + Len(segs), nextParts, msn, part)
                <=> PartThere(segs, D, nextParts, msn, part)
<1> DEFINE n == Len(segs)
           end == Search(segs, msn, part)[n]
<1>1. n \in Nat /\ n \in 1..n /\ n \in 0..n /\ n >= 1 /\ Len(nextParts) \in Nat
  OBVIOUS
<1>2. hasPart(segs, D + n, nextParts, msn, part) <=>
            end.found \/ (end.seg = D + n /\ end.part < Len(nextParts))
  <2>1. hasContent(segs)
    BY <1>1 DEF hasContent
  <2> QED
    BY Zenon, <2>1 DEF hasPart
<1>3. \A i \in 1..n : segs[i] \in Entries
  OBVIOUS
<1>a. \A i \in 1..n : ~segs[i].gap => segs[i].Parts \in Seq(Nat) /\ segs[i].ID \in Nat
  BY Zenon, <1>3 DEF Entries
<1>b. ASSUME NEW i \in 1..n, ~segs[i].gap PROVE Len(segs[i].Parts) \in Nat /\ Len(segs[i].Parts) # 0
  <2>1. segs[i].Parts \in Seq(Nat) /\ segs[i].Parts # <<>>
    BY Zenon, <1>a, <1>b DEF WellNumbered
  <2> QED
    BY <2>1, SeqEmpty
<1>c. \A i \in 1..n : ~segs[i].gap => segs[i].ID = D + i - 1
  BY Zenon DEF WellNumbered
<1>d. \A i \in 1..n : ~segs[i].gap /\ i < n => ~segs[i + 1].gap
  BY Zenon DEF WellNumbered
<1>e. /\ Start(msn, part).seg = msn /\ Start(msn, part).part = part
      /\ Start(msn, part).found = FALSE
  BY DEF Start
<1>4. CASE \A j \in 1..n : segs[j].gap \/ segs[j].ID # msn
  <2>1. end = Start(msn, part)
    BY Zenon, <1>1, <1>4, SearchPasses
  <2>2. hasPart(segs, D + n, nextParts, msn, part) <=> msn = D + n /\ part < Len(nextParts)
    BY Zenon, <2>1, <1>2, <1>e
  <2> QED
    BY Zenon, <2>2, <1>4 DEF PartThere
<1>5. CASE \E m \in 1..n : ~segs[m].gap /\ segs[m].ID = msn
  <2>1. PICK m \in 1..n : ~segs[m].gap /\ segs[m].ID = msn
    BY Zenon, <1>5
  <2>2. msn = D + m - 1 /\ msn # D + n /\ m - 1 \in 0..n /\ m \in 0..n
    BY <1>1, <1>c, <2>1
  <2>3. \A j \in 1..m-1 : segs[j].gap \/ segs[j].ID # msn
    <3> SUFFICES ASSUME NEW j \in 1..m-1, ~segs[j].gap PROVE segs[j].ID # msn
      BY Zenon
    <3>1. j \in 1..n /\ D + j - 1 # D + m - 1
      BY <1>1
    <3> QED
      BY Zenon, <3>1, <2>2, <1>c
  <2>4. Search(segs, msn, part)[m - 1] = Start(msn, part)
    BY Zenon, <2>2, <2>3, SearchPasses
  <2>5. Search(segs, msn, part)[m] = SearchStep(Start(msn, part), segs[m])
    <3>1. Search(segs, msn, part)[m] = SearchStep(Search(segs, msn, part)[m - 1], segs[m])
      BY Zenon, SearchComputes
    <3> QED
      BY Zenon, <3>1, <2>4
  <2>6. PartThere(segs, D, nextParts, msn, part) <=>
            part < Len(segs[m].Parts) \/ m < n \/ Len(nextParts) # 0
    <3>1. ASSUME NEW k \in 1..n, ~segs[k].gap, segs[k].ID = msn PROVE k = m
      <4>1. msn = D + k - 1 /\ msn = D + m - 1
        BY Zenon, <3>1, <2>2, <1>c
      <4> QED
        BY <4>1
    <3> QED
      BY Zenon, <2>1, <2>2, <3>1 DEF PartThere
  <2>7. CASE part < Len(segs[m].Parts)
    <3>1. ~(part >= Len(segs[m].Parts))
      BY <2>7, <2>1, <1>b
    <3>2. Search(segs, msn, part)[m] = [Start(msn, part) EXCEPT !.found = TRUE]
      BY Zenon, <2>1, <2>5, <3>1, <1>e DEF SearchStep
    <3>3. Search(segs, msn, part)[m].found
      BY <3>2 DEF Start
    <3>4. end.found
      BY Zenon, <3>3, <2>2, SearchStays
    <3> QED
      BY Zenon, <3>4, <2>6, <2>7, <1>2
  <2>8. CASE part >= Len(segs[m].Parts)
    <3> DEFINE after == [seg |-> msn + 1, part |-> 0, found |-> FALSE]
    <3>1. Search(segs, msn, part)[m] = after
      BY Zenon, <2>1, <2>5, <2>8, <1>e DEF SearchStep
    <3>a. ~(part < Len(segs[m].Parts))
      BY <2>8, <2>1, <1>b
    <3>b. after.seg = msn + 1 /\ after.part = 0 /\ after.found = FALSE
      OBVIOUS
    <3> HIDE DEF after
    <3>2. CASE m = n
      <4>1. end = after
        BY Zenon, <3>1, <3>2
      <4>2. msn + 1 = D + n /\ (0 < Len(nextParts) <=> Len(nextParts) # 0) /\ ~(m < n)
        BY <2>2, <3>2, <1>1
      <4> QED
        BY Zenon, <4>1, <4>2, <3>a, <3>b, <2>6, <1>2
    <3>3. CASE m < n
      <4>1. m + 1 \in 1..n /\ m + 1 \in 0..n /\ (m + 1) - 1 = m
        BY <3>3
      <4>2. ~segs[m + 1].gap
        BY Zenon, <2>1, <3>3, <1>d
      <4>3. segs[m + 1].ID = msn + 1
        BY <4>1, <4>2, <2>2, <1>c
      <4>4. ~(0 >= Len(segs[m + 1].Parts))
        BY <4>1, <4>2, <1>b
      <4>5. Search(segs, msn, part)[m + 1] = SearchStep(Search(segs, msn, part)[(m + 1) - 1], segs[m + 1])
        BY Zenon, <4>1, SearchComputes
      <4>6. Search(segs, msn, part)[m + 1] = SearchStep(after, segs[m + 1])
        BY Zenon, <4>1, <4>5, <3>1
      <4>7. SearchStep(after, segs[m + 1]) = [after EXCEPT !.found = TRUE]
        BY Zenon, <4>2, <4>3, <4>4, <3>b DEF SearchStep
      <4>8. Search(segs, msn, part)[m + 1].found
        BY <4>6, <4>7 DEF after
      <4>9. end.found
        BY Zenon, <4>8, <4>1, SearchStays
      <4> QED
        BY Zenon, <4>9, <3>3, <2>6, <1>2
    <3> QED
      BY <3>2, <3>3, <1>1
  <2> QED
    BY <2>7, <2>8, <2>1, <1>b
<1> QED
  BY Zenon, <1>4, <1>5

-----------------------------------------------------------------------------
(* What is listed is served                                                *)

\* While the muxer is open, only the two calls of the segmenter change the
\* playlist.
LEMMA OpenCases ==
    ASSUME [Next]_vars, ctxDone' = FALSE
    PROVE  /\ ctxDone = FALSE
           /\ \/ \E d \in Durations : SegmentFinalized(d)
              \/ PartFinalized
              \/ UNCHANGED <<playlistVars, contractVars>>
<1>1. CASE UNCHANGED vars
  BY ZenonT(30), <1>1 DEF vars
<1>2. ASSUME NEW c \in Clients, NEW req \in Requests, Call(c, req)
      PROVE  UNCHANGED <<playlistVars, contractVars, ctxDone>>
  BY ZenonT(30), <1>2 DEF Call
<1>3. ASSUME NEW c \in Clients, CallCanceled(c)
      PROVE  UNCHANGED <<playlistVars, contractVars, ctxDone>>
  BY ZenonT(30), <1>3 DEF CallCanceled
<1>4. ASSUME NEW c \in Clients, Serve(c)
      PROVE  UNCHANGED <<playlistVars, contractVars, ctxDone>>
  BY ZenonT(30), <1>4 DEF Serve, ServePlaylist, ServeSegment, ServeBlockingPlaylist, ServePart,
              ServeWaitForSegFinal, ServeNextSegment
<1>5. CASE PartFinalized
  BY ZenonT(30), <1>5 DEF PartFinalized
<1>6. ASSUME NEW d \in Durations, SegmentFinalized(d)
      PROVE  ctxDone' = ctxDone
  BY ZenonT(30), <1>6 DEF SegmentFinalized
<1>7. CASE FinalizedDropped
  <2>1. ctxDone /\ ctxDone' = ctxDone
    BY ZenonT(30), <1>7 DEF FinalizedDropped
  <2> QED
    BY <2>1
<1>8. CASE Cancel
  BY ZenonT(30), <1>8 DEF Cancel
<1>9. CASE Cleanup
  BY ZenonT(30), <1>9 DEF Cleanup
<1> QED
  BY ZenonT(30), <1>1, <1>2, <1>3, <1>4, <1>5, <1>6, <1>7, <1>8, <1>9 DEF Next

\* What segmentFinalized(segment) does to the maps and to p.parts.
SegmentMaps(d) ==
    /\ segParts # <<>>
    /\ segmentsByName' = (segmentsByName \cup {segID})
            \ (IF DeleteHead(AllSegments(d)) /\ ~AllSegments(d)[1].gap
               THEN {AllSegments(d)[1].ID} ELSE {})
    /\ partsByName' = partsByName \ Range(DeletedParts(AllSegments(d)))
    /\ parts' = SubSeq(parts, Len(DeletedParts(AllSegments(d))) + 1, Len(parts))

LEMMA SegmentFinalizedMaps ==
    ASSUME NEW d \in Durations, SegmentFinalized(d)
    PROVE  SegmentMaps(d)
  BY ZenonT(30) DEF SegmentFinalized, SegmentMaps, AllSegments, FinalizeSegment

\* The IDs of the segments of a list.
IDs(segs) == {segs[i].ID : i \in {j \in 1..Len(segs) : ~segs[j].gap}}

\* The entries keep the shape that hasPart relies on, and segmentsByName has
\* the listed segments.
WindowInv ==
    ctxDone = FALSE =>
        /\ WellNumbered(segments, segmentDeleteCount)
        /\ segmentsByName = IDs(segments)
        /\ nextSegmentParts = segParts

LEMMA WindowInit == Init => WindowInv
  BY SeqEmpty DEF Init, ContractInit, WindowInv, WellNumbered, IDs

\* The list with the new segment.
LEMMA AllSegmentsNumbered ==
    ASSUME TypeOK, NumberingInv, WindowInv, ctxDone = FALSE,
           NEW d \in Durations, segParts # <<>>
    PROVE  /\ WellNumbered(AllSegments(d), segmentDeleteCount)
           /\ IDs(AllSegments(d)) = segmentsByName \cup {segID}
<1> DEFINE all == AllSegments(d)
           n == IF Len(segments) = 0 THEN InitialGaps ELSE Len(segments)
<1>1. /\ Len(all) = n + 1
      /\ \A i \in 1..Len(all) - 1 :
            all[i] = IF Len(segments) = 0 THEN Gap(d) ELSE segments[i]
      /\ all[Len(all)] = Segment(segID, segParts, d)
  BY ZenonT(30), AllSegmentsType
<1>2. /\ n \in Nat \ {0} /\ Len(segments) \in Nat
      /\ Len(segments) # 0 => n = Len(segments)
  BY PlaylistAssumption, SeqLength DEF TypeOK
<1>3. segmentDeleteCount \in Nat /\ segID = segmentDeleteCount + n
  BY PlaylistAssumption, SeqLength DEF NumberingInv, TypeOK
<1>4. all[n + 1] = Segment(segID, segParts, d)
  BY Zenon, <1>1
<1>5. ~all[n + 1].gap /\ all[n + 1].ID = segID /\ all[n + 1].Parts = segParts
  BY <1>4 DEF Segment
<1> HIDE DEF all
<1>6. \A i \in 1..n : /\ Len(segments) = 0 => all[i].gap
                      /\ Len(segments) # 0 => all[i] = segments[i]
  <2>1. Gap(d).gap
    BY Zenon DEF Gap
  <2> QED
    BY <1>1, <1>2, <2>1
<1> HIDE DEF n
<1>7. \A i \in 1..n + 1 : i = n + 1 \/ i \in 1..n
  BY <1>2
<1>8. \A i \in 1..n : ~all[i].gap => Len(segments) # 0 /\ n = Len(segments) /\ all[i] = segments[i]
  BY Zenon, <1>2, <1>6
<1>9. ASSUME NEW i \in 1..n + 1, ~all[i].gap
      PROVE  /\ all[i].ID = segmentDeleteCount + i - 1 /\ all[i].Parts # <<>>
             /\ i < n + 1 => ~all[i + 1].gap
  <2>1. CASE i = n + 1
    <3>1. segID = segmentDeleteCount + i - 1 /\ ~(i < n + 1)
      BY <2>1, <1>2, <1>3
    <3> QED
      BY Zenon, <3>1, <2>1, <1>5
  <2>2. CASE i \in 1..n
    <3>1. n = Len(segments) /\ all[i] = segments[i]
      BY Zenon, <2>2, <1>8, <1>9
    <3>2. /\ segments[i].ID = segmentDeleteCount + i - 1 /\ segments[i].Parts # <<>>
          /\ i < Len(segments) => ~segments[i + 1].gap
      BY Zenon, <2>2, <3>1, <1>9 DEF WindowInv, WellNumbered
    <3>3. i < n => i + 1 \in 1..n
      BY <2>2, <1>2
    <3>4. i < n => ~all[i + 1].gap
      <4>1. Len(segments) # 0
        BY Zenon, <2>2, <1>8, <1>9
      <4>2. i < n => all[i + 1] = segments[i + 1]
        BY Zenon, <4>1, <3>3, <1>6
      <4> QED
        BY Zenon, <4>2, <3>1, <3>2
    <3>5. i < n \/ i + 1 = n + 1
      BY <2>2, <1>2
    <3> QED
      BY Zenon, <3>1, <3>2, <3>4, <3>5, <1>5
  <2> QED
    BY Zenon, <2>1, <2>2, <1>7
<1>10. WellNumbered(all, segmentDeleteCount)
  BY Zenon, <1>1, <1>9 DEF WellNumbered
<1>11. ASSUME NEW x PROVE x \in IDs(all) <=> x \in segmentsByName \cup {segID}
  <2>1. x \in IDs(all) <=> \E i \in 1..n + 1 : ~all[i].gap /\ x = all[i].ID
    BY Zenon, <1>1 DEF IDs
  <2>2. x \in segmentsByName <=> \E i \in 1..Len(segments) : ~segments[i].gap /\ x = segments[i].ID
    BY Zenon DEF WindowInv, IDs
  <2>3. (\E i \in 1..n : ~all[i].gap /\ x = all[i].ID) => x \in segmentsByName
    BY Zenon, <2>2, <1>8
  <2>4. x \in segmentsByName => (\E i \in 1..n : ~all[i].gap /\ x = all[i].ID)
    <3> SUFFICES ASSUME NEW i \in 1..Len(segments), ~segments[i].gap, x = segments[i].ID
                 PROVE  \E k \in 1..n : ~all[k].gap /\ x = all[k].ID
      BY Zenon, <2>2
    <3>1. Len(segments) # 0
      BY <1>2
    <3>2. i \in 1..n /\ all[i] = segments[i]
      BY Zenon, <3>1, <1>2, <1>6
    <3> QED
      BY Zenon, <3>2
  <2>5. \A i \in 1..n : i \in 1..n + 1
    BY <1>2
  <2>6. n + 1 \in 1..n + 1
    BY <1>2
  <2> QED
    BY Zenon, <2>1, <2>3, <2>4, <2>5, <2>6, <1>5, <1>7
<1> QED
  BY Zenon, <1>10, <1>11 DEF all

\* Dropping the head of a list.
LEMMA TailNumbered ==
    ASSUME NEW all \in Seq(Entries), Len(all) # 0, NEW D \in Nat, WellNumbered(all, D)
    PROVE  /\ WellNumbered(Tail(all), D + 1)
           /\ IDs(Tail(all)) = IDs(all) \ (IF ~all[1].gap THEN {all[1].ID} ELSE {})
<1> DEFINE n == Len(all) - 1
<1>1. n \in Nat /\ Len(all) = n + 1 /\ 1 \in 1..n + 1 /\ all # <<>>
  BY SeqEmpty
<1>2. Len(Tail(all)) = n /\ \A i \in 1..n : Tail(all)[i] = all[i + 1]
  BY <1>1, SeqTail
<1> HIDE DEF n
<1>3. \A i \in 1..n + 1 : ~all[i].gap => /\ all[i].ID = D + i - 1 /\ all[i].Parts # <<>>
                                         /\ i < n + 1 => ~all[i + 1].gap
  BY Zenon, <1>1 DEF WellNumbered
<1>4. ASSUME NEW i \in 1..n, ~Tail(all)[i].gap
      PROVE  /\ Tail(all)[i].ID = D + 1 + i - 1 /\ Tail(all)[i].Parts # <<>>
             /\ i < n => ~Tail(all)[i + 1].gap
  <2>1. /\ i + 1 \in 1..n + 1 /\ D + (i + 1) - 1 = D + 1 + i - 1
        /\ i < n => i + 1 < n + 1 /\ i + 1 \in 1..n
    BY <1>1
  <2>2. Tail(all)[i] = all[i + 1] /\ (i < n => Tail(all)[i + 1] = all[(i + 1) + 1])
    BY Zenon, <2>1, <1>2
  <2> QED
    BY Zenon, <2>1, <2>2, <1>3, <1>4
<1>5. WellNumbered(Tail(all), D + 1)
  BY Zenon, <1>2, <1>4 DEF WellNumbered
<1>6. ASSUME NEW x
      PROVE  x \in IDs(Tail(all)) <=> x \in IDs(all) /\ ~(~all[1].gap /\ x = all[1].ID)
  <2>1. x \in IDs(Tail(all)) <=> \E i \in 1..n : ~all[i + 1].gap /\ x = all[i + 1].ID
    BY Zenon, <1>2 DEF IDs
  <2>2. x \in IDs(all) <=> \E i \in 1..n + 1 : ~all[i].gap /\ x = all[i].ID
    BY Zenon, <1>1 DEF IDs
  <2>3. \A i \in 1..n + 1 : i # 1 => i - 1 \in 1..n /\ (i - 1) + 1 = i
    BY <1>1
  <2>4. \A i \in 1..n : i + 1 \in 1..n + 1
    BY <1>1
  <2>5. ASSUME NEW i \in 1..n, ~all[i + 1].gap, x = all[i + 1].ID
        PROVE  x \in IDs(all) /\ ~(~all[1].gap /\ x = all[1].ID)
    <3>1. all[i + 1].ID = D + (i + 1) - 1 /\ (~all[1].gap => all[1].ID = D + 1 - 1)
      BY Zenon, <2>4, <2>5, <1>1, <1>3
    <3>2. D + (i + 1) - 1 # D + 1 - 1
      BY <1>1
    <3> QED
      BY Zenon, <3>1, <3>2, <2>2, <2>4, <2>5
  <2>6. ASSUME NEW i \in 1..n + 1, ~all[i].gap, x = all[i].ID, ~(~all[1].gap /\ x = all[1].ID)
        PROVE  x \in IDs(Tail(all))
    <3>1. i # 1
      BY Zenon, <2>6
    <3> QED
      BY Zenon, <3>1, <2>1, <2>3, <2>6
  <2> QED
    BY Zenon, <2>1, <2>2, <2>5, <2>6
<1> QED
  BY Zenon, <1>5, <1>6

LEMMA WindowInvStep == TypeOK /\ NumberingInv /\ WindowInv /\ [Next]_vars => WindowInv'
<1> SUFFICES ASSUME TypeOK, NumberingInv, WindowInv, [Next]_vars, ctxDone' = FALSE
             PROVE  /\ WellNumbered(segments', segmentDeleteCount')
                    /\ segmentsByName' = IDs(segments')
                    /\ nextSegmentParts' = segParts'
  BY ZenonT(30) DEF WindowInv
<1>1. ctxDone = FALSE
  BY Zenon, OpenCases
<1>2. ASSUME NEW d \in Durations, SegmentFinalized(d)
      PROVE  /\ WellNumbered(segments', segmentDeleteCount')
             /\ segmentsByName' = IDs(segments')
             /\ nextSegmentParts' = segParts'
  <2> DEFINE all == AllSegments(d)
  <2>1. SegmentStep(d) /\ SegmentMaps(d)
    BY Zenon, <1>2, SegmentFinalizedStep, SegmentFinalizedMaps
  <2>2. WellNumbered(all, segmentDeleteCount) /\ IDs(all) = segmentsByName \cup {segID}
    BY Zenon, <1>1, <2>1, AllSegmentsNumbered DEF SegmentMaps
  <2>3. all \in Seq(Entries) /\ Len(all) # 0 /\ segmentDeleteCount \in Nat
    <3>1. Len(segments) \in Nat /\ segmentDeleteCount \in Nat
      BY SeqLength DEF TypeOK
    <3> QED
      BY <3>1, AllSegmentsType, PlaylistAssumption
  <2>4. nextSegmentParts' = segParts'
    BY Zenon, <2>1 DEF SegmentStep
  <2>5. CASE DeleteHead(all)
    <3>1. segments' = Tail(all) /\ segmentDeleteCount' = segmentDeleteCount + 1
      BY Zenon, <2>1, <2>5 DEF SegmentStep, DeleteCount
    <3>2. segmentsByName' = IDs(all) \ (IF ~all[1].gap THEN {all[1].ID} ELSE {})
      BY Zenon, <2>1, <2>2, <2>5 DEF SegmentMaps
    <3> QED
      BY Zenon, <3>1, <3>2, <2>2, <2>3, <2>4, TailNumbered
  <2>6. CASE ~DeleteHead(all)
    <3>1. segments' = all /\ segmentDeleteCount' = segmentDeleteCount
      BY Zenon, <2>1, <2>6 DEF SegmentStep, DeleteCount
    <3>2. segmentsByName' = IDs(all)
      BY Zenon, <2>1, <2>2, <2>6 DEF SegmentMaps
    <3> QED
      BY Zenon, <3>1, <3>2, <2>2, <2>4
  <2> QED
    BY Zenon, <2>5, <2>6
<1>3. CASE PartFinalized
  <2>1. /\ UNCHANGED <<segments, segmentsByName, segmentDeleteCount>>
        /\ nextSegmentParts' = Append(nextSegmentParts, partID)
        /\ segParts' = Append(segParts, partID)
    BY ZenonT(30), <1>3 DEF PartFinalized, FinalizePart
  <2> QED
    BY ZenonT(30), <2>1, <1>1 DEF WindowInv
<1>4. CASE UNCHANGED <<playlistVars, contractVars>>
  BY ZenonT(30), <1>1, <1>4 DEF WindowInv, playlistVars, contractVars
<1> QED
  BY Zenon, <1>2, <1>3, <1>4, OpenCases

-----------------------------------------------------------------------------
(* The parts of the listed segments lie in p.parts one after the other     *)

\* off says where the parts of each entry begin in ps: after those of the
\* entries before it, and the parts of the next segment come last.
LaidOut(off, segs, next, ps) ==
    /\ off \in [1..Len(segs) + 1 -> Nat]
    /\ off[1] = 0
    /\ \A i, j \in 1..Len(segs) + 1 : i <= j => off[i] <= off[j]
    /\ \A i \in 1..Len(segs) : off[i + 1] = off[i] + Len(PartsOf(segs[i]))
    /\ \A i \in 1..Len(segs) : \A k \in 1..Len(PartsOf(segs[i])) :
            ps[off[i] + k] = PartsOf(segs[i])[k]
    /\ Len(ps) = off[Len(segs) + 1] + Len(next)
    /\ \A k \in 1..Len(next) : ps[off[Len(segs) + 1] + k] = next[k]

LEMMA PartsOfType ==
    ASSUME NEW s \in Entries
    PROVE  PartsOf(s) \in Seq(Nat) /\ Len(PartsOf(s)) \in Nat
<1>1. PartsOf(s) \in Seq(Nat)
  BY Zenon, SeqEmpty DEF PartsOf, Entries
<1> QED
  BY <1>1

\* Where the parts of an entry, and those of the next segment, lie: a is where
\* an entry begins that has c parts, e where the next segment begins that has m,
\* and L parts are taken from the front.
LEMMA PlaceOfPart ==
    \A a, c, e, m \in Nat : a + c <= e => \A k \in 1..c : a + k \in 1..e + m
  OBVIOUS

LEMMA PlaceOfNext ==
    \A e, m \in Nat : \A k \in 1..m : e + k \in 1..e + m
  OBVIOUS

LEMMA PlaceMoves ==
    \A a, c, L \in Nat : (a + c) - L = (a - L) + c
  OBVIOUS

LEMMA PlaceBefore ==
    \A a, c, L \in Nat : \A k \in 1..c : L + ((a - L) + k) = a + k
  OBVIOUS

LEMMA PlaceOfMovedPart ==
    \A a, c, e, m, L \in Nat : a + c <= e /\ L <= a =>
        \A k \in 1..c : (a - L) + k \in 1..(e + m) - L
  OBVIOUS

LEMMA PlaceOfMovedNext ==
    \A e, m, L \in Nat : L <= e => \A k \in 1..m : (e - L) + k \in 1..(e + m) - L
  OBVIOUS

LEMMA LaidOutPart ==
    ASSUME NEW off, NEW segs \in Seq(Entries), NEW next \in Seq(Nat), NEW ps \in Seq(Nat),
           NEW x \in Nat, LaidOut(off, segs, next, ps)
    PROVE  LaidOut(off, segs, Append(next, x), Append(ps, x))
<1> DEFINE n == Len(segs) + 1
<1>1. Len(segs) \in Nat /\ n \in 1..n /\ Len(next) \in Nat /\ Len(ps) \in Nat
  OBVIOUS
<1>2. /\ off \in [1..n -> Nat] /\ off[1] = 0
      /\ \A i, j \in 1..n : i <= j => off[i] <= off[j]
      /\ \A i \in 1..Len(segs) : off[i + 1] = off[i] + Len(PartsOf(segs[i]))
      /\ Len(ps) = off[n] + Len(next)
  BY Zenon DEF LaidOut
<1>3. \A i \in 1..Len(segs) : \A k \in 1..Len(PartsOf(segs[i])) :
            ps[off[i] + k] = PartsOf(segs[i])[k]
  BY Zenon DEF LaidOut
<1>4. \A k \in 1..Len(next) : ps[off[n] + k] = next[k]
  BY Zenon DEF LaidOut
<1> HIDE DEF n
<1>5. /\ Len(Append(next, x)) = Len(next) + 1
      /\ \A k \in 1..Len(next) : Append(next, x)[k] = next[k]
      /\ Append(next, x)[Len(next) + 1] = x
  BY SeqAppend
<1>6. /\ Len(Append(ps, x)) = Len(ps) + 1
      /\ \A k \in 1..Len(ps) : Append(ps, x)[k] = ps[k]
      /\ Append(ps, x)[Len(ps) + 1] = x
  BY SeqAppend
<1>7. ASSUME NEW i \in 1..Len(segs), NEW k \in 1..Len(PartsOf(segs[i]))
      PROVE  Append(ps, x)[off[i] + k] = PartsOf(segs[i])[k]
  <2>1. i \in 1..n /\ i + 1 \in 1..n /\ i + 1 <= n
    BY <1>1 DEF n
  <2>2. off[i] \in Nat /\ off[i + 1] \in Nat /\ off[n] \in Nat /\ off[i + 1] <= off[n]
    BY Zenon, <2>1, <1>1, <1>2
  <2>3. Len(PartsOf(segs[i])) \in Nat
    BY PartsOfType
  <2>4. off[i + 1] = off[i] + Len(PartsOf(segs[i]))
    BY Zenon, <1>2
  <2>5. off[i] + k \in 1..Len(ps)
    <3>1. Len(ps) = off[n] + Len(next) /\ Len(next) \in Nat
      BY Zenon, <1>1, <1>2
    <3> QED
      <4>1. off[i] + Len(PartsOf(segs[i])) <= off[n]
        BY Zenon, <2>2, <2>4
      <4>2. off[i] + k \in 1..off[n] + Len(next)
        BY Zenon, <4>1, <3>1, <2>2, <2>3, PlaceOfPart
      <4> QED
        BY Zenon, <4>2, <3>1
  <2> QED
    BY Zenon, <2>5, <1>3, <1>6
<1>8. ASSUME NEW k \in 1..Len(next) + 1
      PROVE  Append(ps, x)[off[n] + k] = Append(next, x)[k]
  <2>1. off[n] \in Nat
    BY Zenon, <1>1, <1>2
  <2>2. CASE k = Len(next) + 1
    <3>1. off[n] + k = Len(ps) + 1
      BY <2>1, <2>2, <1>1, <1>2
    <3> QED
      BY Zenon, <3>1, <2>2, <1>5, <1>6
  <2>3. CASE k \in 1..Len(next)
    <3>1. off[n] + k \in 1..Len(ps)
      <4>1. Len(ps) = off[n] + Len(next) /\ Len(next) \in Nat
        BY Zenon, <1>1, <1>2
      <4> QED
        <5>1. off[n] + k \in 1..off[n] + Len(next)
          BY Zenon, <4>1, <2>1, <2>3, PlaceOfNext
        <5> QED
          BY Zenon, <5>1, <4>1
    <3> QED
      BY Zenon, <3>1, <2>3, <1>4, <1>5, <1>6
  <2> QED
    <3>1. Len(next) \in Nat
      BY Zenon, <1>1
    <3>2. k = Len(next) + 1 \/ k \in 1..Len(next)
      BY <3>1
    <3> QED
      BY Zenon, <3>2, <2>2, <2>3
<1>9. Len(Append(ps, x)) = off[n] + Len(Append(next, x))
  <2>1. off[n] \in Nat
    BY Zenon, <1>1, <1>2
  <2> QED
    BY <2>1, <1>1, <1>2, <1>5, <1>6
<1> QED
  BY Zenon, <1>2, <1>5, <1>7, <1>8, <1>9 DEF LaidOut, n

\* The initial gaps have no parts.
LEMMA LaidOutGaps ==
    ASSUME NEW off, NEW segs \in Seq(Entries), NEW next \in Seq(Nat), NEW ps \in Seq(Nat),
           LaidOut(off, segs, next, ps), NEW d \in Durations
    PROVE  \E o : LaidOut(o, WithGaps(segs, d), next, ps)
<1>1. CASE Len(segs) # 0
  BY Zenon, <1>1 DEF WithGaps
<1>2. CASE Len(segs) = 0
  <2> DEFINE gaps == WithGaps(segs, d)
             g == InitialGaps
             o == [i \in 1..g + 1 |-> 0]
  <2>1. gaps = [i \in 1..g |-> Gap(d)] /\ g \in Nat
    BY <1>2, PlaylistAssumption DEF WithGaps
  <2>2. Len(gaps) = g /\ \A i \in 1..g : gaps[i] = Gap(d)
    BY <2>1
  <2> HIDE DEF gaps, g
  <2>3. /\ o \in [1..g + 1 -> Nat]
        /\ \A i \in 1..g + 1 : o[i] = 0
    OBVIOUS
  <2>4. /\ 1 \in 1..g + 1 /\ g + 1 \in 1..g + 1
        /\ \A i \in 1..g : i \in 1..g + 1 /\ i + 1 \in 1..g + 1
    BY <2>1
  <2> HIDE DEF o
  <2>5. \A i \in 1..g : PartsOf(gaps[i]) = <<>>
    <3>1. PartsOf(Gap(d)) = <<>>
      BY DEF PartsOf, Gap
    <3> QED
      BY Zenon, <3>1, <2>2
  <2>6. \A i \in 1..g : Len(PartsOf(gaps[i])) = 0
    <3>1. Len(<<>>) = 0
      OBVIOUS
    <3> QED
      BY Zenon, <3>1, <2>5
  <2>7. off[1] = 0 /\ Len(segs) + 1 = 1
    BY <1>2 DEF LaidOut
  <2>8. Len(ps) = 0 + Len(next) /\ \A k \in 1..Len(next) : ps[0 + k] = next[k]
    BY Zenon, <2>7 DEF LaidOut
  <2>9. \A i, j \in 1..g + 1 : i <= j => o[i] <= o[j]
    BY <2>3
  <2>10. \A i \in 1..g : o[i + 1] = o[i] + Len(PartsOf(gaps[i]))
    BY <2>3, <2>4, <2>6
  <2>11. \A i \in 1..g : \A k \in 1..Len(PartsOf(gaps[i])) : ps[o[i] + k] = PartsOf(gaps[i])[k]
    BY <2>6
  <2>12. Len(ps) = o[g + 1] + Len(next) /\ \A k \in 1..Len(next) : ps[o[g + 1] + k] = next[k]
    BY Zenon, <2>3, <2>4, <2>8
  <2>13. LaidOut(o, gaps, next, ps)
    BY Zenon, <2>2, <2>3, <2>4, <2>9, <2>10, <2>11, <2>12 DEF LaidOut
  <2> QED
    BY Zenon, <2>13 DEF gaps
<1> QED
  BY Zenon, <1>1, <1>2

\* The next segment becomes the last one listed.
LEMMA LaidOutSegment ==
    ASSUME NEW off, NEW segs \in Seq(Entries), NEW next \in Seq(Nat), NEW ps \in Seq(Nat),
           LaidOut(off, segs, next, ps), NEW s \in Entries, PartsOf(s) = next
    PROVE  \E o : LaidOut(o, Append(segs, s), <<>>, ps)
<1> DEFINE n == Len(segs)
           all == Append(segs, s)
           o == [i \in 1..n + 2 |-> IF i <= n + 1 THEN off[i] ELSE Len(ps)]
<1>1. n \in Nat /\ Len(next) \in Nat /\ Len(ps) \in Nat
  OBVIOUS
<1>2. /\ off \in [1..n + 1 -> Nat] /\ off[1] = 0
      /\ \A i, j \in 1..n + 1 : i <= j => off[i] <= off[j]
      /\ \A i \in 1..n : off[i + 1] = off[i] + Len(PartsOf(segs[i]))
      /\ Len(ps) = off[n + 1] + Len(next)
  BY Zenon DEF LaidOut
<1>3. \A i \in 1..n : \A k \in 1..Len(PartsOf(segs[i])) :
            ps[off[i] + k] = PartsOf(segs[i])[k]
  BY Zenon DEF LaidOut
<1>4. \A k \in 1..Len(next) : ps[off[n + 1] + k] = next[k]
  BY Zenon DEF LaidOut
<1>5. Len(all) = n + 1 /\ all[n + 1] = s /\ \A i \in 1..n : all[i] = segs[i]
  BY SeqAppend
<1> HIDE DEF n, all
<1>6. /\ \A i \in 1..n + 1 : i \in 1..n + 2 /\ i <= n + 1 /\ i + 1 \in 1..n + 2
      /\ \A i \in 1..n : i \in 1..n + 1 /\ i + 1 \in 1..n + 1
      /\ n + 2 \in 1..n + 2 /\ ~(n + 2 <= n + 1) /\ (n + 1) + 1 = n + 2 /\ n + 1 \in 1..n + 1
      /\ 1 \in 1..n + 1
  BY <1>1
<1>7. \A i \in 1..n + 1 : o[i] = off[i]
  BY Zenon, <1>6
<1>8. o[n + 2] = Len(ps)
  BY Zenon, <1>6
<1>9. o \in [1..n + 2 -> Nat]
  <2>1. \A i \in 1..n + 2 : i <= n + 1 => i \in 1..n + 1
    BY <1>1
  <2> QED
    BY Zenon, <2>1, <1>1, <1>2
<1> HIDE DEF o
<1>10. ASSUME NEW i \in 1..n + 2, NEW j \in 1..n + 2, i <= j PROVE o[i] <= o[j]
  <2>1. \A k \in 1..n + 1 : off[k] \in Nat /\ off[k] <= off[n + 1]
    <3>1. \A k \in 1..n + 1 : n + 1 \in 1..n + 1 /\ k <= n + 1
      BY <1>1
    <3> QED
      BY Zenon, <3>1, <1>2, <1>6
  <2>2. CASE j \in 1..n + 1
    <3>1. i \in 1..n + 1
      BY <2>2, <1>10, <1>1
    <3> QED
      BY Zenon, <3>1, <2>2, <1>2, <1>7, <1>10
  <2>3. CASE j = n + 2 /\ i \in 1..n + 1
    <3>1. o[i] = off[i] /\ o[j] = Len(ps)
      BY Zenon, <2>3, <1>7, <1>8
    <3>2. off[i] <= off[n + 1] /\ off[n + 1] \in Nat /\ off[i] \in Nat
      BY Zenon, <2>1, <2>3, <1>6
    <3> QED
      BY <3>1, <3>2, <1>1, <1>2
  <2>4. CASE j = n + 2 /\ i = n + 2
    BY <2>4, <1>8, <1>1
  <2> QED
    BY <2>2, <2>3, <2>4, <1>1
<1>11. ASSUME NEW i \in 1..n + 1
       PROVE  /\ o[i + 1] = o[i] + Len(PartsOf(all[i]))
              /\ \A k \in 1..Len(PartsOf(all[i])) : ps[o[i] + k] = PartsOf(all[i])[k]
  <2>1. CASE i \in 1..n
    <3>1. all[i] = segs[i] /\ o[i] = off[i] /\ o[i + 1] = off[i + 1]
      BY Zenon, <2>1, <1>5, <1>6, <1>7
    <3> QED
      BY Zenon, <3>1, <2>1, <1>2, <1>3
  <2>2. CASE i = n + 1
    <3>1. PartsOf(all[i]) = next /\ o[i] = off[n + 1] /\ o[i + 1] = Len(ps)
      BY Zenon, <2>2, <1>5, <1>6, <1>7, <1>8
    <3> QED
      BY Zenon, <3>1, <1>2, <1>4
  <2> QED
    BY <2>1, <2>2, <1>1
<1>12. Len(ps) = o[n + 2] + Len(<<>>) /\ \A k \in 1..Len(<<>>) : ps[o[n + 2] + k] = <<>>[k]
  BY <1>1, <1>8
<1>13. LaidOut(o, all, <<>>, ps)
  <2>1. Len(all) = n + 1 /\ Len(all) + 1 = n + 2 /\ o[1] = 0
    BY Zenon, <1>2, <1>5, <1>6, <1>7
  <2> QED
    BY Zenon, <2>1, <1>9, <1>10, <1>11, <1>12 DEF LaidOut
<1> QED
  BY Zenon, <1>13 DEF all

LEMMA SubSeqFrom ==
    ASSUME NEW ps \in Seq(Nat), NEW L \in 0..Len(ps)
    PROVE  /\ Len(SubSeq(ps, L + 1, Len(ps))) = Len(ps) - L
           /\ \A k \in 1..Len(ps) - L : SubSeq(ps, L + 1, Len(ps))[k] = ps[L + k]
  OBVIOUS

\* The head of the list goes with its parts, which are the first ones.
HeadLeaves(segs, next, ps) ==
    /\ Len(PartsOf(segs[1])) \in 0..Len(ps)
    /\ \A k \in 1..Len(PartsOf(segs[1])) : ps[k] = PartsOf(segs[1])[k]
    /\ \E o : LaidOut(o, Tail(segs), next, SubSeq(ps, Len(PartsOf(segs[1])) + 1, Len(ps)))

LEMMA LaidOutTail ==
    ASSUME NEW off, NEW segs \in Seq(Entries), NEW next \in Seq(Nat), NEW ps \in Seq(Nat),
           LaidOut(off, segs, next, ps), Len(segs) # 0
    PROVE  HeadLeaves(segs, next, ps)
<1> DEFINE n == Len(segs) - 1
           L == Len(PartsOf(segs[1]))
           rest == SubSeq(ps, L + 1, Len(ps))
           o == [i \in 1..n + 1 |-> off[i + 1] - L]
<1>1. n \in Nat /\ Len(segs) = n + 1 /\ Len(segs) + 1 = n + 2 /\ segs # <<>>
  BY SeqEmpty
<1>2. Len(next) \in Nat /\ Len(ps) \in Nat
  OBVIOUS
<1>3. off \in [1..n + 2 -> Nat] /\ off[1] = 0
  BY Zenon, <1>1 DEF LaidOut
<1>4. \A i, j \in 1..n + 2 : i <= j => off[i] <= off[j]
  BY Zenon, <1>1 DEF LaidOut
<1>5. \A i \in 1..n + 1 : off[i + 1] = off[i] + Len(PartsOf(segs[i]))
  BY Zenon, <1>1 DEF LaidOut
<1>6. Len(ps) = off[n + 2] + Len(next)
  BY Zenon, <1>1 DEF LaidOut
<1>7. \A i \in 1..n + 1 : \A k \in 1..Len(PartsOf(segs[i])) :
            ps[off[i] + k] = PartsOf(segs[i])[k]
  BY Zenon, <1>1 DEF LaidOut
<1>8. \A k \in 1..Len(next) : ps[off[n + 2] + k] = next[k]
  BY Zenon, <1>1 DEF LaidOut
<1>9. Len(Tail(segs)) = n /\ \A i \in 1..n : Tail(segs)[i] = segs[i + 1]
  BY <1>1, SeqTail
<1>10. \A i \in 1..n + 1 : segs[i] \in Entries
  BY <1>1
<1>11. L \in Nat /\ \A i \in 1..n + 1 : Len(PartsOf(segs[i])) \in Nat
  <2>1. 1 \in 1..n + 1
    BY <1>1
  <2> QED
    BY Zenon, <2>1, <1>10, PartsOfType
<1> HIDE DEF n
<1>12. /\ 1 \in 1..n + 1 /\ 1 + 1 = 2 /\ 2 \in 1..n + 2 /\ n + 2 \in 1..n + 2 /\ 2 <= n + 2
       /\ \A i \in 1..n + 1 : i + 1 \in 1..n + 2 /\ 2 <= i + 1 /\ i + 1 <= n + 2
       /\ \A i \in 1..n : i \in 1..n + 1 /\ i + 1 \in 1..n + 1
       /\ (n + 1) + 1 = n + 2 /\ n + 1 \in 1..n + 1
  BY <1>1
<1>13. off[2] = L
  <2>1. off[2] = off[1] + L
    BY Zenon, <1>5, <1>12
  <2> QED
    BY <2>1, <1>3, <1>11
<1>14. L \in 0..Len(ps)
  <2>1. off[n + 2] \in Nat /\ L <= off[n + 2]
    BY Zenon, <1>3, <1>4, <1>12, <1>13
  <2> QED
    BY <2>1, <1>2, <1>6, <1>11
<1>15. ASSUME NEW k \in 1..L PROVE ps[k] = PartsOf(segs[1])[k]
  <2>1. off[1] + k = k
    BY <1>3, <1>11
  <2> QED
    BY Zenon, <2>1, <1>7, <1>12
<1> HIDE DEF L
<1>16. Len(rest) = Len(ps) - L /\ \A k \in 1..Len(ps) - L : rest[k] = ps[L + k]
  BY Zenon, <1>14, SubSeqFrom
<1> HIDE DEF rest
<1>17. \A i \in 1..n + 1 : o[i] = off[i + 1] - L /\ o[i] \in Nat
  <2> SUFFICES ASSUME NEW i \in 1..n + 1 PROVE o[i] = off[i + 1] - L /\ o[i] \in Nat
    BY Zenon
  <2>1. off[i + 1] \in Nat /\ L <= off[i + 1]
    BY Zenon, <1>3, <1>4, <1>12, <1>13
  <2> QED
    BY <2>1, <1>11
<1>18. o \in [1..n + 1 -> Nat]
  BY Zenon, <1>17
<1> HIDE DEF o
<1>19. o[1] = 0
  <2>1. o[1] = off[2] - L
    BY Zenon, <1>12, <1>17
  <2> QED
    BY <2>1, <1>11, <1>13
<1>20. ASSUME NEW i \in 1..n + 1, NEW j \in 1..n + 1, i <= j PROVE o[i] <= o[j]
  <2>1. i + 1 <= j + 1
    BY <1>20, <1>1
  <2>2. off[i + 1] <= off[j + 1] /\ off[i + 1] \in Nat /\ off[j + 1] \in Nat
    BY Zenon, <2>1, <1>3, <1>4, <1>12
  <2>3. o[i] = off[i + 1] - L /\ o[j] = off[j + 1] - L
    BY Zenon, <1>17
  <2> QED
    BY <2>2, <2>3, <1>11
<1>21. ASSUME NEW i \in 1..n
       PROVE  /\ o[i + 1] = o[i] + Len(PartsOf(Tail(segs)[i]))
              /\ \A k \in 1..Len(PartsOf(Tail(segs)[i])) : rest[o[i] + k] = PartsOf(Tail(segs)[i])[k]
  <2>1. /\ Tail(segs)[i] = segs[i + 1]
        /\ o[i] = off[i + 1] - L /\ o[i + 1] = off[(i + 1) + 1] - L
        /\ off[(i + 1) + 1] = off[i + 1] + Len(PartsOf(segs[i + 1]))
    BY Zenon, <1>5, <1>9, <1>12, <1>17
  <2>2. /\ off[i + 1] \in Nat /\ Len(PartsOf(segs[i + 1])) \in Nat
        /\ off[(i + 1) + 1] \in Nat /\ off[n + 2] \in Nat
        /\ off[(i + 1) + 1] <= off[n + 2] /\ o[i] \in Nat
    BY Zenon, <1>3, <1>4, <1>11, <1>12, <1>17
  <2>3. o[i + 1] = o[i] + Len(PartsOf(segs[i + 1]))
    <3>1. (off[i + 1] + Len(PartsOf(segs[i + 1]))) - L = (off[i + 1] - L) + Len(PartsOf(segs[i + 1]))
      <4>1. off[i + 1] \in Nat /\ Len(PartsOf(segs[i + 1])) \in Nat /\ L \in Nat
        BY Zenon, <2>2, <1>11
      <4> QED
        BY <4>1, PlaceMoves
    <3> QED
      BY Zenon, <3>1, <2>1
  <2>4. ASSUME NEW k \in 1..Len(PartsOf(segs[i + 1]))
        PROVE  rest[o[i] + k] = PartsOf(segs[i + 1])[k]
    <3>1. o[i] + k \in 1..Len(ps) - L /\ L + (o[i] + k) = off[i + 1] + k
      <4>1. off[i + 1] + Len(PartsOf(segs[i + 1])) <= off[n + 2] /\ L <= off[i + 1]
        BY Zenon, <2>1, <2>2, <1>4, <1>12, <1>13
      <4>2. (off[i + 1] - L) + k \in 1..(off[n + 2] + Len(next)) - L
        BY Zenon, <4>1, <2>2, <1>2, <1>11, PlaceOfMovedPart
      <4>3. L + ((off[i + 1] - L) + k) = off[i + 1] + k
        <5>1. off[i + 1] \in Nat /\ Len(PartsOf(segs[i + 1])) \in Nat /\ L \in Nat
          BY Zenon, <2>2, <1>11
        <5> QED
          BY <5>1, PlaceBefore
      <4> QED
        BY Zenon, <4>2, <4>3, <2>1, <1>6
    <3>2. rest[o[i] + k] = ps[off[i + 1] + k]
      BY Zenon, <3>1, <1>16
    <3> QED
      BY Zenon, <3>2, <1>7, <1>12
  <2> QED
    BY Zenon, <2>1, <2>3, <2>4
<1>22. o[n + 1] = off[n + 2] - L /\ off[n + 2] \in Nat /\ o[n + 1] \in Nat
  BY Zenon, <1>3, <1>12, <1>17
<1>23. Len(rest) = o[n + 1] + Len(next)
  BY <1>22, <1>2, <1>6, <1>11, <1>16
<1>24. ASSUME NEW k \in 1..Len(next) PROVE rest[o[n + 1] + k] = next[k]
  <2>1. o[n + 1] + k \in 1..Len(ps) - L /\ L + (o[n + 1] + k) = off[n + 2] + k
    <3>1. L <= off[n + 2]
      BY Zenon, <1>4, <1>12, <1>13
    <3>2. (off[n + 2] - L) + k \in 1..(off[n + 2] + Len(next)) - L
      BY Zenon, <3>1, <1>2, <1>11, <1>22, PlaceOfMovedNext
    <3>3. L + ((off[n + 2] - L) + k) = off[n + 2] + k
      <4>1. off[n + 2] \in Nat /\ Len(next) \in Nat /\ L \in Nat
        BY Zenon, <1>2, <1>11, <1>22
      <4> QED
        BY <4>1, PlaceBefore
    <3> QED
      BY Zenon, <3>2, <3>3, <1>6, <1>22
  <2> QED
    BY Zenon, <2>1, <1>8, <1>16
<1>25. LaidOut(o, Tail(segs), next, rest)
  BY Zenon, <1>9, <1>18, <1>19, <1>20, <1>21, <1>23, <1>24 DEF LaidOut
<1> QED
  BY Zenon, <1>14, <1>15, <1>25 DEF rest, L, HeadLeaves

Increasing(ps) == \A k, l \in 1..Len(ps) : k < l => ps[k] < ps[l]

\* Taking the first parts from the list takes them from the map, because no
\* part is in the list twice.
LEMMA HeadPartsLeave ==
    ASSUME NEW ps \in Seq(Nat), Increasing(ps), NEW q \in Seq(Nat), Len(q) \in 0..Len(ps),
           \A k \in 1..Len(q) : ps[k] = q[k], NEW bound \in Nat,
           \A k \in 1..Len(ps) : ps[k] < bound
    PROVE  LET rest == SubSeq(ps, Len(q) + 1, Len(ps))
           IN  /\ Range(rest) = Range(ps) \ Range(q)
               /\ Increasing(rest)
               /\ \A k \in 1..Len(rest) : rest[k] < bound
<1> DEFINE L == Len(q)
           rest == SubSeq(ps, L + 1, Len(ps))
           m == Len(ps) - L
<1>1. L \in Nat /\ Len(ps) \in Nat /\ m \in Nat /\ L + m = Len(ps)
  OBVIOUS
<1>2. Len(rest) = m /\ (\A k \in 1..m : rest[k] = ps[L + k]) /\ DOMAIN rest = 1..m
  OBVIOUS
<1>3. DOMAIN ps = 1..Len(ps) /\ DOMAIN q = 1..L /\ \A k \in 1..Len(ps) : ps[k] \in Nat
  OBVIOUS
<1> HIDE DEF L, rest, m
<1>4. \A k \in 1..m : L + k \in 1..Len(ps)
  BY <1>1
<1>5. ASSUME NEW x PROVE x \in Range(rest) <=> x \in Range(ps) /\ x \notin Range(q)
  <2>1. x \in Range(rest) <=> \E k \in 1..m : x = ps[L + k]
    BY Zenon, <1>2 DEF Range
  <2>2. x \in Range(ps) <=> \E k \in 1..Len(ps) : x = ps[k]
    BY Zenon, <1>3 DEF Range
  <2>3. x \in Range(q) <=> \E k \in 1..L : x = ps[k]
    BY Zenon, <1>3 DEF Range, L
  <2>4. ASSUME NEW k \in 1..m, NEW l \in 1..L PROVE ps[L + k] # ps[l]
    <3>1. l \in 1..Len(ps) /\ l < L + k
      BY <1>1
    <3>2. ps[l] < ps[L + k]
      BY Zenon, <3>1, <1>4 DEF Increasing
    <3>3. ps[l] \in Nat /\ ps[L + k] \in Nat
      BY Zenon, <3>1, <1>3, <1>4
    <3> QED
      BY <3>2, <3>3
  <2>5. \A k \in 1..Len(ps) : k \notin 1..L => k - L \in 1..m /\ L + (k - L) = k
    BY <1>1
  <2>6. ASSUME NEW k \in 1..Len(ps), x = ps[k], x \notin Range(q) PROVE x \in Range(rest)
    <3>1. k \notin 1..L
      BY Zenon, <2>3, <2>6
    <3> QED
      BY Zenon, <3>1, <2>1, <2>5, <2>6
  <2> QED
    BY Zenon, <2>1, <2>2, <2>3, <2>4, <2>6, <1>4
<1>6. ASSUME NEW k \in 1..m, NEW l \in 1..m, k < l PROVE rest[k] < rest[l]
  <2>1. L + k < L + l
    BY <1>1, <1>6
  <2> QED
    BY Zenon, <2>1, <1>2, <1>4 DEF Increasing
<1>7. \A k \in 1..m : rest[k] < bound
  BY Zenon, <1>2, <1>4
<1> QED
  BY Zenon, <1>2, <1>5, <1>6, <1>7 DEF Increasing, rest, L

LEMMA PrefixGrows ==
    ASSUME NEW ps \in Seq(Nat), NEW a \in Nat, NEW q \in Seq(Nat), a + Len(q) <= Len(ps),
           \A k \in 1..Len(q) : ps[a + k] = q[k]
    PROVE  SubSeq(ps, 1, a + Len(q)) = SubSeq(ps, 1, a) \o q
<1> DEFINE c == Len(q)
           u == SubSeq(ps, 1, a + c)
           v == SubSeq(ps, 1, a)
<1>1. c \in Nat /\ Len(ps) \in Nat
  OBVIOUS
<1>2. u \in Seq(Nat) /\ Len(u) = a + c /\ \A k \in 1..a + c : u[k] = ps[k]
  OBVIOUS
<1>3. v \in Seq(Nat) /\ Len(v) = a /\ \A k \in 1..a : v[k] = ps[k]
  OBVIOUS
<1> HIDE DEF u, v
<1>4. /\ v \o q \in Seq(Nat) /\ Len(v \o q) = a + c
      /\ \A k \in 1..a + c : (v \o q)[k] = IF k <= a THEN v[k] ELSE q[k - a]
  BY Zenon, <1>3, SeqConcat DEF c
<1> HIDE DEF c
<1>5. ASSUME NEW k \in 1..a + c PROVE u[k] = (v \o q)[k]
  <2>1. CASE k <= a
    <3>1. k \in 1..a
      BY <2>1, <1>1
    <3> QED
      BY Zenon, <3>1, <2>1, <1>2, <1>3, <1>4
  <2>2. CASE ~(k <= a)
    <3>1. k - a \in 1..c /\ a + (k - a) = k
      BY <2>2, <1>1
    <3>2. ps[a + (k - a)] = q[k - a]
      BY Zenon, <3>1 DEF c
    <3> QED
      BY Zenon, <3>1, <3>2, <2>2, <1>2, <1>4
  <2> QED
    BY Zenon, <2>1, <2>2
<1>6. u = v \o q
  BY Zenon, <1>2, <1>4, <1>5, SeqSame
<1> QED
  BY Zenon, <1>6 DEF u, v, c

\* The list of the parts is what the definition of ListedIsServed computes.
LEMMA FlattenLaidOut ==
    ASSUME NEW off, NEW segs \in Seq(Entries), NEW next \in Seq(Nat), NEW ps \in Seq(Nat),
           LaidOut(off, segs, next, ps)
    PROVE  ps = PartsIn(segs) \o next
<1> DEFINE n == Len(segs)
<1>1. n \in Nat /\ Len(next) \in Nat /\ Len(ps) \in Nat
  OBVIOUS
<1>2. off \in [1..n + 1 -> Nat] /\ off[1] = 0
  BY Zenon DEF LaidOut
<1>3. \A i, j \in 1..n + 1 : i <= j => off[i] <= off[j]
  BY Zenon DEF LaidOut
<1>4. \A i \in 1..n : off[i + 1] = off[i] + Len(PartsOf(segs[i]))
  BY Zenon DEF LaidOut
<1>5. \A i \in 1..n : \A k \in 1..Len(PartsOf(segs[i])) : ps[off[i] + k] = PartsOf(segs[i])[k]
  BY Zenon DEF LaidOut
<1>6. Len(ps) = off[n + 1] + Len(next)
  BY Zenon DEF LaidOut
<1>7. \A k \in 1..Len(next) : ps[off[n + 1] + k] = next[k]
  BY Zenon DEF LaidOut
<1>8. \A i \in 1..n : PartsOf(segs[i]) \in Seq(Nat)
  BY PartsOfType
<1> HIDE DEF n
<1>10. /\ n + 1 \in 1..n + 1
       /\ \A i \in 1..n : i \in 1..n + 1 /\ i + 1 \in 1..n + 1 /\ i + 1 <= n + 1
  BY <1>1
<1>11. off[n + 1] \in Nat /\ off[n + 1] <= Len(ps)
  <2>1. off[n + 1] \in Nat
    BY Zenon, <1>2, <1>10
  <2> QED
    BY <2>1, <1>1, <1>6
<1>12. ps = SubSeq(ps, 1, off[n + 1]) \o next
  <2>1. off[n + 1] + Len(next) <= Len(ps)
    BY <1>1, <1>6
  <2>2. SubSeq(ps, 1, off[n + 1] + Len(next)) = SubSeq(ps, 1, off[n + 1]) \o next
    BY Zenon, <2>1, <1>7, <1>11, PrefixGrows
  <2>3. SubSeq(ps, 1, Len(ps)) = ps
    BY SeqWhole
  <2> QED
    BY Zenon, <2>2, <2>3, <1>6
<1>13. \A i \in 1..n : SubSeq(ps, 1, off[i + 1]) = SubSeq(ps, 1, off[i]) \o PartsOf(segs[i])
  <2> SUFFICES ASSUME NEW i \in 1..n
               PROVE  SubSeq(ps, 1, off[i + 1]) = SubSeq(ps, 1, off[i]) \o PartsOf(segs[i])
    BY Zenon
  <2>1. off[i] \in Nat /\ off[i + 1] \in Nat /\ off[i + 1] <= off[n + 1]
    BY Zenon, <1>2, <1>3, <1>10
  <2>2. off[i] + Len(PartsOf(segs[i])) <= Len(ps)
    <3>1. off[i + 1] <= Len(ps)
      BY <2>1, <1>1, <1>11
    <3> QED
      BY Zenon, <3>1, <1>4
  <2>3. SubSeq(ps, 1, off[i] + Len(PartsOf(segs[i]))) = SubSeq(ps, 1, off[i]) \o PartsOf(segs[i])
    BY Zenon, <2>1, <2>2, <1>5, <1>8, PrefixGrows
  <2> QED
    BY Zenon, <2>3, <1>4
<1>14. SubSeq(ps, 1, 0) = <<>>
  BY SeqWhole
<1> DEFINE g == [i \in 0..n |-> SubSeq(ps, 1, off[i + 1])]
<1>15. /\ 0 \in 0..n /\ n \in 0..n /\ 0 + 1 = 1
       /\ \A i \in 1..n : i \in 0..n /\ i # 0 /\ i - 1 \in 0..n /\ (i - 1) + 1 = i
       /\ \A i \in 0..n : i = 0 \/ i \in 1..n
  BY <1>1
<1>16. g[0] = <<>>
  BY Zenon, <1>2, <1>14, <1>15
<1>17. \A i \in 1..n : g[i] = g[i - 1] \o PartsOf(segs[i])
  BY Zenon, <1>13, <1>15
<1>18. g[n] = SubSeq(ps, 1, off[n + 1])
  BY Zenon, <1>15
<1>19. g = [i \in 0..n |-> IF i = 0 THEN <<>> ELSE g[i - 1] \o PartsOf(segs[i])]
  BY Zenon, <1>15, <1>16, <1>17
<1> HIDE DEF g
<1>20. PICK h : /\ h = [i \in 0..n |-> IF i = 0 THEN <<>> ELSE h[i - 1] \o PartsOf(segs[i])]
                /\ PartsIn(segs) = h[n]
  BY Zenon, <1>19 DEF PartsIn, n
<1>21. h[0] = <<>> /\ \A i \in 1..n : h[i] = h[i - 1] \o PartsOf(segs[i])
  BY Zenon, <1>15, <1>20
<1> DEFINE S == {i \in 0..n : h[i] = g[i]}
<1>22. 0 \in S
  BY Zenon, <1>15, <1>16, <1>21
<1>23. ASSUME NEW i \in 0..n-1, i \in S PROVE i + 1 \in S
  <2>1. i + 1 \in 1..n /\ i + 1 \in 0..n /\ (i + 1) - 1 = i
    BY <1>1
  <2>2. /\ h[i + 1] = h[(i + 1) - 1] \o PartsOf(segs[i + 1])
        /\ g[i + 1] = g[(i + 1) - 1] \o PartsOf(segs[i + 1])
    BY Zenon, <2>1, <1>17, <1>21
  <2> QED
    BY Zenon, <2>1, <2>2, <1>23
<1> HIDE DEF S
<1>24. 0..n \subseteq S
  BY Zenon, <1>1, <1>22, <1>23, InductionUpTo
<1>25. h[n] = g[n]
  BY Zenon, <1>15, <1>24 DEF S
<1> QED
  BY Zenon, <1>12, <1>18, <1>20, <1>25

-----------------------------------------------------------------------------
(* Every URI of a playlist is served                                       *)

\* The parts listed are those in the map; their IDs grow and are below the one
\* of the preload hint, which is behind the segmenter's by at most the part that
\* was lost with the last segment.
PartsInv ==
    ctxDone = FALSE =>
        /\ partsByName = Range(parts)
        /\ Increasing(parts)
        /\ \A k \in 1..Len(parts) : parts[k] < nextPartID
        /\ nextPartID <= partID /\ partID <= nextPartID + 1
        /\ segParts # <<>> => partID = nextPartID
        /\ \E off : LaidOut(off, segments, nextSegmentParts, parts)

LEMMA PartsInit == Init => PartsInv
<1> SUFFICES ASSUME Init PROVE PartsInv
  BY Zenon
<1>1. /\ segments = <<>> /\ parts = <<>> /\ nextSegmentParts = <<>> /\ partsByName = {}
      /\ segParts = <<>> /\ partID = 0 /\ nextPartID = 0
  BY Zenon DEF Init, ContractInit
<1>2. Len(<<>>) = 0 /\ DOMAIN <<>> = {}
  OBVIOUS
<1> DEFINE o == [i \in 1..1 |-> 0]
<1>3. LaidOut(o, <<>>, <<>>, <<>>)
  BY <1>2 DEF LaidOut
<1>4. Range(<<>>) = {} /\ Increasing(<<>>) /\ \A k \in 1..Len(<<>>) : <<>>[k] < 0
  BY <1>2 DEF Range, Increasing
<1> QED
  BY <1>1, <1>3, <1>4 DEF PartsInv

LEMMA PartsStepPart ==
    ASSUME TypeOK, PartsInv, ctxDone = FALSE, PartFinalized
    PROVE  PartsInv'
<1>1. /\ partsByName' = partsByName \cup {partID}
      /\ parts' = Append(parts, partID)
      /\ nextSegmentParts' = Append(nextSegmentParts, partID)
      /\ nextPartID' = partID + 1 /\ partID' = partID + 1
      /\ segments' = segments
  BY ZenonT(30) DEF PartFinalized, FinalizePart
<1>2. /\ segments \in Seq(Entries) /\ nextSegmentParts \in Seq(Nat) /\ parts \in Seq(Nat)
      /\ partID \in Nat /\ nextPartID \in Nat
  BY Zenon DEF TypeOK
<1>3. /\ partsByName = Range(parts) /\ Increasing(parts)
      /\ \A k \in 1..Len(parts) : parts[k] < nextPartID
      /\ nextPartID <= partID
  BY Zenon DEF PartsInv
<1>4. \E off : LaidOut(off, segments', nextSegmentParts', parts')
  BY ZenonT(30), <1>1, <1>2, LaidOutPart DEF PartsInv
<1> DEFINE n == Len(parts)
           ps == Append(parts, partID)
<1>5. /\ n \in Nat /\ Len(ps) = n + 1 /\ ps[n + 1] = partID
      /\ \A k \in 1..n : ps[k] = parts[k] /\ parts[k] \in Nat
  BY <1>2, SeqAppend
<1>6. DOMAIN ps = 1..n + 1 /\ DOMAIN parts = 1..n
  BY <1>2
<1> HIDE DEF n, ps
<1>7. \A k \in 1..n + 1 : k = n + 1 \/ k \in 1..n
  BY <1>5
<1>8. \A k \in 1..n : k \in 1..n + 1
  BY <1>5
<1>9. n + 1 \in 1..n + 1
  BY <1>5
<1>10. Range(ps) = Range(parts) \cup {partID}
  BY ZenonT(30), <1>5, <1>6, <1>7, <1>8, <1>9 DEF Range
<1>11. \A k \in 1..n : ps[k] < partID /\ ps[k] < partID + 1
  <2> SUFFICES ASSUME NEW k \in 1..n PROVE ps[k] < partID /\ ps[k] < partID + 1
    BY Zenon
  <2>1. parts[k] < nextPartID /\ parts[k] \in Nat /\ ps[k] = parts[k]
    BY Zenon, <1>3, <1>5 DEF n
  <2> QED
    BY <2>1, <1>2, <1>3
<1>12. \A k \in 1..n + 1 : ps[k] < partID + 1
  <2>1. partID < partID + 1
    BY <1>2
  <2> QED
    BY Zenon, <2>1, <1>5, <1>7, <1>11
<1>13. ASSUME NEW k \in 1..n + 1, NEW l \in 1..n + 1, k < l PROVE ps[k] < ps[l]
  <2>1. k \in 1..n
    BY <1>5, <1>13
  <2>2. CASE l = n + 1
    BY Zenon, <2>1, <2>2, <1>5, <1>11
  <2>3. CASE l \in 1..n
    BY Zenon, <2>1, <2>3, <1>3, <1>5, <1>13 DEF Increasing, n
  <2> QED
    BY Zenon, <2>2, <2>3, <1>7
<1>14. Increasing(ps)
  BY Zenon, <1>5, <1>13 DEF Increasing
<1>15. partID + 1 <= partID + 1 /\ partID + 1 <= (partID + 1) + 1
  BY <1>2
<1>16. /\ partsByName' = Range(parts') /\ Increasing(parts')
       /\ \A k \in 1..Len(parts') : parts'[k] < nextPartID'
  BY Zenon, <1>1, <1>3, <1>5, <1>10, <1>12, <1>14 DEF ps
<1>17. nextPartID' <= partID' /\ partID' <= nextPartID' + 1 /\ partID' = nextPartID'
  BY Zenon, <1>1, <1>15
<1> QED
  BY Zenon, <1>4, <1>16, <1>17 DEF PartsInv

LEMMA PartsStepSegment ==
    ASSUME TypeOK, WindowInv, PartsInv, ctxDone = FALSE, NEW d \in Durations, SegmentFinalized(d)
    PROVE  PartsInv'
<1> DEFINE all == AllSegments(d)
           seg == Segment(segID, segParts, d)
<1>1. SegmentStep(d) /\ SegmentMaps(d)
  BY Zenon, SegmentFinalizedStep, SegmentFinalizedMaps
<1>2. /\ segments \in Seq(Entries) /\ nextSegmentParts \in Seq(Nat) /\ parts \in Seq(Nat)
      /\ partID \in Nat /\ nextPartID \in Nat
  BY Zenon DEF TypeOK
<1>3. /\ partsByName = Range(parts) /\ Increasing(parts)
      /\ \A k \in 1..Len(parts) : parts[k] < nextPartID
  BY Zenon DEF PartsInv
<1>4. /\ partID = nextPartID /\ nextPartID' = nextPartID /\ segParts' = <<>>
      /\ partID' \in {partID, partID + 1}
  BY ZenonT(30), <1>1 DEF PartsInv, SegmentStep, SegmentMaps
<1>5. /\ nextPartID' <= partID' /\ partID' <= nextPartID' + 1
      /\ segParts' # <<>> => partID' = nextPartID'
  BY <1>2, <1>4
<1>6. seg \in Entries /\ PartsOf(seg) = nextSegmentParts
  <2>1. seg \in Entries
    BY ZenonT(30) DEF Segment, Entries, TypeOK
  <2>2. ~seg.gap /\ seg.Parts = segParts
    BY DEF Segment
  <2> QED
    BY Zenon, <2>1, <2>2 DEF PartsOf, WindowInv
<1>7. WithGaps(segments, d) \in Seq(Entries)
  <2>1. Gap(d) \in Entries
    BY ZenonT(30) DEF Gap, Entries
  <2> QED
    BY <2>1, <1>2, PlaylistAssumption DEF WithGaps
<1>8. PICK off : LaidOut(off, all, <<>>, parts)
  <2>1. \E off : LaidOut(off, WithGaps(segments, d), nextSegmentParts, parts)
    BY ZenonT(30), <1>2, LaidOutGaps DEF PartsInv
  <2> QED
    BY ZenonT(30), <2>1, <1>2, <1>6, <1>7, LaidOutSegment DEF AllSegments
<1>9. all \in Seq(Entries) /\ Len(all) # 0 /\ <<>> \in Seq(Nat)
  <2>1. Len(segments) \in Nat
    BY <1>2
  <2> QED
    BY <2>1, AllSegmentsType, PlaylistAssumption
<1> HIDE DEF all, seg
<1>10. CASE DeleteHead(all)
  <2> DEFINE q == PartsOf(all[1])
             rest == SubSeq(parts, Len(q) + 1, Len(parts))
  <2>1. segments' = Tail(all) /\ nextSegmentParts' = <<>>
    BY Zenon, <1>1, <1>10 DEF SegmentStep, all
  <2>2. DeletedParts(all) = q
    BY Zenon, <1>10 DEF DeletedParts, PartsOf
  <2>3. partsByName' = Range(parts) \ Range(q) /\ parts' = rest
    BY Zenon, <2>2, <1>1, <1>3 DEF SegmentMaps, all
  <2>4. /\ Len(q) \in 0..Len(parts) /\ \A k \in 1..Len(q) : parts[k] = q[k]
        /\ \E o : LaidOut(o, Tail(all), <<>>, rest)
    <3>1. HeadLeaves(all, <<>>, parts)
      BY ZenonT(30), <1>2, <1>8, <1>9, LaidOutTail
    <3> QED
      BY Zenon, <3>1 DEF HeadLeaves
  <2>5. q \in Seq(Nat)
    <3>1. all[1] \in Entries
      <4>1. 1 \in 1..Len(all)
        BY <1>9
      <4> QED
        BY Zenon, <4>1, <1>9, SeqElement
    <3> QED
      BY Zenon, <3>1, PartsOfType
  <2> HIDE DEF q
  <2>6. /\ Range(rest) = Range(parts) \ Range(q) /\ Increasing(rest)
        /\ \A k \in 1..Len(rest) : rest[k] < nextPartID
    BY ZenonT(30), <2>4, <2>5, <1>2, <1>3, HeadPartsLeave
  <2> HIDE DEF rest
  <2>7. /\ partsByName' = Range(parts') /\ Increasing(parts')
        /\ \A k \in 1..Len(parts') : parts'[k] < nextPartID'
    BY Zenon, <2>3, <2>6, <1>4
  <2>8. \E o : LaidOut(o, segments', nextSegmentParts', parts')
    BY Zenon, <2>1, <2>3, <2>4
  <2> QED
    BY Zenon, <2>7, <2>8, <1>5 DEF PartsInv
<1>11. CASE ~DeleteHead(all)
  <2>1. segments' = all /\ nextSegmentParts' = <<>>
    BY Zenon, <1>1, <1>11 DEF SegmentStep, all
  <2>2. DeletedParts(all) = <<>>
    BY Zenon, <1>11 DEF DeletedParts
  <2>3. partsByName' = Range(parts) \ Range(<<>>) /\ parts' = SubSeq(parts, Len(<<>>) + 1, Len(parts))
    BY Zenon, <2>2, <1>1, <1>3 DEF SegmentMaps, all
  <2>4. Range(<<>>) = {} /\ Len(<<>>) + 1 = 1
    BY DEF Range
  <2>5. SubSeq(parts, 1, Len(parts)) = parts
    BY <1>2, SeqWhole
  <2>6. partsByName' = Range(parts) /\ parts' = parts
    BY Zenon, <2>3, <2>4, <2>5
  <2>7. /\ partsByName' = Range(parts') /\ Increasing(parts')
        /\ \A k \in 1..Len(parts') : parts'[k] < nextPartID'
    BY Zenon, <2>6, <1>3, <1>4
  <2>8. \E o : LaidOut(o, segments', nextSegmentParts', parts')
    BY Zenon, <2>1, <2>6, <1>8
  <2> QED
    BY Zenon, <2>7, <2>8, <1>5 DEF PartsInv
<1> QED
  BY Zenon, <1>10, <1>11

LEMMA PartsStep == TypeOK /\ WindowInv /\ PartsInv /\ [Next]_vars => PartsInv'
<1> SUFFICES ASSUME TypeOK, WindowInv, PartsInv, [Next]_vars PROVE PartsInv'
  BY Zenon
<1>1. CASE ctxDone' = FALSE
  <2>1. CASE UNCHANGED <<playlistVars, contractVars>>
    <3>1. ctxDone = FALSE
      BY Zenon, <1>1, OpenCases
    <3> QED
      BY ZenonT(30), <2>1, <3>1 DEF PartsInv, playlistVars, contractVars
  <2> QED
    BY ZenonT(30), <1>1, <2>1, OpenCases, PartsStepPart, PartsStepSegment
<1>2. CASE ~(ctxDone' = FALSE)
  BY Zenon, <1>2 DEF PartsInv
<1> QED
  BY Zenon, <1>1, <1>2

\* The URIs of a playlist, and the parts it lists, are in the maps.
LEMMA URIsServed ==
    ASSUME TypeOK, WindowInv, PartsInv, ctxDone = FALSE, NEW isDeltaUpdate \in BOOLEAN
    PROVE  /\ fullPlaylist(isDeltaUpdate).segmentURIs \subseteq segmentsByName
           /\ fullPlaylist(isDeltaUpdate).partURIs \subseteq partsByName
<1> DEFINE listed == {i \in 1..Len(segments) : i > Skipped(segments, isDeltaUpdate)}
           withParts == {i \in listed : Len(segments) - i < 2 /\ ~segments[i].gap}
<1>1. /\ fullPlaylist(isDeltaUpdate).segmentURIs = {segments[i].ID : i \in {j \in listed : ~segments[j].gap}}
      /\ fullPlaylist(isDeltaUpdate).partURIs =
            (UNION {Range(segments[i].Parts) : i \in withParts}) \cup Range(nextSegmentParts)
  BY ZenonT(30) DEF fullPlaylist
<1>2. fullPlaylist(isDeltaUpdate).segmentURIs \subseteq segmentsByName
  BY Zenon, <1>1 DEF WindowInv, IDs
<1>3. /\ segments \in Seq(Entries) /\ nextSegmentParts \in Seq(Nat) /\ parts \in Seq(Nat)
  BY Zenon DEF TypeOK
<1>4. PICK off : LaidOut(off, segments, nextSegmentParts, parts)
  BY Zenon DEF PartsInv
<1> DEFINE n == Len(segments)
<1>5. n \in Nat /\ Len(nextSegmentParts) \in Nat /\ Len(parts) \in Nat
  BY <1>3
<1>6. off \in [1..n + 1 -> Nat] /\ Len(parts) = off[n + 1] + Len(nextSegmentParts)
  BY Zenon, <1>4 DEF LaidOut
<1>7. /\ DOMAIN parts = 1..Len(parts) /\ DOMAIN nextSegmentParts = 1..Len(nextSegmentParts)
  BY <1>3
<1>8. /\ n + 1 \in 1..n + 1
      /\ \A i \in 1..n : i \in 1..n + 1 /\ i + 1 \in 1..n + 1 /\ i + 1 <= n + 1
  BY <1>5
<1>9. off[n + 1] \in Nat
  BY Zenon, <1>6, <1>8
<1>10. \A k \in 1..Len(parts) : parts[k] \in partsByName
  BY Zenon, <1>7 DEF PartsInv, Range
<1>11. ASSUME NEW x \in Range(nextSegmentParts) PROVE x \in partsByName
  <2>1. PICK k \in 1..Len(nextSegmentParts) : x = nextSegmentParts[k]
    BY Zenon, <1>7 DEF Range
  <2>2. off[n + 1] + k \in 1..Len(parts)
    BY Zenon, <1>5, <1>6, <1>9, PlaceOfNext
  <2>3. parts[off[n + 1] + k] = x
    BY Zenon, <2>1, <1>4 DEF LaidOut
  <2> QED
    BY Zenon, <2>2, <2>3, <1>10
<1>12. ASSUME NEW i \in withParts, NEW x \in Range(segments[i].Parts) PROVE x \in partsByName
  <2>1. i \in 1..n /\ ~segments[i].gap
    BY Zenon
  <2>2. PartsOf(segments[i]) = segments[i].Parts
    BY Zenon, <2>1 DEF PartsOf
  <2>3. segments[i] \in Entries
    BY Zenon, <2>1, <1>3, SeqElement
  <2>4. PartsOf(segments[i]) \in Seq(Nat) /\ Len(PartsOf(segments[i])) \in Nat
    BY Zenon, <2>3, PartsOfType
  <2>5. DOMAIN PartsOf(segments[i]) = 1..Len(PartsOf(segments[i]))
    BY <2>4
  <2>6. PICK k \in 1..Len(PartsOf(segments[i])) : x = PartsOf(segments[i])[k]
    BY Zenon, <2>2, <2>5 DEF Range
  <2>7. parts[off[i] + k] = x
    BY Zenon, <2>1, <2>6, <1>4 DEF LaidOut
  <2>8. off[i] \in Nat /\ off[i] + Len(PartsOf(segments[i])) <= off[n + 1]
    <3>1. off[i + 1] = off[i] + Len(PartsOf(segments[i])) /\ off[i + 1] <= off[n + 1]
      BY Zenon, <2>1, <1>4, <1>8 DEF LaidOut
    <3> QED
      BY Zenon, <3>1, <2>1, <1>6, <1>8
  <2>9. off[i] + k \in 1..off[n + 1] + Len(nextSegmentParts)
    BY Zenon, <2>4, <2>8, <1>5, <1>9, PlaceOfPart
  <2> QED
    BY Zenon, <2>7, <2>9, <1>6, <1>10
<1>13. fullPlaylist(isDeltaUpdate).partURIs \subseteq partsByName
  <2> HIDE DEF withParts
  <2> SUFFICES ASSUME NEW x \in fullPlaylist(isDeltaUpdate).partURIs PROVE x \in partsByName
    BY Zenon
  <2>1. x \in Range(nextSegmentParts) \/ \E i \in withParts : x \in Range(segments[i].Parts)
    BY Zenon, <1>1
  <2> QED
    BY Zenon, <2>1, <1>11, <1>12
<1> QED
  BY Zenon, <1>2, <1>13

LEMMA AllListed ==
    ASSUME TypeOK
    PROVE  fullPlaylist(FALSE).segmentURIs = IDs(segments)
<1>1. Skipped(segments, FALSE) = 0
  BY Zenon DEF Skipped
<1>2. fullPlaylist(FALSE).segmentURIs =
        {segments[i].ID : i \in {j \in {i \in 1..Len(segments) : i > 0} : ~segments[j].gap}}
  BY ZenonT(30), <1>1 DEF fullPlaylist
<1>3. {i \in 1..Len(segments) : i > 0} = 1..Len(segments)
  BY SeqLength DEF TypeOK
<1> QED
  BY Zenon, <1>2, <1>3 DEF IDs

\* Every URI in a playlist is served while the muxer is open, and the maps and
\* the list of parts keep nothing else, so that nothing is left behind when the
\* head is deleted (segmentFinalized, partFinalized, fullPlaylist).
THEOREM ListedAlwaysServed == Spec => []ListedIsServed
<1>1. TypeOK /\ WindowInv /\ PartsInv => ListedIsServed
  <2> SUFFICES ASSUME TypeOK, WindowInv, PartsInv, ~ctxDone
               PROVE  /\ segmentsByName = fullPlaylist(FALSE).segmentURIs
                      /\ parts = PartsIn(segments) \o nextSegmentParts
                      /\ partsByName = Range(parts)
                      /\ \A isDeltaUpdate \in BOOLEAN :
                            /\ fullPlaylist(isDeltaUpdate).segmentURIs \subseteq segmentsByName
                            /\ fullPlaylist(isDeltaUpdate).partURIs \subseteq partsByName
    BY ZenonT(30) DEF ListedIsServed
  <2>1. ctxDone = FALSE
    BY Zenon DEF TypeOK
  <2>2. parts = PartsIn(segments) \o nextSegmentParts
    BY ZenonT(30), <2>1, FlattenLaidOut DEF PartsInv, TypeOK
  <2>3. segmentsByName = fullPlaylist(FALSE).segmentURIs
    BY Zenon, <2>1, AllListed DEF WindowInv
  <2>4. partsByName = Range(parts)
    BY Zenon, <2>1 DEF PartsInv
  <2> QED
    BY Zenon, <2>1, <2>2, <2>3, <2>4, URIsServed
<1> QED
  BY <1>1, TypeInit, TypeStep, NumberingInit, NumberingStep, WindowInit, WindowInvStep,
     PartsInit, PartsStep, PTL DEF Spec

-----------------------------------------------------------------------------
(* Requests are answered on time                                           *)

ClientStates ==
    {Idle} \cup [st : {"call", "hold"}, req : Requests]
           \cup [st : {"hold"}, req : Requests, partID : Nat]
           \cup [st : {"hold"}, req : Requests, early : BOOLEAN]

ClientsInv == cl \in [Clients -> ClientStates]

\* The requests of one kind that are on hold when the clients are as in f.
Held(f, op) == {c \in Clients : f[c].st = "hold" /\ f[c].req.op = op}

Unready(f, segs, nextID, nextParts) ==
    Held(f, "blockingPlaylist") = {} \/
    \E c \in Held(f, "blockingPlaylist") : ~hasPart(segs, nextID, nextParts, f[c].req.msn, f[c].req.part)

\* No NextSegment caller waits for what is listed, and one that came after the
\* first segment waits for the segment that is being written.
UpToDate(f, names, id) ==
    \A c \in Held(f, "nextSegment") :
        /\ \A n \in names : n <= f[c].req.prevID
        /\ f[c].early \/ f[c].req.prevID < id

\* Among the blocking reloads on hold there is one whose part is not there, and
\* the NextSegment callers on hold have what is listed.
HeldInv ==
    /\ Unready(cl, segments, nextSegmentID, nextSegmentParts)
    /\ ctxDone = FALSE => UpToDate(cl, segmentsByName, segID)

Ops == {"blockingPlaylist", "nextSegment"}

\* The requests on hold stay as they are.
HoldsStay == \A op \in Ops : /\ Held(cl', op) = Held(cl, op)
                             /\ \A d \in Held(cl, op) : cl'[d] = cl[d]

\* The playlist puts c on hold.
PutOnHold(c) ==
    /\ cl[c].st = "call"
    /\ \E v : cl' = [cl EXCEPT ![c] = v] /\ v.st = "hold" /\ v.req = cl[c].req
    /\ cl[c].req.op = "blockingPlaylist" =>
            ~hasPart(segments, nextSegmentID, nextSegmentParts, cl[c].req.msn, cl[c].req.part)
    /\ cl[c].req.op = "nextSegment" =>
            /\ NextSegmentIndexes(cl[c].req.prevID) = {}
            /\ cl'[c].early \/ segmentsByName # {}

LEMMA ClientFacts ==
    ASSUME ClientsInv, NEW c \in Clients
    PROVE  /\ DOMAIN cl = Clients
           /\ cl[c].st # "idle" => cl[c].req \in Requests
           /\ cl[c].st = "call" => [cl[c] EXCEPT !.st = "hold"] = [st |-> "hold", req |-> cl[c].req]
<1>1. cl[c] \in ClientStates /\ DOMAIN cl = Clients
  BY Zenon DEF ClientsInv
<1>2. CASE cl[c] = Idle
  BY <1>1, <1>2 DEF Idle
<1>3. CASE cl[c] \in [st : {"call", "hold"}, req : Requests]
  BY <1>1, <1>3
<1>4. CASE cl[c] \in [st : {"hold"}, req : Requests, partID : Nat]
  BY <1>1, <1>4
<1>5. CASE cl[c] \in [st : {"hold"}, req : Requests, early : BOOLEAN]
  BY <1>1, <1>5
<1> QED
  BY Zenon, <1>1, <1>2, <1>3, <1>4, <1>5 DEF ClientStates

LEMMA RespondStays ==
    ASSUME ClientsInv, NEW c \in Clients, cl[c].st = "call", NEW r, Respond(c, r)
    PROVE  HoldsStay /\ ClientsInv'
<1>1. cl' = [cl EXCEPT ![c] = Idle]
  BY Zenon DEF Respond
<1>a. "call" # "hold" /\ Idle.st # "hold"
  BY DEF Idle
<1>2. DOMAIN cl = Clients /\ cl[c].st # "hold" /\ Idle.st # "hold"
  BY Zenon, <1>a, ClientFacts
<1>3. cl'[c].st # "hold" /\ \A d \in Clients \ {c} : cl'[d] = cl[d]
  BY Zenon, <1>1, <1>2
<1>5. \A op \in Ops : Held(cl', op) = Held(cl, op) /\ \A d \in Held(cl, op) : cl'[d] = cl[d]
  BY ZenonT(30), <1>2, <1>3 DEF Held
<1>4. ClientsInv'
  BY Zenon, <1>1 DEF ClientsInv, ClientStates
<1> QED
  BY Zenon, <1>4, <1>5 DEF HoldsStay

LEMMA HoldPuts ==
    ASSUME ClientsInv, NEW c \in Clients, cl[c].st = "call", Hold(c)
    PROVE  /\ \E v : cl' = [cl EXCEPT ![c] = v] /\ v.st = "hold" /\ v.req = cl[c].req
           /\ ClientsInv'
<1> DEFINE v == [st |-> "hold", req |-> cl[c].req]
<1>1. cl' = [cl EXCEPT ![c] = [cl[c] EXCEPT !.st = "hold"]]
  BY Zenon DEF Hold
<1>2. cl[c].st # "idle"
  OBVIOUS
<1>3. cl' = [cl EXCEPT ![c] = v] /\ cl[c].req \in Requests
  BY Zenon, <1>1, <1>2, ClientFacts
<1>4. v.st = "hold" /\ v.req = cl[c].req /\ v \in ClientStates
  BY <1>3 DEF ClientStates
<1> HIDE DEF v
<1>5. ClientsInv'
  BY Zenon, <1>3, <1>4 DEF ClientsInv
<1> QED
  BY Zenon, <1>3, <1>4, <1>5

\* What a request does to the clients.
LEMMA ServeClients ==
    ASSUME TypeOK, ClientsInv, NEW c \in Clients, Serve(c)
    PROVE  /\ UNCHANGED <<playlistVars, ctxDone, segID>>
           /\ HoldsStay \/ PutOnHold(c)
           /\ ClientsInv'
<1>1. CASE ServePlaylist(c)
  BY ZenonT(30), <1>1, RespondStays DEF ServePlaylist, Receive, contractVars
<1>2. CASE ServeSegment(c)
  BY ZenonT(30), <1>2, RespondStays DEF ServeSegment, Receive, contractVars
<1>3. CASE ServeBlockingPlaylist(c)
  <2>1. UNCHANGED <<playlistVars, ctxDone, segID>> /\ cl[c].st = "call" /\ cl[c].req.op = "blockingPlaylist"
    BY ZenonT(30), <1>3 DEF ServeBlockingPlaylist, Receive, contractVars
  <2>2. \/ \E r : Respond(c, r)
        \/ /\ Hold(c)
           /\ ~hasPart(segments, nextSegmentID, nextSegmentParts, cl[c].req.msn, cl[c].req.part)
    BY ZenonT(30), <1>3 DEF ServeBlockingPlaylist
  <2>3. CASE Hold(c) /\ ~hasPart(segments, nextSegmentID, nextSegmentParts, cl[c].req.msn, cl[c].req.part)
    <3>1. cl[c].req.op # "nextSegment"
      BY <2>1
    <3> QED
      BY Zenon, <2>1, <2>3, <3>1, HoldPuts DEF PutOnHold
  <2> QED
    BY Zenon, <2>1, <2>2, <2>3, RespondStays
<1>4. CASE ServePart(c)
  <2>1. UNCHANGED <<playlistVars, ctxDone, segID>> /\ cl[c].st = "call" /\ cl[c].req.op = "part"
    BY ZenonT(30), <1>4 DEF ServePart, Receive, contractVars
  <2> DEFINE v == [st |-> "hold", req |-> cl[c].req, partID |-> nextPartID]
  <2>2. (\E r : Respond(c, r)) \/ cl' = [cl EXCEPT ![c] = v]
    BY ZenonT(30), <1>4 DEF ServePart
  <2>3. CASE cl' = [cl EXCEPT ![c] = v]
    <3>1. cl[c].req \in Requests /\ nextPartID \in Nat
      <4>1. cl[c].st # "idle"
        BY <2>1
      <4> QED
        BY Zenon, <4>1, ClientFacts DEF TypeOK
    <3>2. v.st = "hold" /\ v.req = cl[c].req /\ v \in ClientStates
      BY <3>1 DEF ClientStates
    <3> HIDE DEF v
    <3>3. cl[c].req.op # "nextSegment" /\ cl[c].req.op # "blockingPlaylist"
      BY <2>1
    <3>4. PutOnHold(c)
      BY Zenon, <2>1, <2>3, <3>2, <3>3 DEF PutOnHold
    <3>5. ClientsInv'
      BY Zenon, <2>3, <3>2 DEF ClientsInv
    <3> QED
      BY Zenon, <2>1, <3>4, <3>5
  <2> QED
    BY Zenon, <2>1, <2>2, <2>3, RespondStays
<1>5. CASE ServeWaitForSegFinal(c)
  <2>1. /\ UNCHANGED <<playlistVars, ctxDone, segID>> /\ cl[c].st = "call" /\ cl[c].req.op = "waitForSegFinal"
        /\ Hold(c)
    BY ZenonT(30), <1>5 DEF ServeWaitForSegFinal, Receive, contractVars
  <2>2. cl[c].req.op # "nextSegment" /\ cl[c].req.op # "blockingPlaylist"
    BY <2>1
  <2> QED
    BY Zenon, <2>1, <2>2, HoldPuts DEF PutOnHold
<1>6. CASE ServeNextSegment(c)
  <2>1. UNCHANGED <<playlistVars, ctxDone, segID>> /\ cl[c].st = "call" /\ cl[c].req.op = "nextSegment"
    BY ZenonT(30), <1>6 DEF ServeNextSegment, Receive, contractVars
  <2> DEFINE v == [st |-> "hold", req |-> cl[c].req, early |-> segmentsByName = {}]
  <2>2. \/ \E r : Respond(c, r)
        \/ cl' = [cl EXCEPT ![c] = v] /\ NextSegmentIndexes(cl[c].req.prevID) = {}
    BY ZenonT(30), <1>6 DEF ServeNextSegment
  <2>3. CASE cl' = [cl EXCEPT ![c] = v] /\ NextSegmentIndexes(cl[c].req.prevID) = {}
    <3>1. cl[c].req.op # "blockingPlaylist" /\ cl[c].st # "idle"
      BY <2>1
    <3>2. cl[c].req \in Requests
      BY Zenon, <3>1, ClientFacts
    <3>3. v \in [st : {"hold"}, req : Requests, early : BOOLEAN]
      BY Zenon, <3>2
    <3>4. v.st = "hold" /\ v.req = cl[c].req /\ (v.early \/ segmentsByName # {})
      BY Zenon
    <3> HIDE DEF v
    <3>5. v \in ClientStates
      BY Zenon, <3>3 DEF ClientStates
    <3>6. cl'[c] = v
      BY Zenon, <2>3, ClientFacts
    <3>7. PutOnHold(c)
      BY Zenon, <2>1, <2>3, <3>1, <3>4, <3>6 DEF PutOnHold
    <3>8. ClientsInv'
      BY Zenon, <2>3, <3>5 DEF ClientsInv
    <3> QED
      BY Zenon, <2>1, <3>7, <3>8
  <2> QED
    BY Zenon, <2>1, <2>2, <2>3, RespondStays
<1> QED
  BY Zenon, <1>1, <1>2, <1>3, <1>4, <1>5, <1>6 DEF Serve

\* Every step, as far as the requests on hold are concerned.
LEMMA HoldCases ==
    ASSUME TypeOK, ClientsInv, [Next]_vars
    PROVE  \/ \E d \in Durations : SegmentFinalized(d)
           \/ PartFinalized
           \/ /\ UNCHANGED playlistVars /\ (ctxDone' = FALSE => ctxDone = FALSE /\ segID' = segID)
              /\ HoldsStay \/ \E c \in Clients : PutOnHold(c)
           \/ ctxDone /\ UNCHANGED <<playlistVars, ctxDone>> /\ \A op \in Ops : Held(cl', op) = {}
<1> DEFINE same == UNCHANGED playlistVars /\ (ctxDone' = FALSE => ctxDone = FALSE /\ segID' = segID) /\ HoldsStay
<1>a. ASSUME cl' = cl PROVE HoldsStay
  BY Zenon, <1>a DEF HoldsStay
<1>1. CASE UNCHANGED vars
  <2>1. UNCHANGED <<playlistVars, ctxDone, segID>> /\ cl' = cl
    BY ZenonT(30), <1>1 DEF vars, clientVars, contractVars
  <2> QED
    BY Zenon, <2>1, <1>a
<1>2. ASSUME NEW c \in Clients, NEW req \in Requests, Call(c, req)
      PROVE  same
  <2>1. /\ UNCHANGED <<playlistVars, ctxDone, segID>> /\ cl[c] = Idle
        /\ cl' = [cl EXCEPT ![c] = [st |-> "call", req |-> req]]
    BY ZenonT(30), <1>2 DEF Call, contractVars
  <2>2. cl[c].st # "hold" /\ [st |-> "call", req |-> req].st # "hold"
    BY <2>1 DEF Idle
  <2>3. cl'[c].st # "hold" /\ \A d \in Clients \ {c} : cl'[d] = cl[d]
    BY Zenon, <2>1, <2>2, ClientFacts
  <2>4. \A op \in Ops : Held(cl', op) = Held(cl, op) /\ \A d \in Held(cl, op) : cl'[d] = cl[d]
    BY ZenonT(30), <2>2, <2>3 DEF Held
  <2> QED
    BY Zenon, <2>1, <2>4 DEF HoldsStay
<1>3. ASSUME NEW c \in Clients, CallCanceled(c)
      PROVE  same
  <2>1. /\ UNCHANGED <<playlistVars, ctxDone, segID>> /\ cl[c].st = "call"
        /\ Respond(c, Response(StatusInternalServerError))
    BY ZenonT(30), <1>3 DEF CallCanceled, Respond, contractVars
  <2> QED
    BY Zenon, <2>1, RespondStays
<1>4. CASE FinalizedDropped
  <2>1. UNCHANGED <<playlistVars, ctxDone>> /\ cl' = cl /\ ctxDone
    BY ZenonT(30), <1>4 DEF FinalizedDropped, clientVars
  <2> QED
    BY Zenon, <2>1, <1>a
<1>5. CASE Cancel
  <2>1. UNCHANGED playlistVars /\ cl' = cl /\ ctxDone' = TRUE
    BY ZenonT(30), <1>5 DEF Cancel, clientVars
  <2> QED
    BY Zenon, <2>1, <1>a
<1>6. CASE Cleanup
  <2>1. /\ UNCHANGED <<playlistVars, ctxDone>> /\ ctxDone
        /\ cl' = [c \in Clients |-> IF c \in Released THEN Idle ELSE cl[c]]
    BY ZenonT(30), <1>6 DEF Cleanup
  <2>2. \A c \in Clients : cl'[c] = IF c \in Released THEN Idle ELSE cl[c]
    BY Zenon, <2>1
  <2>3. \A op \in Ops : Held(cl', op) = Held(cl, op) \ Released
    <3>1. Idle.st # "hold"
      BY DEF Idle
    <3> QED
      BY ZenonT(30), <2>2, <3>1 DEF Held
  <2>4. \A op \in Ops : Held(cl, op) \subseteq Released
    BY ZenonT(30) DEF Ops, Released, Held, OnHold, playlistsOnHold, nextSegmentsOnHold
  <2> QED
    BY Zenon, <2>1, <2>3, <2>4
<1> HIDE DEF same
<1>7. same => /\ UNCHANGED playlistVars /\ (ctxDone' = FALSE => ctxDone = FALSE /\ segID' = segID)
              /\ HoldsStay
  BY Zenon DEF same
<1>8. ASSUME NEW c \in Clients, Serve(c)
      PROVE  /\ UNCHANGED playlistVars /\ (ctxDone' = FALSE => ctxDone = FALSE /\ segID' = segID)
             /\ HoldsStay \/ PutOnHold(c)
  BY Zenon, <1>8, ServeClients
<1> QED
  BY ZenonT(30), <1>1, <1>2, <1>3, <1>4, <1>5, <1>6, <1>7, <1>8 DEF Next

LEMMA ClientsInit == Init => ClientsInv
  BY ZenonT(30) DEF Init, ClientsInv, ClientStates

LEMMA ClientsStep == TypeOK /\ ClientsInv /\ [Next]_vars => ClientsInv'
<1> SUFFICES ASSUME TypeOK, ClientsInv, [Next]_vars PROVE ClientsInv'
  BY Zenon
<1>0. Idle \in ClientStates
  BY Zenon DEF ClientStates
<1>a. ASSUME NEW X, cl' = [c \in Clients |-> IF c \in X THEN Idle ELSE cl[c]]
      PROVE  ClientsInv'
  BY ZenonT(30), <1>a, <1>0 DEF ClientsInv
<1>1. CASE UNCHANGED vars
  BY ZenonT(30), <1>1 DEF vars, clientVars, ClientsInv
<1>2. ASSUME NEW c \in Clients, NEW req \in Requests, Call(c, req) PROVE ClientsInv'
  <2>1. cl' = [cl EXCEPT ![c] = [st |-> "call", req |-> req]]
    BY ZenonT(30), <1>2 DEF Call
  <2>2. [st |-> "call", req |-> req] \in ClientStates
    BY DEF ClientStates
  <2> QED
    BY ZenonT(30), <2>1, <2>2 DEF ClientsInv
<1>3. ASSUME NEW c \in Clients, CallCanceled(c) PROVE ClientsInv'
  <2>1. cl' = [cl EXCEPT ![c] = Idle]
    BY ZenonT(30), <1>3 DEF CallCanceled
  <2> QED
    BY ZenonT(30), <2>1, <1>0 DEF ClientsInv
<1>4. ASSUME NEW c \in Clients, Serve(c) PROVE ClientsInv'
  BY Zenon, <1>4, ServeClients
<1>5. CASE PartFinalized
  <2>1. \E X : cl' = [c \in Clients |-> IF c \in X THEN Idle ELSE cl[c]]
    BY ZenonT(30), <1>5 DEF PartFinalized
  <2> QED
    BY Zenon, <2>1, <1>a
<1>6. ASSUME NEW d \in Durations, SegmentFinalized(d) PROVE ClientsInv'
  <2>1. \E X : cl' = [c \in Clients |-> IF c \in X THEN Idle ELSE cl[c]]
    BY ZenonT(30), <1>6 DEF SegmentFinalized
  <2> QED
    BY Zenon, <2>1, <1>a
<1>7. CASE FinalizedDropped \/ Cancel
  <2>1. cl' = cl
    BY ZenonT(30), <1>7 DEF FinalizedDropped, Cancel, clientVars
  <2> QED
    BY Zenon, <2>1 DEF ClientsInv
<1>8. CASE Cleanup
  <2>1. cl' = [c \in Clients |-> IF c \in Released THEN Idle ELSE cl[c]]
    BY ZenonT(30), <1>8 DEF Cleanup
  <2> QED
    BY Zenon, <2>1, <1>a
<1> QED
  BY ZenonT(30), <1>1, <1>2, <1>3, <1>4, <1>5, <1>6, <1>7, <1>8 DEF Next

\* checkPending leaves nobody on hold, or somebody whose part is not there: if
\* the parts of all are there, all get their answers.
LEMMA PendingLeavesUnready ==
    ASSUME NEW segs, NEW nextID, NEW nextParts, NEW nextPart, NEW A, NEW B, NEW X,
           CheckPending(segs, nextID, nextParts, nextPart, A, B), A \subseteq X,
           X \cap playlistsOnHold = A,
           cl' = [c \in Clients |-> IF c \in X THEN Idle ELSE cl[c]]
    PROVE  Unready(cl', segs, nextID, nextParts)
<1> DEFINE Has(c) == hasPart(segs, nextID, nextParts, cl[c].req.msn, cl[c].req.part)
           ready == {c \in playlistsOnHold : Has(c)}
<1>1. Idle.st # "hold"
  BY DEF Idle
<1>2. playlistsOnHold = Held(cl, "blockingPlaylist")
  BY Zenon DEF playlistsOnHold, OnHold, Held
<1>3. Held(cl', "blockingPlaylist") = playlistsOnHold \ A
  BY ZenonT(30), <1>1, <1>2 DEF Held
<1>4. \A c \in playlistsOnHold \ A : cl'[c] = cl[c]
  BY ZenonT(30), <1>2 DEF Held
<1>5. ASSUME \A c \in playlistsOnHold \ A : Has(c) PROVE playlistsOnHold \ A = {}
  <2>1. CASE hasContent(segs)
    <3>1. A \subseteq ready /\ (ready = playlistsOnHold => A = ready)
      BY ZenonT(30), <2>1 DEF CheckPending
    <3> QED
      BY Zenon, <3>1, <1>5
  <2>2. CASE ~hasContent(segs)
    <3>1. \A c : ~Has(c)
      BY Zenon, <2>2 DEF hasPart
    <3> QED
      BY Zenon, <3>1, <1>5
  <2> QED
    BY Zenon, <2>1, <2>2
<1>6. CASE playlistsOnHold \ A = {}
  BY Zenon, <1>3, <1>6 DEF Unready
<1>7. CASE \E c \in playlistsOnHold \ A : ~Has(c)
  <2>1. PICK c \in playlistsOnHold \ A : ~Has(c)
    BY Zenon, <1>7
  <2>2. c \in Held(cl', "blockingPlaylist") /\ cl'[c] = cl[c]
    BY Zenon, <1>3, <1>4
  <2>3. ~hasPart(segs, nextID, nextParts, cl'[c].req.msn, cl'[c].req.part)
    BY Zenon, <2>1, <2>2
  <2> HIDE DEF Has
  <2> QED
    BY Zenon, <2>2, <2>3 DEF Unready
<1> QED
  BY Zenon, <1>5, <1>6, <1>7

LEMMA HeldInit == Init => HeldInv
<1> SUFFICES ASSUME Init PROVE HeldInv
  BY Zenon
<1>1. cl = [c \in Clients |-> Idle] /\ segmentsByName = {}
  BY ZenonT(30) DEF Init
<1>2. Idle.st # "hold"
  BY DEF Idle
<1>3. \A op : Held(cl, op) = {}
  BY ZenonT(30), <1>1, <1>2 DEF Held
<1> QED
  BY Zenon, <1>3 DEF HeldInv, Unready, UpToDate

LEMMA PrevIDType ==
    ASSUME ClientsInv, NEW c \in Held(cl, "nextSegment")
    PROVE  cl[c].req.prevID \in Nat
<1>1. c \in Clients /\ cl[c].st = "hold" /\ cl[c].req.op = "nextSegment"
  BY Zenon DEF Held
<1>2. cl[c].st # "idle"
  BY <1>1
<1>3. cl[c].req \in Requests
  BY Zenon, <1>1, <1>2, ClientFacts
<1> QED
  BY Zenon, <1>1, <1>3, PlaylistAssumption

LEMMA HeldStepPart ==
    ASSUME HeldInv, PartFinalized
    PROVE  HeldInv'
<1>1. /\ segments' = segments /\ nextSegmentID' = nextSegmentID
      /\ segmentsByName' = segmentsByName /\ ctxDone' = ctxDone
      /\ nextSegmentParts' = Append(nextSegmentParts, partID) /\ segID' = segID
  BY ZenonT(30) DEF PartFinalized, FinalizePart
<1>2. PICK A \in SUBSET playlistsOnHold, B \in SUBSET partsOnHold :
            /\ CheckPending(segments, nextSegmentID, Append(nextSegmentParts, partID), partID + 1, A, B)
            /\ cl' = [c \in Clients |-> IF c \in A \cup B THEN Idle ELSE cl[c]]
  BY ZenonT(30) DEF PartFinalized
<1>3. "part" # "blockingPlaylist" /\ "part" # "nextSegment" /\ Idle.st # "hold"
  BY DEF Idle
<1>4. B \cap playlistsOnHold = {}
  BY ZenonT(30), <1>3 DEF playlistsOnHold, partsOnHold, OnHold
<1>5. A \subseteq A \cup B /\ (A \cup B) \cap playlistsOnHold = A
  BY Zenon, <1>4
<1>6. Unready(cl', segments, nextSegmentID, Append(nextSegmentParts, partID))
  BY ZenonT(30), <1>2, <1>5, PendingLeavesUnready
<1>7. \A c \in Held(cl', "nextSegment") : c \in Held(cl, "nextSegment") /\ cl'[c] = cl[c]
  BY ZenonT(30), <1>2, <1>3 DEF Held
<1>8. ctxDone' = FALSE => UpToDate(cl', segmentsByName, segID)
  BY ZenonT(30), <1>1, <1>7 DEF HeldInv, UpToDate
<1> QED
  BY Zenon, <1>1, <1>6, <1>8 DEF HeldInv

LEMMA HeldStepSegment ==
    ASSUME TypeOK, ClientsInv, HeldInv, NEW d \in Durations, SegmentFinalized(d)
    PROVE  HeldInv'
<1> DEFINE S == segments'
<1>1. /\ segmentsByName' \subseteq segmentsByName \cup {segID} /\ ctxDone' = ctxDone
      /\ nextSegmentID' = segID + 1 /\ nextSegmentParts' = <<>>
  BY ZenonT(30) DEF SegmentFinalized
<1>2. PICK A \in SUBSET playlistsOnHold, B \in SUBSET partsOnHold :
            /\ CheckPending(S, segID + 1, <<>>, nextPartID, A, B)
            /\ cl' = [c \in Clients |-> IF c \in A \cup B \cup segFinalOnHold \cup Awaited(segID)
                                        THEN Idle ELSE cl[c]]
  BY ZenonT(30) DEF SegmentFinalized
<1> HIDE DEF S
<1> DEFINE X == A \cup B \cup segFinalOnHold \cup Awaited(segID)
<1>3. /\ "part" # "blockingPlaylist" /\ "part" # "nextSegment" /\ Idle.st # "hold"
      /\ "waitForSegFinal" # "blockingPlaylist" /\ "nextSegment" # "blockingPlaylist"
  BY DEF Idle
<1>4. (B \cup segFinalOnHold \cup Awaited(segID)) \cap playlistsOnHold = {}
  BY ZenonT(30), <1>3 DEF playlistsOnHold, partsOnHold, segFinalOnHold, Awaited, nextSegmentsOnHold, OnHold
<1>5. A \subseteq X /\ X \cap playlistsOnHold = A
  BY Zenon, <1>4
<1>6. Unready(cl', S, segID + 1, <<>>)
  BY ZenonT(30), <1>2, <1>5, PendingLeavesUnready
<1>7. \A c \in Held(cl', "nextSegment") :
            c \in Held(cl, "nextSegment") /\ cl'[c] = cl[c] /\ c \notin Awaited(segID)
  BY ZenonT(30), <1>2, <1>3 DEF Held
<1>8. ASSUME ctxDone' = FALSE, NEW c \in Held(cl', "nextSegment")
      PROVE  /\ \A id \in segmentsByName' : id <= cl'[c].req.prevID
             /\ cl'[c].early \/ cl'[c].req.prevID < segID'
  <2>1. c \in Held(cl, "nextSegment") /\ cl'[c] = cl[c] /\ c \notin Awaited(segID)
    BY Zenon, <1>7
  <2>2. \A id \in segmentsByName : id <= cl[c].req.prevID
    BY Zenon, <2>1, <1>1, <1>8 DEF HeldInv, UpToDate
  <2>3. ~(segID > cl[c].req.prevID)
    BY Zenon, <2>1 DEF Awaited, nextSegmentsOnHold, OnHold, Held
  <2>4. cl[c].req.prevID \in Nat /\ segID \in Nat
    BY Zenon, <2>1, PrevIDType DEF TypeOK
  <2>5. segID <= cl[c].req.prevID /\ ~(cl[c].req.prevID < segID)
    BY <2>3, <2>4
  <2>6. cl[c].early
    BY Zenon, <2>1, <2>5, <1>1, <1>8 DEF HeldInv, UpToDate
  <2> QED
    BY Zenon, <2>1, <2>2, <2>5, <2>6, <1>1
<1>9. ctxDone' = FALSE => UpToDate(cl', segmentsByName', segID')
  BY Zenon, <1>8 DEF UpToDate
<1> QED
  BY Zenon, <1>1, <1>6, <1>9 DEF HeldInv, S

LEMMA HeldStepHold ==
    ASSUME TypeOK, NumberingInv, WindowInv, ClientsInv, HeldInv, NEW c \in Clients, PutOnHold(c),
           UNCHANGED playlistVars, ctxDone' = FALSE => ctxDone = FALSE /\ segID' = segID
    PROVE  HeldInv'
<1>1. /\ segments' = segments /\ nextSegmentID' = nextSegmentID
      /\ segmentsByName' = segmentsByName /\ nextSegmentParts' = nextSegmentParts
  BY Zenon DEF playlistVars
<1>2. cl[c].st # "hold"
  BY DEF PutOnHold
<1>3. /\ cl'[c].st = "hold" /\ cl'[c].req = cl[c].req
      /\ \A e \in Clients \ {c} : cl'[e] = cl[e]
  BY ZenonT(30), ClientFacts DEF PutOnHold
<1>4. /\ \A op \in Ops : \A e \in Held(cl', op) : (e # c /\ e \in Held(cl, op)) \/ (e = c /\ cl[c].req.op = op)
      /\ \A op \in Ops : \A e \in Held(cl, op) : e \in Held(cl', op) /\ cl'[e] = cl[e]
  BY ZenonT(30), <1>2, <1>3 DEF Held
<1>o. "blockingPlaylist" \in Ops /\ "nextSegment" \in Ops
  BY Zenon DEF Ops
<1>5. Unready(cl', segments, nextSegmentID, nextSegmentParts)
  <2>1. CASE cl[c].req.op = "blockingPlaylist"
    <3>1. c \in Held(cl', "blockingPlaylist")
      BY Zenon, <2>1, <1>3 DEF Held
    <3>2. ~hasPart(segments, nextSegmentID, nextSegmentParts, cl'[c].req.msn, cl'[c].req.part)
      BY Zenon, <2>1, <1>3 DEF PutOnHold
    <3> QED
      BY Zenon, <3>1, <3>2 DEF Unready
  <2>2. CASE cl[c].req.op # "blockingPlaylist"
    <3>1. Held(cl', "blockingPlaylist") = Held(cl, "blockingPlaylist")
      <4>1. \A e \in Held(cl', "blockingPlaylist") : e \in Held(cl, "blockingPlaylist")
        BY Zenon, <2>2, <1>4, <1>o
      <4>2. \A e \in Held(cl, "blockingPlaylist") : e \in Held(cl', "blockingPlaylist")
        BY Zenon, <1>4, <1>o
      <4> QED
        BY Zenon, <4>1, <4>2
    <3>2. \A e \in Held(cl, "blockingPlaylist") : cl'[e] = cl[e]
      BY Zenon, <1>4, <1>o
    <3> QED
      BY Zenon, <3>1, <3>2 DEF HeldInv, Unready
  <2> QED
    BY Zenon, <2>1, <2>2
<1>6. ASSUME ctxDone' = FALSE, NEW e \in Held(cl', "nextSegment")
      PROVE  /\ \A id \in segmentsByName : id <= cl'[e].req.prevID
             /\ cl'[e].early \/ cl'[e].req.prevID < segID
  <2>1. ctxDone = FALSE
    BY Zenon, <1>6
  <2>2. CASE e # c
    <3>1. e \in Held(cl, "nextSegment") /\ cl'[e] = cl[e]
      BY Zenon, <2>2, <1>4, <1>o
    <3> QED
      BY Zenon, <3>1, <2>1 DEF HeldInv, UpToDate
  <2>3. CASE e = c
    <3> DEFINE prevID == cl[c].req.prevID
    <3>1. cl[c].req.op = "nextSegment"
      BY Zenon, <2>3, <1>4, <1>o
    <3>2. NextSegmentIndexes(prevID) = {} /\ (cl'[c].early \/ segmentsByName # {})
      BY Zenon, <3>1 DEF PutOnHold
    <3>3. prevID \in Nat
      <4>1. cl[c].st # "idle"
        BY DEF PutOnHold
      <4> QED
        BY Zenon, <4>1, <3>1, ClientFacts, PlaylistAssumption
    <3> HIDE DEF prevID
    <3>4. ASSUME NEW id \in segmentsByName PROVE id <= prevID /\ prevID < segID
      <4>1. PICK i \in 1..Len(segments) : ~segments[i].gap /\ segments[i].ID = id
        BY Zenon, <2>1 DEF WindowInv, IDs
      <4>2. ~(prevID < id) /\ ~(prevID >= nextSegmentID)
        BY Zenon, <3>2, <4>1 DEF NextSegmentIndexes
      <4>3. Len(segments) # 0
        BY <4>1 DEF TypeOK
      <4>4. nextSegmentID = segID
        BY Zenon, <2>1, <4>3 DEF NumberingInv
      <4>5. id \in Nat /\ segID \in Nat
        BY Zenon, <4>1, SeqElement DEF TypeOK, Entries
      <4> QED
        BY <4>2, <4>4, <4>5, <3>3
    <3>5. cl'[c].early \/ prevID < segID
      BY Zenon, <3>2, <3>4
    <3> QED
      BY Zenon, <3>4, <3>5, <2>3, <1>3 DEF prevID
  <2> QED
    BY Zenon, <2>2, <2>3
<1>7. ctxDone' = FALSE => UpToDate(cl', segmentsByName, segID)
  BY Zenon, <1>6 DEF UpToDate
<1> QED
  BY Zenon, <1>1, <1>5, <1>7 DEF HeldInv

LEMMA HeldStep == TypeOK /\ NumberingInv /\ WindowInv /\ ClientsInv /\ HeldInv /\ [Next]_vars => HeldInv'
<1> SUFFICES ASSUME TypeOK, NumberingInv, WindowInv, ClientsInv, HeldInv, [Next]_vars PROVE HeldInv'
  BY Zenon
<1>o. "blockingPlaylist" \in Ops /\ "nextSegment" \in Ops
  BY Zenon DEF Ops
<1>1. CASE HoldsStay /\ UNCHANGED playlistVars /\ (ctxDone' = FALSE => ctxDone = FALSE /\ segID' = segID)
  <2>1. /\ segments' = segments /\ nextSegmentID' = nextSegmentID
        /\ segmentsByName' = segmentsByName /\ nextSegmentParts' = nextSegmentParts
    BY Zenon, <1>1 DEF playlistVars
  <2>2. /\ Held(cl', "blockingPlaylist") = Held(cl, "blockingPlaylist")
        /\ Held(cl', "nextSegment") = Held(cl, "nextSegment")
        /\ \A c \in Held(cl, "blockingPlaylist") : cl'[c] = cl[c]
        /\ \A c \in Held(cl, "nextSegment") : cl'[c] = cl[c]
    BY Zenon, <1>1, <1>o DEF HoldsStay
  <2>3. Unready(cl', segments, nextSegmentID, nextSegmentParts)
    BY Zenon, <2>2 DEF HeldInv, Unready
  <2>4. ctxDone' = FALSE => UpToDate(cl', segmentsByName, segID)
    BY Zenon, <1>1, <2>2 DEF HeldInv, UpToDate
  <2> QED
    BY Zenon, <1>1, <2>1, <2>3, <2>4 DEF HeldInv
<1>2. CASE ctxDone /\ UNCHANGED <<playlistVars, ctxDone>> /\ \A op \in Ops : Held(cl', op) = {}
  <2>1. Held(cl', "blockingPlaylist") = {} /\ Held(cl', "nextSegment") = {}
    BY Zenon, <1>2, <1>o
  <2> QED
    BY Zenon, <2>1 DEF HeldInv, Unready, UpToDate
<1> QED
  BY ZenonT(30), <1>1, <1>2, HoldCases, HeldStepPart, HeldStepSegment, HeldStepHold

\* The parts that are there, by the ID of their segment and their index in it.
LEMMA AvailableParts ==
    ASSUME NEW msn, NEW part
    PROVE  (\E p \in Available : p[1] > msn \/ (p[1] = msn /\ p[2] >= part)) <=>
                \/ \E i \in 1..Len(segments) : ~segments[i].gap /\ \E k \in 1..Len(segments[i].Parts) :
                      segments[i].ID > msn \/ (segments[i].ID = msn /\ k - 1 >= part)
                \/ \E k \in 1..Len(nextSegmentParts) :
                      nextSegmentID > msn \/ (nextSegmentID = msn /\ k - 1 >= part)
<1>1. \A a, b : <<a, b>>[1] = a /\ <<a, b>>[2] = b
  OBVIOUS
<1>2. ASSUME NEW i \in 1..Len(segments), ~segments[i].gap, NEW k \in 1..Len(segments[i].Parts)
      PROVE  <<segments[i].ID, k - 1>> \in Available
  <2> DEFINE of == {<<segments[i].ID, j - 1>> : j \in 1..Len(segments[i].Parts)}
  <2>1. <<segments[i].ID, k - 1>> \in of
    BY Zenon
  <2>2. of \subseteq Available
    BY ZenonT(30), <1>2 DEF Available
  <2> QED
    BY Zenon, <2>1, <2>2
<1>3. ASSUME NEW k \in 1..Len(nextSegmentParts)
      PROVE  <<nextSegmentID, k - 1>> \in Available
  BY Zenon, <1>3 DEF Available
<1>4. ASSUME NEW p \in Available
      PROVE  \/ \E i \in 1..Len(segments) : ~segments[i].gap /\
                    \E k \in 1..Len(segments[i].Parts) : p = <<segments[i].ID, k - 1>>
             \/ \E k \in 1..Len(nextSegmentParts) : p = <<nextSegmentID, k - 1>>
  BY ZenonT(30), <1>4 DEF Available
<1>5. ASSUME NEW p \in Available, p[1] > msn \/ (p[1] = msn /\ p[2] >= part)
      PROVE  \/ \E i \in 1..Len(segments) : ~segments[i].gap /\ \E k \in 1..Len(segments[i].Parts) :
                    segments[i].ID > msn \/ (segments[i].ID = msn /\ k - 1 >= part)
             \/ \E k \in 1..Len(nextSegmentParts) :
                    nextSegmentID > msn \/ (nextSegmentID = msn /\ k - 1 >= part)
  <2>1. CASE \E i \in 1..Len(segments) : ~segments[i].gap /\
                    \E k \in 1..Len(segments[i].Parts) : p = <<segments[i].ID, k - 1>>
    <3>1. PICK i \in 1..Len(segments) : ~segments[i].gap /\
                    \E k \in 1..Len(segments[i].Parts) : p = <<segments[i].ID, k - 1>>
      BY Zenon, <2>1
    <3>2. PICK k \in 1..Len(segments[i].Parts) : p = <<segments[i].ID, k - 1>>
      BY Zenon, <3>1
    <3>3. p[1] = segments[i].ID /\ p[2] = k - 1
      BY <3>2
    <3> QED
      BY Zenon, <3>1, <3>3, <1>5
  <2>2. CASE \E k \in 1..Len(nextSegmentParts) : p = <<nextSegmentID, k - 1>>
    <3>1. PICK k \in 1..Len(nextSegmentParts) : p = <<nextSegmentID, k - 1>>
      BY Zenon, <2>2
    <3>2. p[1] = nextSegmentID /\ p[2] = k - 1
      BY <3>1
    <3> QED
      BY Zenon, <3>2, <1>5
  <2> QED
    BY Zenon, <2>1, <2>2, <1>4
<1>6. ASSUME NEW i \in 1..Len(segments), ~segments[i].gap, NEW k \in 1..Len(segments[i].Parts),
             segments[i].ID > msn \/ (segments[i].ID = msn /\ k - 1 >= part)
      PROVE  \E p \in Available : p[1] > msn \/ (p[1] = msn /\ p[2] >= part)
  BY Zenon, <1>1, <1>2, <1>6
<1>7. ASSUME NEW k \in 1..Len(nextSegmentParts),
             nextSegmentID > msn \/ (nextSegmentID = msn /\ k - 1 >= part)
      PROVE  \E p \in Available : p[1] > msn \/ (p[1] = msn /\ p[2] >= part)
  BY Zenon, <1>1, <1>3, <1>7
<1> QED
  BY ZenonT(30), <1>5, <1>6, <1>7

\* hasPart finds a part exactly if it or a later one is there.
LEMMA ReloadExact ==
    ASSUME TypeOK, NumberingInv, WindowInv, ctxDone = FALSE, hasContent(segments),
           NEW msn \in Nat, NEW part \in Nat
    PROVE  hasPart(segments, nextSegmentID, nextSegmentParts, msn, part) <=>
                /\ msn \in segmentsByName \cup {nextSegmentID}
                /\ \E p \in Available : p[1] > msn \/ (p[1] = msn /\ p[2] >= part)
<1> DEFINE n == Len(segments)
           D == segmentDeleteCount
           nx == Len(nextSegmentParts)
           Later == \E p \in Available : p[1] > msn \/ (p[1] = msn /\ p[2] >= part)
<1>1. segments \in Seq(Entries) /\ D \in Nat /\ nextSegmentParts \in Seq(Nat)
  BY Zenon DEF TypeOK
<1>2. n \in Nat /\ n # 0 /\ nx \in Nat
  BY <1>1 DEF hasContent
<1>3. WellNumbered(segments, D) /\ segmentsByName = IDs(segments)
  BY Zenon DEF WindowInv
<1>4. nextSegmentID = D + n
  BY Zenon, <1>2 DEF NumberingInv
<1>5. hasPart(segments, nextSegmentID, nextSegmentParts, msn, part)
            <=> PartThere(segments, D, nextSegmentParts, msn, part)
  BY Zenon, <1>1, <1>2, <1>3, <1>4, HasPartExact
<1>6. \A i \in 1..n : ~segments[i].gap =>
            /\ segments[i].ID = D + i - 1 /\ Len(segments[i].Parts) \in Nat
            /\ Len(segments[i].Parts) # 0
  <2> SUFFICES ASSUME NEW i \in 1..n, ~segments[i].gap
               PROVE  /\ segments[i].ID = D + i - 1 /\ Len(segments[i].Parts) \in Nat
                      /\ Len(segments[i].Parts) # 0
    BY Zenon
  <2>1. segments[i].ID = D + i - 1 /\ segments[i].Parts # <<>>
    BY Zenon, <1>3 DEF WellNumbered
  <2>2. segments[i].Parts \in Seq(Nat)
    <3>1. segments[i] \in Entries
      BY Zenon, <1>1, SeqElement
    <3> QED
      BY Zenon, <3>1 DEF Entries
  <2> QED
    BY <2>1, <2>2, SeqEmpty
<1>7. \A i \in 1..n : ~segments[i].gap /\ i < n => ~segments[i + 1].gap
  BY Zenon, <1>3 DEF WellNumbered
<1>8. Later <=>
          \/ \E i \in 1..n : ~segments[i].gap /\ \E k \in 1..Len(segments[i].Parts) :
                segments[i].ID > msn \/ (segments[i].ID = msn /\ k - 1 >= part)
          \/ \E k \in 1..nx : nextSegmentID > msn \/ (nextSegmentID = msn /\ k - 1 >= part)
  BY Zenon, AvailableParts
<1>9. msn \in segmentsByName <=> \E m \in 1..n : ~segments[m].gap /\ segments[m].ID = msn
  BY Zenon, <1>3 DEF IDs
<1> HIDE DEF n, D, nx, Later
<1>10. ASSUME msn = D + n
       PROVE  /\ PartThere(segments, D, nextSegmentParts, msn, part) <=> part < nx
              /\ Later <=> part < nx
  <2>1. \A i \in 1..n : ~segments[i].gap => ~(segments[i].ID > msn) /\ segments[i].ID # msn
    BY <1>1, <1>2, <1>6, <1>10
  <2>2. PartThere(segments, D, nextSegmentParts, msn, part) <=> part < nx
    BY Zenon, <2>1, <1>10 DEF PartThere, n, nx
  <2>3. ~(nextSegmentID > msn) /\ nextSegmentID = msn
    BY <1>1, <1>2, <1>4, <1>10
  <2>4. Later <=> \E k \in 1..nx : k - 1 >= part
    BY Zenon, <2>1, <2>3, <1>8
  <2>5. (\E k \in 1..nx : k - 1 >= part) <=> part < nx
    BY <1>2
  <2> QED
    BY Zenon, <2>2, <2>4, <2>5
<1>11. ASSUME NEW m \in 1..n, ~segments[m].gap, segments[m].ID = msn
       PROVE  PartThere(segments, D, nextSegmentParts, msn, part) <=> Later
  <2> DEFINE r == part < Len(segments[m].Parts) \/ m < n \/ nx # 0
  <2>1. msn = D + m - 1 /\ Len(segments[m].Parts) \in Nat /\ m \in Nat
    BY <1>6, <1>11
  <2>2. PartThere(segments, D, nextSegmentParts, msn, part) <=> r
    <3>1. msn # D + n
      BY <2>1, <1>1, <1>2
    <3>2. ASSUME NEW i \in 1..n, ~segments[i].gap, segments[i].ID = msn PROVE i = m
      <4>1. segments[i].ID = D + i - 1
        BY Zenon, <1>6, <3>2
      <4> QED
        BY <4>1, <3>2, <2>1, <1>1
    <3> QED
      BY Zenon, <3>1, <3>2, <1>11 DEF PartThere, n, nx
  <2>3. ASSUME Later PROVE r
    <3>1. CASE \E i \in 1..n : ~segments[i].gap /\ \E k \in 1..Len(segments[i].Parts) :
                segments[i].ID > msn \/ (segments[i].ID = msn /\ k - 1 >= part)
      <4>1. PICK i \in 1..n : ~segments[i].gap /\ \E k \in 1..Len(segments[i].Parts) :
                segments[i].ID > msn \/ (segments[i].ID = msn /\ k - 1 >= part)
        BY Zenon, <3>1
      <4>2. PICK k \in 1..Len(segments[i].Parts) :
                segments[i].ID > msn \/ (segments[i].ID = msn /\ k - 1 >= part)
        BY Zenon, <4>1
      <4>3. segments[i].ID = D + i - 1 /\ Len(segments[i].Parts) \in Nat
        BY Zenon, <4>1, <1>6
      <4>4. CASE segments[i].ID > msn
        <5>1. m < n
          BY <4>3, <4>4, <2>1, <1>1, <1>2
        <5> QED
          BY Zenon, <5>1
      <4>5. CASE segments[i].ID = msn /\ k - 1 >= part
        <5>1. i = m
          BY <4>3, <4>5, <2>1, <1>1
        <5>2. part < Len(segments[i].Parts)
          BY <4>3, <4>5
        <5> QED
          BY Zenon, <5>1, <5>2
      <4> QED
        BY Zenon, <4>2, <4>4, <4>5
    <3>2. CASE \E k \in 1..nx : nextSegmentID > msn \/ (nextSegmentID = msn /\ k - 1 >= part)
      <4>1. nx # 0
        BY <3>2, <1>2
      <4> QED
        BY Zenon, <4>1
    <3> QED
      BY Zenon, <3>1, <3>2, <2>3, <1>8
  <2>4. ASSUME r PROVE Later
    <3>1. CASE part < Len(segments[m].Parts)
      <4>1. part + 1 \in 1..Len(segments[m].Parts) /\ (part + 1) - 1 >= part
        BY <3>1, <2>1
      <4> QED
        BY Zenon, <4>1, <1>8, <1>11
    <3>2. CASE m < n
      <4>1. m + 1 \in 1..n /\ D + (m + 1) - 1 > msn
        BY <3>2, <2>1, <1>1, <1>2
      <4>2. ~segments[m + 1].gap
        BY Zenon, <3>2, <1>7, <1>11
      <4>3. /\ segments[m + 1].ID = D + (m + 1) - 1 /\ Len(segments[m + 1].Parts) \in Nat
            /\ Len(segments[m + 1].Parts) # 0
        BY Zenon, <4>1, <4>2, <1>6
      <4>4. 1 \in 1..Len(segments[m + 1].Parts)
        BY <4>3
      <4>5. segments[m + 1].ID > msn
        BY Zenon, <4>1, <4>3
      <4> QED
        BY Zenon, <4>1, <4>2, <4>4, <4>5, <1>8
    <3>3. CASE nx # 0
      <4>1. 1 \in 1..nx /\ nextSegmentID > msn
        BY <3>3, <2>1, <1>1, <1>2, <1>4
      <4> QED
        BY Zenon, <4>1, <1>8
    <3> QED
      BY Zenon, <2>4, <3>1, <3>2, <3>3
  <2> QED
    BY Zenon, <2>2, <2>3, <2>4
<1>12. PartThere(segments, D, nextSegmentParts, msn, part) =>
            msn = D + n \/ \E m \in 1..n : ~segments[m].gap /\ segments[m].ID = msn
  BY Zenon DEF PartThere, n
<1>13. PartThere(segments, D, nextSegmentParts, msn, part) <=>
            msn \in segmentsByName \cup {nextSegmentID} /\ Later
  <2>1. CASE msn = D + n
    BY Zenon, <2>1, <1>4, <1>10
  <2>2. CASE \E m \in 1..n : ~segments[m].gap /\ segments[m].ID = msn
    BY Zenon, <2>2, <1>9, <1>11
  <2>3. CASE ~(msn = D + n \/ \E m \in 1..n : ~segments[m].gap /\ segments[m].ID = msn)
    BY Zenon, <2>3, <1>4, <1>9, <1>12
  <2> QED
    BY Zenon, <2>1, <2>2, <2>3
<1> QED
  BY Zenon, <1>5, <1>13 DEF Later

\* Clients get what they ask for when it is there, and not before (hasPart,
\* checkPending, partFinalized, segmentFinalized, nextSegment): the numbers they
\* compute from the playlist are the IDs of the segments, a blocking reload is
\* answered exactly if its part or a later one is there and is kept on hold only
\* by another that cannot be answered yet, a NextSegment call waits only as long
\* as a new one would (but for calls that came before the first segment with the
\* ID of an earlier muxer), and the hint is ahead.
THEOREM RequestsAlwaysOnTime == Spec => []RequestsOnTime
<1> DEFINE I == TypeOK /\ NumberingInv /\ WindowInv /\ PartsInv /\ ClientsInv /\ HeldInv
<1>1. I => RequestsOnTime
  <2> SUFFICES ASSUME I PROVE RequestsOnTime
    BY Zenon
  <2> USE DEF I
  <2>0. ctxDone \in BOOLEAN
    BY Zenon DEF TypeOK
  <2>1. MediaSequence
    <3> SUFFICES ASSUME ctxDone = FALSE
                 PROVE  /\ \A i \in 1..Len(segments) : ~segments[i].gap =>
                              segments[i].ID = segmentDeleteCount + i - 1
                        /\ hasContent(segments) => nextSegmentID = segmentDeleteCount + Len(segments)
      BY ZenonT(30), <2>0 DEF MediaSequence
    <3>1. hasContent(segments) => Len(segments) # 0
      BY DEF hasContent
    <3> QED
      BY Zenon, <3>1 DEF NumberingInv
  <2>2. BlockingReload
    <3> SUFFICES ASSUME ctxDone = FALSE, hasContent(segments),
                        NEW msn \in 0..MaxSegmentID + 1, NEW part \in 0..MaxParts
                 PROVE  hasPart(segments, nextSegmentID, nextSegmentParts, msn, part) <=>
                            /\ msn \in segmentsByName \cup {nextSegmentID}
                            /\ \E p \in Available : p[1] > msn \/ (p[1] = msn /\ p[2] >= part)
      BY ZenonT(30), <2>0 DEF BlockingReload
    <3>1. msn \in Nat /\ part \in Nat
      OBVIOUS
    <3> QED
      BY Zenon, <3>1, ReloadExact
  <2>3. ReadyHeldOnlyBehindUnready
    <3>1. playlistsOnHold = Held(cl, "blockingPlaylist")
      BY Zenon DEF playlistsOnHold, OnHold, Held
    <3> QED
      BY ZenonT(30), <3>1 DEF ReadyHeldOnlyBehindUnready, HeldInv, Unready
  <2>4. HeldNextSegmentsUpToDate
    <3>1. nextSegmentsOnHold = Held(cl, "nextSegment")
      BY Zenon DEF nextSegmentsOnHold, OnHold, Held
    <3>2. ASSUME ctxDone = FALSE, NEW c \in Held(cl, "nextSegment"),
                 NEW i \in NextSegmentIndexes(cl[c].req.prevID)
          PROVE  cl[c].early /\ cl[c].req.prevID >= nextSegmentID
      <4> DEFINE prevID == cl[c].req.prevID
      <4>1. i \in 1..Len(segments) /\ ~segments[i].gap /\ (prevID < segments[i].ID \/ prevID >= nextSegmentID)
        BY Zenon DEF NextSegmentIndexes
      <4>2. segments[i].ID \in segmentsByName
        BY Zenon, <3>2, <4>1 DEF WindowInv, IDs
      <4>3. segments[i].ID <= prevID /\ (cl[c].early \/ prevID < segID)
        BY Zenon, <3>2, <4>2 DEF HeldInv, UpToDate
      <4>4. prevID \in Nat /\ segments[i].ID \in Nat /\ segID \in Nat
        <5>1. prevID \in Nat
          BY Zenon, PrevIDType
        <5> HIDE DEF prevID
        <5>2. segments[i] \in Entries /\ segID \in Nat
          BY Zenon, <4>1, SeqElement DEF TypeOK
        <5>3. segments[i].ID \in Nat
          BY <4>1, <5>2 DEF Entries
        <5> QED
          BY Zenon, <5>1, <5>2, <5>3
      <4> HIDE DEF prevID
      <4>5. Len(segments) # 0
        BY <4>1 DEF TypeOK
      <4>6. nextSegmentID = segID
        BY Zenon, <3>2, <4>5 DEF NumberingInv
      <4>7. prevID >= nextSegmentID
        BY <4>1, <4>3, <4>4
      <4>8. ~(prevID < segID)
        BY <4>4, <4>6, <4>7
      <4> QED
        BY Zenon, <4>3, <4>7, <4>8 DEF prevID
    <3> QED
      BY ZenonT(30), <3>1, <3>2, <2>0 DEF HeldNextSegmentsUpToDate
  <2>5. PreloadHintAhead
    <3> SUFFICES ASSUME ctxDone = FALSE
                 PROVE  /\ nextPartID \notin fullPlaylist(FALSE).partURIs
                        /\ nextPartID <= partID /\ partID <= nextPartID + 1
      BY ZenonT(30), <2>0 DEF PreloadHintAhead
    <3>1. fullPlaylist(FALSE).partURIs \subseteq partsByName
      BY Zenon, URIsServed
    <3>2. parts \in Seq(Nat) /\ nextPartID \in Nat
      BY Zenon DEF TypeOK
    <3>3. DOMAIN parts = 1..Len(parts) /\ ~(nextPartID < nextPartID)
      BY <3>2
    <3>4. nextPartID \notin partsByName
      BY Zenon, <3>3 DEF PartsInv, Range
    <3> QED
      BY Zenon, <3>1, <3>4 DEF PartsInv
  <2> QED
    BY Zenon, <2>1, <2>2, <2>3, <2>4, <2>5 DEF RequestsOnTime
<1> QED
  BY <1>1, TypeInit, TypeStep, NumberingInit, NumberingStep, WindowInit, WindowInvStep,
     PartsInit, PartsStep, ClientsInit, ClientsStep, HeldInit, HeldStep, PTL DEF Spec
=============================================================================
