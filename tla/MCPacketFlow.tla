----------------------------- MODULE MCPacketFlow -----------------------------
(***************************************************************************)
(* A stream of three access units with parameters that change, a picture   *)
(* that needs fragments or is too big for one packet, and timestamps that  *)
(* wrap and go back; an audio track with a fragmented AU.                  *)
(***************************************************************************)
EXTENDS PacketFlow, H264

MCVideos ==
    {<<>>,
     <<[time |-> 0, nalus |-> << <<"SPS", 1>>, <<"IDR", 1, 2, 3, 4, 5, 6, 7, 8, 9>> >>],
       [time |-> 4, nalus |-> << <<"P", 21>> >>],
       [time |-> 1, nalus |-> << <<"PPS", 2>>, <<"IDR", 31>> >>]>>}

MCAudio ==
    <<[lens |-> <<2>>, data |-> <<1, 2>>, marker |-> FALSE],
      [lens |-> <<1>>, data |-> <<3>>, marker |-> TRUE]>>

\* The first unit has as many NALUs as a group must not have.
MCBigVideos ==
    {<<[time |-> 0, nalus |-> << <<"P", 1>>, <<"P", 2>>, <<"P", 3>>, <<"P", 4>> >>],
       [time |-> 4, nalus |-> << <<"P", 21>> >>]>>}

-----------------------------------------------------------------------------
(* The algorithms, which have no state: a property of the initial states.  *)

\* AnnexBUnmarshal reads back what AnnexBMarshal writes, NALU by NALU, also where
\* a NALU holds zeros and ones that look like the beginning of a delimiter.
AnnexBRoundTrip == Init => AnnexBCorrect

\* AVCCUnmarshal takes the samples of a segment apart again, and no buffer in a
\* way that AVCCMarshal would not put together.
AVCCRoundTrip == Init => AVCCCorrect

\* AntiCompetitionRemove undoes what an encoder did to a payload, if no run of
\* zeros in it needs a second byte.
AntiCompetitionInverse == Init => AntiCompetitionCorrect

\* bits.ReadBits across bytes gives the number the bits spell.
ReadBitsExact == Init => ReadBitsCorrect

\* DTSExtractor gives frames of a constant rate a constant distance, whatever
\* their order, also when the picture order count wraps.
DTSExact == Init => DTSCorrect

\* The two loops of readAUHeaders agree on the number of headers, and the
\* headers end within what Decode skips.
AUHeadersFit == Init => AUHeadersCorrect

\* The formats of H.264 and AAC are read as they are written: see the parts.
BitstreamsExact ==
    /\ AnnexBRoundTrip /\ AVCCRoundTrip /\ AntiCompetitionInverse
    /\ ReadBitsExact /\ DTSExact /\ AUHeadersFit
===============================================================================
