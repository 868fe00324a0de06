--------------------------- MODULE H264Packetizer ---------------------------
(***************************************************************************)
(* core/transport/rtp/h264_packetizer.cpp: an encoded frame, as the NAL    *)
(* units extract_nalus finds in it (see AnnexB), becomes numbered RTP      *)
(* packets (see RtpFragmentation).                                         *)
(***************************************************************************)
EXTENDS RtpFragmentation

VARIABLES
  m_sequence, \* number of the next packet
  frame,      \* argument of the last packetize_frame ...
  packets     \* ... and its result

vars == <<m_sequence, frame, packets>>

Init ==
  /\ m_sequence = 0
  /\ frame = <<>>
  /\ packets = <<>>

CountsUnits(sizes) == \* mutant: one number per unit instead of per packet
  /\ frame' = sizes
  /\ packets' = FramePackets(sizes, m_sequence)
  /\ m_sequence' = SeqNumber(m_sequence + Len(sizes))

packetize_frame(sizes) ==
  /\ frame' = sizes
  /\ packets' = FramePackets(sizes, m_sequence)
  /\ m_sequence' = SeqNumber(m_sequence + Len(packets'))

Next == \E sizes \in Frames : packetize_frame(sizes)

Spec == Init /\ [][Next]_vars

-----------------------------------------------------------------------------
TypeOK ==
  /\ m_sequence \in SeqNums
  /\ frame \in Frames \cup {<<>>}
  /\ \A i \in DOMAIN packets :
       /\ packets[i].kind \in {"single", "fu"}
       /\ packets[i].nalu \in DOMAIN frame
       /\ packets[i].seq \in SeqNums

\* Every byte of a NAL unit is carried exactly once and in order, the units one after
\* another, with a start at the first packet of each and an end at its last, and no
\* payload is larger than the MTU leaves room for, at any size
\* (h264_packetizer.cpp:24-104).
UnitsAreCarriedWhole ==
  /\ \A n \in DOMAIN frame : frame[n] > 0 => \E i \in DOMAIN packets : packets[i].nalu = n
  /\ \A i \in DOMAIN packets :
       LET p        == packets[i]
           overhead == IF p.kind = "fu" THEN 2 ELSE 0
           first    == i = 1 \/ packets[i - 1].nalu # p.nalu
           last     == i = Len(packets) \/ packets[i + 1].nalu # p.nalu
       IN  /\ i > 1 => packets[i - 1].nalu <= p.nalu
           /\ p.start <=> first
           /\ p.end <=> last
           /\ p.from = IF first THEN overhead \div 2 ELSE packets[i - 1].to + 1
           /\ last => p.to = frame[p.nalu] - 1
           /\ p.from <= p.to
           /\ overhead + p.to - p.from + 1 <= MaxPayload

\* A fragmented unit always has a first and another, last, fragment: no fragment
\* carries both bits, as the FU-A format requires (h264_packetizer.cpp:86-88).
FragmentsAreProper ==
  \A i \in DOMAIN packets : packets[i].kind = "fu" => ~(packets[i].start /\ packets[i].end)

\* Numbers run on without a gap within a frame and from frame to frame, over
\* the wrap too (h264_packetizer.cpp:49, 79).
NumbersRunOn ==
  [][ /\ \A i \in DOMAIN packets' : i > 1 => packets'[i].seq = NextSeq(packets'[i - 1].seq)
      /\ packets' # <<>> =>
           /\ packets'[1].seq = m_sequence
           /\ m_sequence' = NextSeq(Last(packets').seq) ]_vars

\* The receiver may take a marker as the end of a unit, and finds one at the end
\* of each frame (h264_packetizer.cpp:38-41, 97). It may not take it as the end of
\* the frame: every fragmented unit ends with one.
MarkersEndUnits ==
  /\ \A i \in DOMAIN packets : packets[i].marker => packets[i].end
  /\ packets # <<>> => Last(packets).marker
=============================================================================
