------------------------- MODULE RtpFragmentation --------------------------
(***************************************************************************)
(* core/transport/rtp/h264_packetizer.cpp without its state: the packets   *)
(* that carry a frame.  A NAL unit is its size in bytes; a payload is the  *)
(* range of its bytes it carries (byte 0 is the NAL header, which a        *)
(* fragment replaces by two FU bytes).                                     *)
(***************************************************************************)
EXTENDS RtpSequence, SequencesExt

CONSTANTS
  Frames,     \* what the encoder may hand over: sequences of NAL unit sizes
  MaxPayload  \* m_mtu - RTP_HEADER_SIZE

ASSUME FramesAssumption == Frames \subseteq Seq(Nat)
ASSUME MaxPayloadAssumption == MaxPayload \in Nat /\ MaxPayload > 2

\* is_small_nalu
IsSmallForFragment(size) == size <= MaxPayload - 2 \* mutant: the room of a fragment
IsSmall(size) == size <= MaxPayload

\* create_single_nalu_packet
SinglePacket(nalu, size) ==
  << [kind |-> "single", nalu |-> nalu, from |-> 0, to |-> size - 1,
      start |-> TRUE, end |-> TRUE, marker |-> FALSE, seq |-> 0] >>

ChunkWithHeader == MaxPayload - 1 \* mutant: one FU byte forgotten
Chunk == MaxPayload - 2

\* create_fu_a_packets: byte 0 is skipped, the rest goes in equal chunks, and
\* the last fragment of every unit gets the marker.
FuAPackets(nalu, size) ==
  LET count == (size - 2 + Chunk) \div Chunk
  IN  [i \in 1 .. count |->
        [kind |-> "fu", nalu |-> nalu,
         from |-> 1 + (i - 1) * Chunk,
         to |-> IF i = count THEN size - 1 ELSE i * Chunk,
         start |-> i = 1, end |-> i = count, marker |-> i = count, seq |-> 0]]

\* packetize_nalu; FramePackets has the sequence numbers
NaluPackets(nalu, size) ==
  IF size = 0 THEN <<>>
  ELSE IF IsSmall(size) THEN SinglePacket(nalu, size)
  ELSE FuAPackets(nalu, size)

FramePacketsUnmarked(sizes, seq) == \* mutant: markers of fragments only
  LET all == FlattenSeq([n \in DOMAIN sizes |-> NaluPackets(n, sizes[n])])
  IN  [i \in DOMAIN all |-> [all[i] EXCEPT !.seq = SeqNumber(seq + i - 1)]]

\* The packets of a frame, numbered from seq, the last one marked.
FramePackets(sizes, seq) ==
  LET all == FlattenSeq([n \in DOMAIN sizes |-> NaluPackets(n, sizes[n])])
  IN  [i \in DOMAIN all |->
        [all[i] EXCEPT !.marker = @ \/ i = Len(all), !.seq = SeqNumber(seq + i - 1)]]
=============================================================================
