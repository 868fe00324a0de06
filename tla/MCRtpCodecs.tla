---------------------------- MODULE MCRtpCodecs -----------------------------
(* The codecs of core/transport/rtp, each on its own: which one a behaviour *)
(* is about is chosen at its start, and the others stay as they are.        *)
EXTENDS H264Depacketizer, RtpFragmentation, AnnexB, RtpPacket, RtcpPacket

CONSTANTS
  MaxStats,     \* the depacketizer stops after so many packets counted lost or
  MaxUnits,     \* reordered, so many units complete,
  MaxFragments, \* or so many fragments in one session
  WrittenPackets, \* the RTP packets that are written and read back
  Payloads        \* the sizes of what is added to an RTCP report

ASSUME WrittenPacketsAssumption == WrittenPackets \subseteq Packets
ASSUME PayloadsAssumption == Payloads \subseteq Nat

VARIABLES
  codec,                      \* the codec of this behaviour
  m_sequence, frame, packets, \* H264Packetizer
  bytes, nalus,               \* argument and result of extract_nalus
  written, object,            \* an RTP packet and the object that reads it
  report, reader              \* an RTCP report and the object that reads it

Packetizer == INSTANCE H264Packetizer

packetizer_vars == <<m_sequence, frame, packets>>
scanner_vars == <<bytes, nalus>>
rtp_vars == <<written, object>>
rtcp_vars == <<report, reader>>
codec_vars == <<codec, vars, packetizer_vars, scanner_vars, rtp_vars, rtcp_vars>>

-----------------------------------------------------------------------------
\* Frames of up to three units, of one byte to four fragments; none is empty,
\* extract_nalus drops those.
MCSizes == 1 .. 3 * MaxPayload
MCFrames == {<<>>} \cup { <<a>> : a \in MCSizes } \cup { <<a, b>> : a, b \in MCSizes }
              \cup { <<1, 1, b>> : b \in MCSizes }

\* Two laps of the sequence numbers and more. First lap: a unit in three
\* fragments, then a whole unit. Second lap: a unit in two fragments whose
\* numbers were those of a start and of a middle, a start, and a damaged one.
Shape(kind, start, end) == [kind |-> kind, start |-> start, end |-> end]
Shapes == << Shape("fu", TRUE, FALSE), Shape("fu", FALSE, FALSE),
             Shape("fu", FALSE, TRUE), Shape("single", FALSE, FALSE),
             Shape("fu", FALSE, FALSE), Shape("fu", FALSE, TRUE),
             Shape("fu", TRUE, FALSE), Shape("fu_short", FALSE, FALSE),
             Shape("fu", FALSE, TRUE), Shape("fu", TRUE, FALSE),
             Shape("invalid", FALSE, FALSE) >>
MCPackets ==
  { [pos |-> i - 1, seq |-> (i - 1) % SeqSpace] @@ Shapes[i] : i \in DOMAIN Shapes }

\* Frames of up to eight bytes: zeros, ones, and a byte that is neither
MCBytes == UNION { [0 .. size - 1 -> {0, 1, 2}] : size \in 1 .. 8 }
SizeOf(b) == Cardinality(DOMAIN b)

\* Every combination of header bits at their limits, and of numbers at those of
\* their bytes
Blank == [version |-> 2, padding |-> 0, extension |-> 0, csrc_count |-> 0, marker |-> 0,
          payload_type |-> 96, sequence_number |-> 0, timestamp |-> 0,
          ssrc |-> 305419896, payload |-> <<>>]
MCRtpPackets ==
  { [Blank EXCEPT !.version = v, !.padding = x, !.extension = e, !.csrc_count = c,
                  !.marker = m, !.payload_type = t, !.payload = <<1, 2>>] :
      v \in {0, 2, 3}, x, e, m \in {0, 1}, c \in {0, 1, 15}, t \in {0, 96, 127} }
  \cup
  { [Blank EXCEPT !.sequence_number = s, !.timestamp = t, !.payload = p] :
      s \in {1, 255, 256, 65535}, t \in {255, 65535, 65536, 16777216, 2147483647},
      p \in {<<>>, <<0, 255>>} }

\* Payloads whose length fields are 1 and 2, a byte's last and first, a mirror image
MCPayloads == {0, 3, 4, 1016, 1020, 1024}

-----------------------------------------------------------------------------
MCInit ==
  /\ codec \in {"packetizer", "depacketizer", "scanner", "rtp", "rtcp"}
  /\ Init
  /\ Packetizer!Init
  /\ bytes = <<>>
  /\ nalus = <<>>
  /\ written = Blank
  /\ object = Blank
  /\ report = NewReport(200, <<18, 52, 86, 120>>)
  /\ reader = NewReport(201, <<0, 0, 0, 0>>)

Packetize ==
  /\ codec = "packetizer"
  /\ Packetizer!Next
  /\ UNCHANGED <<codec, vars, scanner_vars, rtp_vars, rtcp_vars>>

Depacketize ==
  /\ codec = "depacketizer"
  /\ \/ /\ m_lost_packets + m_reordered_packets < MaxStats
        /\ m_complete_frames < MaxUnits
        /\ \A s \in Sessions : Len(m_fu_sessions[s].payload) < MaxFragments
        /\ Next
     \/ reset
  /\ UNCHANGED <<codec, packetizer_vars, scanner_vars, rtp_vars, rtcp_vars>>

Scan ==
  /\ codec = "scanner"
  /\ \/ bytes = <<>> /\ bytes' \in MCBytes
     \/ bytes # <<>> /\ bytes' = <<>>
  /\ nalus' = extract_nalus(bytes', SizeOf(bytes'))
  /\ UNCHANGED <<codec, vars, packetizer_vars, rtp_vars, rtcp_vars>>

RtpHop ==
  /\ codec = "rtp"
  /\ \E p \in WrittenPackets :
       /\ written' = p
       /\ object' = deserialize(object, serialize(p))
  /\ UNCHANGED <<codec, vars, packetizer_vars, scanner_vars, rtcp_vars>>

RtcpHop ==
  /\ codec = "rtcp"
  /\ \/ /\ report.payload < 8
        /\ \E n \in Payloads : report' = add_payload(report, n)
        /\ UNCHANGED reader
     \/ /\ reader' = DeserializeReport(reader, SerializeReport(report))
        /\ UNCHANGED report
  /\ UNCHANGED <<codec, vars, packetizer_vars, scanner_vars, rtp_vars>>

MCNext == Packetize \/ Depacketize \/ Scan \/ RtpHop \/ RtcpHop
MCSpec == MCInit /\ [][MCNext]_codec_vars

-----------------------------------------------------------------------------
\* The shape of the state of both the packetizer and the depacketizer.
CodecsTypeOK == TypeOK /\ Packetizer!TypeOK

\* The packetizer's properties, stated in H264Packetizer.
UnitsAreCarriedWhole == Packetizer!UnitsAreCarriedWhole
FragmentsAreProper == Packetizer!FragmentsAreProper
MarkersEndUnits == Packetizer!MarkersEndUnits
NumbersRunOn == Packetizer!NumbersRunOn

\* The scanner divides every frame that begins with a start code without loss
\* (DividesFrame, in AnnexB): h264_packetizer.cpp:109-161.
FramesAreDivided ==
  StartCodeSize(bytes, SizeOf(bytes), 0) > 0 => DividesFrame(bytes, SizeOf(bytes), nalus)

\* An RTP packet is read back as it was written (ComesBack, in
\* RtpPacket): rtp_packet.cpp:26-84.
PacketsComeBack == codec = "rtp" => ComesBack(written, object)

\* The length a report is sent with is in network byte order (KeepsNetworkOrder, in
\* RtcpPacket): rtcp.cpp:53-56.
LengthInNetworkOrder ==
  codec = "rtcp" => KeepsNetworkOrder(report, SerializeReport(report))
=============================================================================
