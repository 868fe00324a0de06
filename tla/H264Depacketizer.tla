-------------------------- MODULE H264Depacketizer --------------------------
(***************************************************************************)
(* core/transport/rtp/h264_depacketizer.cpp: packets in, NAL units out.    *)
(* A packet is a record [pos, seq, kind, start, end]: pos tells packets    *)
(* apart, the code reads only the rest.  A unit is the sequence of the     *)
(* positions whose payloads were put together.                             *)
(***************************************************************************)
EXTENDS RtpSequence, SequencesExt

CONSTANT RtpPackets \* the packets that may be processed

Kinds == {"invalid",  \* not version 2, or no payload
          "single",
          "fu",
          "fu_short"} \* an FU indicator and nothing after it

ASSUME RtpPacketsAssumption ==
  RtpPackets \subseteq [pos: Nat, seq: SeqNums, kind: Kinds, start: BOOLEAN, end: BOOLEAN]
ASSUME PositionsAssumption == \A p, q \in RtpPackets : p.pos = q.pos => p = q

VARIABLES
  m_fu_sessions,        \* sequence number -> [started, payload], a partial function
  m_expected_sequence,
  m_lost_packets,
  m_reordered_packets,
  m_complete_frames,
  units                 \* result of the last process_packet

stats == <<m_expected_sequence, m_lost_packets, m_reordered_packets>>
vars == <<m_fu_sessions, m_complete_frames, units, stats>>

Sessions == DOMAIN m_fu_sessions

NewSession == [started |-> FALSE, payload |-> <<>>] \* FuState's initializers

Init ==
  /\ m_fu_sessions = [s \in {} |-> NewSession]
  /\ m_expected_sequence = 0
  /\ m_lost_packets = 0
  /\ m_reordered_packets = 0
  /\ m_complete_frames = 0
  /\ units = <<>>

-----------------------------------------------------------------------------
LostIn(diff) == IF diff > 1 THEN diff - 1 ELSE 0

ExpectsTheMissing(seq) == \* mutant: after a gap it goes on expecting what is missing
  LET diff == SeqDistance(m_expected_sequence, seq)
  IN  /\ m_reordered_packets' = m_reordered_packets + (IF diff = 0 THEN 0 ELSE 1)
      /\ m_lost_packets' = m_lost_packets + LostIn(diff)
      /\ m_expected_sequence' = IF diff = 0 THEN NextSeq(seq) ELSE m_expected_sequence

ExpectsUnwrapped(seq) == \* mutant: neither number is cast back to uint16_t
  /\ m_reordered_packets' =
       m_reordered_packets + (IF seq = m_expected_sequence THEN 0 ELSE 1)
  /\ m_lost_packets' = m_lost_packets + LostIn(seq - m_expected_sequence)
  /\ m_expected_sequence' = seq + 1

update_statistics(seq) ==
  LET diff == SeqDistance(m_expected_sequence, seq)
  IN  /\ m_reordered_packets' = m_reordered_packets + (IF diff = 0 THEN 0 ELSE 1)
      /\ m_lost_packets' = m_lost_packets + LostIn(diff)
      /\ m_expected_sequence' = NextSeq(seq)

Emit(unit) ==
  /\ units' = <<unit>>
  /\ m_complete_frames' = m_complete_frames + 1

EmitNothing == units' = <<>> /\ UNCHANGED m_complete_frames

Invalid(pkt) ==
  /\ pkt.kind = "invalid"
  /\ EmitNothing
  /\ UNCHANGED <<m_fu_sessions, stats>>

SingleNalu(pkt) ==
  /\ pkt.kind = "single"
  /\ update_statistics(pkt.seq)
  /\ Emit(<<pkt.pos>>)
  /\ UNCHANGED m_fu_sessions

ShortFu(pkt) ==
  /\ pkt.kind = "fu_short"
  /\ update_statistics(pkt.seq)
  /\ EmitNothing
  /\ UNCHANGED m_fu_sessions

\* The session a fragment belongs to: looked up by the fragment's own number,
\* created if there is none.
Session(seq) == IF seq \in Sessions THEN m_fu_sessions[seq] ELSE NewSession

Stored(seq, state) ==
  [s \in Sessions \cup {seq} |-> IF s = seq THEN state ELSE m_fu_sessions[s]]

OpenedOver(pkt) == \* mutant: no payload.clear()
  [Session(pkt.seq) EXCEPT !.started = @ \/ pkt.start]
Opened(pkt) ==
  IF pkt.start THEN [started |-> TRUE, payload |-> <<>>] ELSE Session(pkt.seq)

Fragment(pkt) ==
  LET opened == Opened(pkt)
      grown  == [opened EXCEPT !.payload = Append(@, pkt.pos)]
  IN  /\ pkt.kind = "fu"
      /\ update_statistics(pkt.seq)
      /\ \/ /\ ~opened.started \* discarded; the session it created stays
            /\ EmitNothing
            /\ m_fu_sessions' = Stored(pkt.seq, opened)
         \/ /\ opened.started /\ ~pkt.end
            /\ EmitNothing
            /\ m_fu_sessions' = Stored(pkt.seq, grown)
         \/ /\ opened.started /\ pkt.end
            /\ Emit(grown.payload)
            /\ m_fu_sessions' = [s \in Sessions \ {pkt.seq} |-> m_fu_sessions[s]]

process_packet(pkt) ==
  Invalid(pkt) \/ SingleNalu(pkt) \/ ShortFu(pkt) \/ Fragment(pkt)

reset ==
  /\ m_fu_sessions' = [s \in {} |-> NewSession]
  /\ m_expected_sequence' = 0
  /\ m_lost_packets' = 0
  /\ m_reordered_packets' = 0
  /\ m_complete_frames' = 0
  /\ UNCHANGED units

Next == (\E pkt \in RtpPackets : process_packet(pkt)) \/ reset

Spec == Init /\ [][Next]_vars

-----------------------------------------------------------------------------
\* The shape of the state.
TypeOK ==
  /\ Sessions \subseteq SeqNums
  /\ \A s \in Sessions : /\ m_fu_sessions[s].started \in BOOLEAN
                         /\ \A i \in DOMAIN m_fu_sessions[s].payload :
                              m_fu_sessions[s].payload[i] \in Nat
  /\ m_expected_sequence \in SeqNums
  /\ {m_lost_packets, m_reordered_packets, m_complete_frames} \subseteq Nat
  /\ Len(units) <= 1

\* The packet at a position of the stream.
PacketAt(pos) == CHOOSE pkt \in RtpPackets : pkt.pos = pos

\* Whatever arrives, and in whatever order, a unit handed over is either one
\* single-unit packet or fragments of which exactly the first is a start and
\* exactly the last an end (h264_depacketizer.cpp:72-106): a unit never begins in
\* the middle, runs past its end or keeps what an abandoned one left behind.
UnitsAreFramed ==
  \A n \in DOMAIN units :
    LET unit == units[n]
    IN  \/ Len(unit) = 1 /\ PacketAt(unit[1]).kind = "single"
        \/ \A i \in DOMAIN unit :
             LET pkt == PacketAt(unit[i])
             IN  /\ pkt.kind = "fu"
                 /\ pkt.start <=> i = 1
                 /\ pkt.end <=> i = Len(unit)

\* README.md:183, "RTP: FU-A": the fragment after the one that is
\* waiting for it, by number, joins it.
FragmentsJoin ==
  [][\A pkt \in RtpPackets :
       /\ process_packet(pkt)
       /\ pkt.kind = "fu" /\ ~pkt.start
       /\ PrevSeq(pkt.seq) \in Sessions
       /\ m_fu_sessions[PrevSeq(pkt.seq)].started
       => \/ units' # <<>>
          \/ \E s \in Sessions' : Len(m_fu_sessions'[s].payload) > 1]_vars
=============================================================================
