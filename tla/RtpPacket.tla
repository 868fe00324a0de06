----------------------------- MODULE RtpPacket ------------------------------
(***************************************************************************)
(* core/transport/rtp/rtp_packet.cpp: an RTP packet to bytes and back.  A  *)
(* packet is a record of its header fields and its payload; a datagram is  *)
(* a sequence of bytes.                                                    *)
(***************************************************************************)
EXTENDS Integers, Sequences

Byte == 0 .. 255
U16 == 0 .. 65535
U32 == {v \in Nat : v \div 65536 \in U16}

\* RtpHeader's bit fields and RtpPacket's payload
Packets ==
  [version: 0 .. 3, padding: 0 .. 1, extension: 0 .. 1, csrc_count: 0 .. 15,
   marker: 0 .. 1, payload_type: 0 .. 127,
   sequence_number: U16, timestamp: U32, ssrc: U32, payload: Seq(Byte)]

\* write_u16, write_u32: the high byte first
write_u16(v) == << (v \div 256) % 256, v % 256 >>
write_u32(v) ==
  << (v \div 16777216) % 256, (v \div 65536) % 256, (v \div 256) % 256, v % 256 >>

\* read_u16, read_u32, at a 0-based offset
read_u16(d, offset) == 256 * d[offset + 1] + d[offset + 2]
read_u32(d, offset) ==
  16777216 * d[offset + 1] + 65536 * d[offset + 2] + 256 * d[offset + 3] + d[offset + 4]

HeaderSize == 12

Serialize7BitMarker(p) == \* mutant: the marker is not moved to its bit
  << 64 * p.version + 32 * p.padding + 16 * p.extension + p.csrc_count,
     p.marker + p.payload_type >>
    \o write_u16(p.sequence_number) \o write_u32(p.timestamp) \o write_u32(p.ssrc)
    \o p.payload

serialize(p) ==
  << 64 * p.version + 32 * p.padding + 16 * p.extension + p.csrc_count,
     128 * p.marker + p.payload_type >>
    \o write_u16(p.sequence_number) \o write_u32(p.timestamp) \o write_u32(p.ssrc)
    \o p.payload

\* Without the csrc_count words, an extension or padding being told from the payload
Parsed(d) ==
  [version |-> (d[1] \div 64) % 4, padding |-> (d[1] \div 32) % 2,
   extension |-> (d[1] \div 16) % 2, csrc_count |-> d[1] % 16,
   marker |-> (d[2] \div 128) % 2, payload_type |-> d[2] % 128,
   sequence_number |-> read_u16(d, 2), timestamp |-> read_u32(d, 4),
   ssrc |-> read_u32(d, 8), payload |-> SubSeq(d, HeaderSize + 1, Len(d))]

\* The packet object after deserialize: a datagram too short is refused and leaves
\* it as it was.
deserialize(p, d) == IF Len(d) < HeaderSize THEN p ELSE Parsed(d)

\* What is written is read back, into whatever packet object, for every field at its
\* limits; a header cut short changes nothing (rtp_packet.cpp:26-84).
ComesBack(p, object) ==
  /\ deserialize(object, serialize(p)) = p
  /\ \A n \in 0 .. HeaderSize - 1 : deserialize(object, SubSeq(serialize(p), 1, n)) = object
=============================================================================
