-------------------------- MODULE RtpCodecsProofs ---------------------------
(* Proofs about the codecs of core/transport/rtp, for every modulus, MTU,   *)
(* frame and packet.                                                        *)
EXTENDS MCRtpCodecs, H264DepacketizerProofs, RtpFragmentationProofs, FiniteSetTheorems

-----------------------------------------------------------------------------
(* RtpPacket                                                                 *)

\* Two bytes, high byte first, make the number again.
LEMMA U16Splits ==
  ASSUME NEW v \in U16
  PROVE  256 * ((v \div 256) % 256) + (v % 256) = v
<1>1. v \in Nat /\ v <= 65535
  BY SMT DEF U16
<1> QED BY SMT, <1>1

\* ... and so do four.
LEMMA U32Splits ==
  ASSUME NEW v \in U32
  PROVE  16777216 * ((v \div 16777216) % 256) + 65536 * ((v \div 65536) % 256)
           + 256 * ((v \div 256) % 256) + (v % 256) = v
<1>1. v \in Nat /\ v \div 65536 \in U16
  BY SMT DEF U32
<1>2. 256 * (((v \div 65536) \div 256) % 256) + ((v \div 65536) % 256) = v \div 65536
  BY <1>1, U16Splits
<1>3. (v \div 65536) \div 256 = v \div 16777216
  BY SMT, <1>1
<1>4. 65536 * (v \div 65536) + 256 * ((v \div 256) % 256) + (v % 256) = v
  BY SMT, <1>1
<1>5. /\ (v \div 65536) \in Int /\ (v \div 16777216) % 256 \in Int
      /\ (v \div 65536) % 256 \in Int
  BY SMT, <1>1
<1> QED BY SMT, <1>1, <1>2, <1>3, <1>4, <1>5

\* What is written, is bytes.
LEMMA BytesAreBytes ==
  /\ \A v \in U16 : write_u16(v) \in Seq(Byte) /\ Len(write_u16(v)) = 2
  /\ \A v \in U32 : write_u32(v) \in Seq(Byte) /\ Len(write_u32(v)) = 4
<1>1. ASSUME NEW v \in Nat PROVE v % 256 \in Byte
  BY SMT DEF Byte
<1>2. ASSUME NEW v \in Nat, NEW k \in {256, 65536, 16777216} PROVE v \div k \in Nat
  BY SMT
<1>3. ASSUME NEW v \in U16 PROVE write_u16(v) \in Seq(Byte) /\ Len(write_u16(v)) = 2
  <2>1. v \in Nat
    BY SMT DEF U16
  <2>2. (v \div 256) % 256 \in Byte /\ v % 256 \in Byte
    BY <2>1, <1>1, <1>2
  <2> QED BY SMT, <2>2 DEF write_u16
<1>4. ASSUME NEW v \in U32 PROVE write_u32(v) \in Seq(Byte) /\ Len(write_u32(v)) = 4
  <2>1. v \in Nat
    BY SMT DEF U32
  <2>2. /\ (v \div 16777216) % 256 \in Byte /\ (v \div 65536) % 256 \in Byte
        /\ (v \div 256) % 256 \in Byte /\ v % 256 \in Byte
    BY SMT, <2>1, <1>1, <1>2
  <2> QED BY SMT, <2>2 DEF write_u32
<1> QED BY <1>3, <1>4

\* The elements of a sequence with another one after it.
LEMMA Appended ==
  ASSUME NEW s \in Seq(Byte), NEW t \in Seq(Byte)
  PROVE  /\ s \o t \in Seq(Byte) /\ Len(s \o t) = Len(s) + Len(t)
         /\ \A i \in 1 .. Len(s) : (s \o t)[i] = s[i]
         /\ \A i \in 1 .. Len(t) : (s \o t)[Len(s) + i] = t[i]
<1>1. /\ s \o t \in Seq(Byte) /\ Len(s \o t) = Len(s) + Len(t)
      /\ \A i \in 1 .. Len(s) + Len(t) :
           (s \o t)[i] = IF i <= Len(s) THEN s[i] ELSE t[i - Len(s)]
  BY ConcatProperties
<1>2. Len(s) \in Nat /\ Len(t) \in Nat
  BY LenProperties
<1> QED BY SMT, <1>1, <1>2

\* The fields of a packet, as the type of Packets has them.
LEMMA Fields ==
  ASSUME NEW p \in Packets
  PROVE  /\ p.version \in 0 .. 3 /\ p.padding \in 0 .. 1 /\ p.extension \in 0 .. 1
         /\ p.csrc_count \in 0 .. 15 /\ p.marker \in 0 .. 1 /\ p.payload_type \in 0 .. 127
         /\ p.sequence_number \in U16 /\ p.timestamp \in U32 /\ p.ssrc \in U32
         /\ p.payload \in Seq(Byte)
BY DEF Packets

\* The first byte holds four fields, the second two, and neither runs over.
LEMMA FirstByte ==
  ASSUME NEW v \in 0 .. 3, NEW x \in 0 .. 1, NEW e \in 0 .. 1, NEW c \in 0 .. 15
  PROVE  64 * v + 32 * x + 16 * e + c \in Byte
BY SMT DEF Byte

LEMMA SecondByte ==
  ASSUME NEW m \in 0 .. 1, NEW t \in 0 .. 127
  PROVE  128 * m + t \in Byte
BY SMT DEF Byte

\* Where serialize puts each field.
LEMMA Layout ==
  \A p \in Packets : \A w : w = serialize(p) =>
    /\ w \in Seq(Byte) /\ Len(w) = 12 + Len(p.payload)
    /\ w[1] = 64 * p.version + 32 * p.padding + 16 * p.extension + p.csrc_count
    /\ w[2] = 128 * p.marker + p.payload_type
    /\ read_u16(w, 2) = p.sequence_number
    /\ read_u32(w, 4) = p.timestamp /\ read_u32(w, 8) = p.ssrc
    /\ \A i \in 1 .. Len(p.payload) : w[12 + i] = p.payload[i]
<1> TAKE p \in Packets
<1> TAKE w
<1> HAVE w = serialize(p)
<1>0. /\ p.version \in 0 .. 3 /\ p.padding \in 0 .. 1 /\ p.extension \in 0 .. 1
      /\ p.csrc_count \in 0 .. 15 /\ p.marker \in 0 .. 1 /\ p.payload_type \in 0 .. 127
      /\ p.sequence_number \in U16 /\ p.timestamp \in U32 /\ p.ssrc \in U32
      /\ p.payload \in Seq(Byte)
  BY Fields
<1>1. PICK first : first = 64 * p.version + 32 * p.padding + 16 * p.extension + p.csrc_count
  OBVIOUS
<1>2. PICK second : second = 128 * p.marker + p.payload_type
  OBVIOUS
<1>3. PICK a : a = <<first, second>>
  OBVIOUS
<1>4. a \in Seq(Byte) /\ Len(a) = 2 /\ a[1] = first /\ a[2] = second
  <2>1. first \in Byte
    BY Zenon, <1>0, <1>1, FirstByte
  <2>2. second \in Byte
    BY Zenon, <1>0, <1>2, SecondByte
  <2> QED BY SMT, <2>1, <2>2, <1>3
<1>5. PICK b : b = write_u16(p.sequence_number)
  OBVIOUS
<1>6. PICK c : c = write_u32(p.timestamp)
  OBVIOUS
<1>7. PICK d : d = write_u32(p.ssrc)
  OBVIOUS
<1>8. /\ b \in Seq(Byte) /\ Len(b) = 2 /\ c \in Seq(Byte) /\ Len(c) = 4
      /\ d \in Seq(Byte) /\ Len(d) = 4
  BY Zenon, <1>0, <1>5, <1>6, <1>7, BytesAreBytes
<1>9. w = a \o b \o c \o d \o p.payload
  BY Zenon, <1>1, <1>2, <1>3, <1>5, <1>6, <1>7 DEF serialize
<1>10. /\ w \in Seq(Byte) /\ Len(w) = 12 + Len(p.payload)
       /\ \A i \in 1 .. 2 : w[i] = a[i] /\ w[2 + i] = b[i]
       /\ \A i \in 1 .. 4 : w[4 + i] = c[i] /\ w[8 + i] = d[i]
       /\ \A i \in 1 .. Len(p.payload) : w[12 + i] = p.payload[i]
  <2>0. PICK e \in Seq(Byte) : e = p.payload
    BY Zenon, <1>0
  <2>21. PICK ab : ab = a \o b
    OBVIOUS
  <2>22. PICK abc : abc = ab \o c
    OBVIOUS
  <2>23. PICK abcd : abcd = abc \o d
    OBVIOUS
  <2>24. w = abcd \o e
    BY Zenon, <1>9, <2>0, <2>21, <2>22, <2>23
  <2>1. /\ ab \in Seq(Byte) /\ Len(ab) = 2 + Len(b)
        /\ \A i \in 1 .. 2 : ab[i] = a[i]
        /\ \A i \in 1 .. Len(b) : ab[2 + i] = b[i]
    <3>1. /\ a \o b \in Seq(Byte) /\ Len(a \o b) = Len(a) + Len(b)
          /\ \A i \in 1 .. Len(a) : (a \o b)[i] = a[i]
          /\ \A i \in 1 .. Len(b) : (a \o b)[Len(a) + i] = b[i]
      BY Zenon, <1>4, <1>8, Appended
    <3> QED BY Zenon, <1>4, <1>8, <3>1, <2>21
  <2>2. Len(ab) = 4
    BY SMT, <1>4, <1>8, <2>1
  <2>3. /\ abc \in Seq(Byte) /\ Len(abc) = 4 + Len(c)
        /\ \A i \in 1 .. 4 : abc[i] = ab[i]
        /\ \A i \in 1 .. Len(c) : abc[4 + i] = c[i]
    <3>1. /\ ab \o c \in Seq(Byte) /\ Len(ab \o c) = Len(ab) + Len(c)
          /\ \A i \in 1 .. Len(ab) : (ab \o c)[i] = ab[i]
          /\ \A i \in 1 .. Len(c) : (ab \o c)[Len(ab) + i] = c[i]
      BY Zenon, <1>4, <1>8, Appended, <2>1, <2>2
    <3> QED BY Zenon, <1>4, <1>8, <3>1, <2>1, <2>2, <2>22
  <2>4. Len(abc) = 8
    BY SMT, <1>4, <1>8, <2>3
  <2>5. /\ abcd \in Seq(Byte) /\ Len(abcd) = 8 + Len(d)
        /\ \A i \in 1 .. 8 : abcd[i] = abc[i]
        /\ \A i \in 1 .. Len(d) : abcd[8 + i] = d[i]
    <3>1. /\ abc \o d \in Seq(Byte) /\ Len(abc \o d) = Len(abc) + Len(d)
          /\ \A i \in 1 .. Len(abc) : (abc \o d)[i] = abc[i]
          /\ \A i \in 1 .. Len(d) : (abc \o d)[Len(abc) + i] = d[i]
      BY Zenon, <1>4, <1>8, Appended, <2>3, <2>4
    <3> QED BY Zenon, <1>4, <1>8, <3>1, <2>3, <2>4, <2>23
  <2>6. Len(abcd) = 12
    BY SMT, <1>4, <1>8, <2>5
  <2>7. /\ w \in Seq(Byte) /\ Len(w) = 12 + Len(e)
        /\ \A i \in 1 .. 12 : w[i] = abcd[i]
        /\ \A i \in 1 .. Len(e) : w[12 + i] = e[i]
    <3>1. /\ abcd \o e \in Seq(Byte) /\ Len(abcd \o e) = Len(abcd) + Len(e)
          /\ \A i \in 1 .. Len(abcd) : (abcd \o e)[i] = abcd[i]
          /\ \A i \in 1 .. Len(e) : (abcd \o e)[Len(abcd) + i] = e[i]
      BY Zenon, <1>4, <1>8, Appended, <2>5, <2>6
    <3> QED BY Zenon, <1>4, <1>8, <3>1, <2>5, <2>6, <2>24
  <2>8. \A i \in 1 .. 2 : w[i] = a[i]
    BY SMT, <1>4, <1>8, <2>1, <2>3, <2>5, <2>7
  <2>9. \A i \in 1 .. 2 : w[2 + i] = b[i]
    BY SMT, <1>4, <1>8, <2>1, <2>3, <2>5, <2>7
  <2>10. \A i \in 1 .. 4 : w[4 + i] = c[i]
    BY SMT, <1>4, <1>8, <2>3, <2>5, <2>7
  <2>11. \A i \in 1 .. 4 : w[8 + i] = d[i]
    <3> TAKE i \in 1 .. 4
    <3>1. 8 + i \in 1 .. 12
      BY SMT
    <3> QED BY Zenon, <1>4, <1>8, <3>1, <2>5, <2>7
  <2> QED BY Zenon, <2>0, <2>7, <2>8, <2>9, <2>10, <2>11
<1>11. w[1] = a[1] /\ w[2] = a[2] /\ w[3] = b[1] /\ w[4] = b[2]
  BY SMT, <1>10
<1>12. /\ w[5] = c[1] /\ w[6] = c[2] /\ w[7] = c[3] /\ w[8] = c[4]
       /\ w[9] = d[1] /\ w[10] = d[2] /\ w[11] = d[3] /\ w[12] = d[4]
  BY SMT, <1>10
<1>13. read_u16(w, 2) = p.sequence_number
  <2>1. b[1] = (p.sequence_number \div 256) % 256 /\ b[2] = p.sequence_number % 256
    BY SMT, <1>5 DEF write_u16
  <2>2. read_u16(w, 2) = 256 * w[3] + w[4]
    BY SMT DEF read_u16
  <2>3. 256 * b[1] + b[2] = p.sequence_number
    BY SMT, <2>1, <1>0, U16Splits
  <2> QED BY SMT, <2>2, <2>3, <1>11
<1>14. ASSUME NEW v \in U32, NEW s, s = write_u32(v)
       PROVE  16777216 * s[1] + 65536 * s[2] + 256 * s[3] + s[4] = v
  <2>1. /\ s[1] = (v \div 16777216) % 256 /\ s[2] = (v \div 65536) % 256
        /\ s[3] = (v \div 256) % 256 /\ s[4] = v % 256
    BY SMT, <1>14 DEF write_u32
  <2> QED BY SMT, <2>1, U32Splits
<1>15. read_u32(w, 4) = p.timestamp
  <2>1. read_u32(w, 4) = 16777216 * w[5] + 65536 * w[6] + 256 * w[7] + w[8]
    BY SMT DEF read_u32
  <2>2. 16777216 * c[1] + 65536 * c[2] + 256 * c[3] + c[4] = p.timestamp
    BY <1>0, <1>6, <1>14
  <2> QED BY SMT, <2>1, <2>2, <1>12
<1>16. read_u32(w, 8) = p.ssrc
  <2>1. read_u32(w, 8) = 16777216 * w[9] + 65536 * w[10] + 256 * w[11] + w[12]
    BY SMT DEF read_u32
  <2>2. 16777216 * d[1] + 65536 * d[2] + 256 * d[3] + d[4] = p.ssrc
    BY <1>0, <1>7, <1>14
  <2> QED BY SMT, <2>1, <2>2, <1>12
<1> QED BY Zenon, <1>1, <1>2, <1>4, <1>10, <1>11, <1>13, <1>15, <1>16

\* Whatever a packet carries in its fields, its bytes read back are that packet; the
\* object they are read into has no part in it (rtp_packet.cpp:26-84, without the CSRC
\* words, which serialize never writes).
THEOREM ReadBack ==
  \A p \in Packets, into \in Packets : deserialize(into, serialize(p)) = p
<1> SUFFICES ASSUME NEW p \in Packets, NEW into \in Packets
             PROVE  deserialize(into, serialize(p)) = p
  OBVIOUS
<1>0. PICK w : w = serialize(p)
  OBVIOUS
<1>1. /\ w \in Seq(Byte) /\ Len(w) = 12 + Len(p.payload)
      /\ w[1] = 64 * p.version + 32 * p.padding + 16 * p.extension + p.csrc_count
      /\ w[2] = 128 * p.marker + p.payload_type
      /\ read_u16(w, 2) = p.sequence_number
      /\ read_u32(w, 4) = p.timestamp /\ read_u32(w, 8) = p.ssrc
      /\ \A i \in 1 .. Len(p.payload) : w[12 + i] = p.payload[i]
  BY SMT, <1>0, Layout
<1>2. /\ p.version \in 0 .. 3 /\ p.padding \in 0 .. 1 /\ p.extension \in 0 .. 1
      /\ p.csrc_count \in 0 .. 15 /\ p.marker \in 0 .. 1 /\ p.payload_type \in 0 .. 127
      /\ p.payload \in Seq(Byte)
  BY Fields
<1>3. /\ (w[1] \div 64) % 4 = p.version /\ (w[1] \div 32) % 2 = p.padding
      /\ (w[1] \div 16) % 2 = p.extension /\ w[1] % 16 = p.csrc_count
  <2>1. PICK v \in 0 .. 3 : v = p.version
    BY Zenon, <1>2
  <2>2. PICK x \in 0 .. 1 : x = p.padding
    BY Zenon, <1>2
  <2>3. PICK e \in 0 .. 1 : e = p.extension
    BY Zenon, <1>2
  <2>4. PICK c \in 0 .. 15 : c = p.csrc_count
    BY Zenon, <1>2
  <2>5. w[1] = 64 * v + 32 * x + 16 * e + c
    BY Zenon, <1>1, <2>1, <2>2, <2>3, <2>4
  <2>6. (w[1] \div 64) % 4 = v
    BY SMT, <2>5
  <2>7. (w[1] \div 32) % 2 = x
    BY SMT, <2>5
  <2>8. (w[1] \div 16) % 2 = e
    BY SMT, <2>5
  <2>9. w[1] % 16 = c
    BY SMT, <2>5
  <2> QED BY Zenon, <2>1, <2>2, <2>3, <2>4, <2>6, <2>7, <2>8, <2>9
<1>4. (w[2] \div 128) % 2 = p.marker /\ w[2] % 128 = p.payload_type
  <2>1. PICK m \in 0 .. 1 : m = p.marker
    BY Zenon, <1>2
  <2>2. PICK t \in 0 .. 127 : t = p.payload_type
    BY Zenon, <1>2
  <2>3. w[2] = 128 * m + t
    BY Zenon, <1>1, <2>1, <2>2
  <2>4. (w[2] \div 128) % 2 = m /\ w[2] % 128 = t
    BY SMT, <2>3
  <2> QED BY Zenon, <2>1, <2>2, <2>4
<1>5. SubSeq(w, HeaderSize + 1, Len(w)) = p.payload
  <2>1. Len(p.payload) \in Nat
    BY Zenon, <1>2, LenProperties
  <2>2. PICK n \in Nat : n = Len(w) /\ n = 12 + Len(p.payload)
    BY SMT, <1>1, <2>1
  <2>3. PICK t : t = SubSeq(w, 13, n)
    OBVIOUS
  <2>4. /\ t \in Seq(Byte) /\ Len(t) = Len(p.payload)
        /\ \A i \in 1 .. Len(p.payload) : t[i] = w[12 + i]
    BY SMT, <1>1, <2>1, <2>2, <2>3
  <2>5. \A i \in 1 .. Len(t) : t[i] = p.payload[i]
    BY Zenon, <1>1, <2>4
  <2>6. t = p.payload
    BY Zenon, <1>2, <2>4, <2>5, SeqEqual
  <2> QED BY SMT, <2>2, <2>3, <2>6 DEF HeaderSize
<1>6. deserialize(into, w) = Parsed(w)
  <2>1. Len(p.payload) \in Nat
    BY Zenon, <1>2, LenProperties
  <2> QED BY SMT, <2>1, <1>1 DEF deserialize, HeaderSize
<1>7. Parsed(w) =
        [version |-> p.version, padding |-> p.padding, extension |-> p.extension,
         csrc_count |-> p.csrc_count, marker |-> p.marker, payload_type |-> p.payload_type,
         sequence_number |-> p.sequence_number, timestamp |-> p.timestamp,
         ssrc |-> p.ssrc, payload |-> p.payload]
  BY Zenon, <1>1, <1>3, <1>4, <1>5 DEF Parsed
<1>8. p = [version |-> p.version, padding |-> p.padding, extension |-> p.extension,
           csrc_count |-> p.csrc_count, marker |-> p.marker, payload_type |-> p.payload_type,
           sequence_number |-> p.sequence_number, timestamp |-> p.timestamp,
           ssrc |-> p.ssrc, payload |-> p.payload]
  BY DEF Packets
<1> QED BY Zenon, <1>0, <1>6, <1>7, <1>8

-----------------------------------------------------------------------------
(* H264Packetizer                                                            *)

\* What the last call returned are the packets of a frame.
PacketizerInv ==
  /\ m_sequence \in SeqNums
  /\ \/ frame = <<>> /\ packets = <<>>
     \/ frame \in Frames /\ \E seq \in SeqNums : packets = FramePackets(frame, seq)

\* The instance in MCRtpCodecs has its own copies of the operators.
LEMMA SamePackets ==
  /\ \A sizes, seq : Packetizer!FramePackets(sizes, seq) = FramePackets(sizes, seq)
  /\ \A n : Packetizer!SeqNumber(n) = SeqNumber(n) /\ Packetizer!NextSeq(n) = NextSeq(n)
  /\ Packetizer!SeqNums = SeqNums
<1>1. \A n : Packetizer!SeqNumber(n) = SeqNumber(n) /\ Packetizer!NextSeq(n) = NextSeq(n)
  BY DEF Packetizer!SeqNumber, SeqNumber, Packetizer!NextSeq, NextSeq
<1>2. Packetizer!SeqNums = SeqNums
  BY DEF Packetizer!SeqNums, SeqNums
<1>3. \A n, size : Packetizer!NaluPackets(n, size) = NaluPackets(n, size)
  BY DEF Packetizer!NaluPackets, NaluPackets, Packetizer!IsSmall, IsSmall,
         Packetizer!SinglePacket, SinglePacket, Packetizer!FuAPackets, FuAPackets,
         Packetizer!Chunk, Chunk
<1>4. \A seqs : Packetizer!FlattenSeq(seqs) = FlattenSeq(seqs)
  BY DEF Packetizer!FlattenSeq, FlattenSeq
<1>5. \A sizes, seq : Packetizer!FramePackets(sizes, seq) = FramePackets(sizes, seq)
  BY <1>1, <1>3, <1>4 DEF Packetizer!FramePackets, FramePackets
<1> QED BY <1>1, <1>2, <1>5

\* The packets of a frame are those the properties ask for.
LEMMA PacketizerIsRight ==
  PacketizerInv => /\ Packetizer!TypeOK
                   /\ UnitsAreCarriedWhole /\ FragmentsAreProper /\ MarkersEndUnits
<1> SUFFICES ASSUME PacketizerInv
             PROVE  /\ Packetizer!TypeOK
                    /\ UnitsAreCarriedWhole /\ FragmentsAreProper /\ MarkersEndUnits
  OBVIOUS
<1>1. CASE frame = <<>> /\ packets = <<>>
  <2>1. DOMAIN frame = {} /\ DOMAIN packets = {}
    BY <1>1, SMT
  <2> QED BY <1>1, <2>1, SamePackets
          DEF PacketizerInv, Packetizer!TypeOK, UnitsAreCarriedWhole, FragmentsAreProper,
              MarkersEndUnits, Packetizer!UnitsAreCarriedWhole,
              Packetizer!FragmentsAreProper, Packetizer!MarkersEndUnits
<1>2. CASE frame \in Frames /\ \E seq \in SeqNums : packets = FramePackets(frame, seq)
  <2>1. PICK seq \in SeqNums : packets = FramePackets(frame, seq)
    BY <1>2
  <2>2. frame \in Seq(Nat) /\ seq \in Nat
    BY <1>2, FramesAssumption, Numbers
  <2>3. PICK l \in Nat : l = Len(packets) /\ packets \in Seq(Pieces) /\ DOMAIN packets = 1 .. l
    BY <2>1, <2>2, FrameShape
  <2>4. /\ \A i \in 1 .. l : packets[i].seq = SeqNumber(seq + i - 1)
        /\ \A i \in 1 .. l : i = l => packets[i].marker
    BY <2>1, <2>2, <2>3, FrameShape
  <2>5. Carries(packets, frame, Len(frame))
    BY <2>1, <2>2, FrameShape
  <2>6. /\ \A i \in 1 .. l : /\ packets[i].nalu \in 1 .. Len(frame)
                             /\ Sound(packets[i]) /\ InPlace(packets, i, frame)
        /\ \A n \in 1 .. Len(frame) : frame[n] > 0 => \E i \in 1 .. l : packets[i].nalu = n
    BY <2>3, <2>5 DEF Carries
  <2>7. Len(frame) \in Nat /\ DOMAIN frame = 1 .. Len(frame)
    BY <2>2, LenProperties
  <2>8. Packetizer!TypeOK
    <3>1. ASSUME NEW i \in 1 .. l
          PROVE  packets[i].kind \in {"single", "fu"} /\ packets[i].seq \in SeqNums
      <4>1. packets[i] \in Pieces
        BY <2>3, ElementOfSeq
      <4>2. packets[i].kind \in {"single", "fu"}
        BY <4>1 DEF Pieces
      <4>3. seq + i - 1 \in Nat
        BY <2>2
      <4> QED BY <2>4, <4>2, <4>3, Numbers
    <3> QED BY <1>2, <2>3, <2>6, <2>7, <3>1, SamePackets DEF PacketizerInv, Packetizer!TypeOK
  <2>9. FragmentsAreProper
    BY <2>3, <2>6 DEF FragmentsAreProper, Packetizer!FragmentsAreProper, Sound
  <2>10. MarkersEndUnits
    <3>1. packets # <<>> => l \in 1 .. l
      BY <2>3, EmptySeq
    <3> QED BY <2>3, <2>4, <2>6, <3>1
            DEF MarkersEndUnits, Packetizer!MarkersEndUnits, Packetizer!Last, Sound
  <2>11. UnitsAreCarriedWhole
    <3>1. ASSUME NEW i \in 1 .. l
          PROVE  LET p        == packets[i]
                     overhead == IF p.kind = "fu" THEN 2 ELSE 0
                     first    == i = 1 \/ packets[i - 1].nalu # p.nalu
                     last     == i = Len(packets) \/ packets[i + 1].nalu # p.nalu
                 IN  /\ i > 1 => packets[i - 1].nalu <= p.nalu
                     /\ p.start <=> first
                     /\ p.end <=> last
                     /\ p.from = IF first THEN overhead \div 2 ELSE packets[i - 1].to + 1
                     /\ last => p.to = frame[p.nalu] - 1
                     /\ p.from <= p.to
                     /\ overhead + p.to - p.from + 1 <= MaxPayload
      <4>1. Sound(packets[i]) /\ InPlace(packets, i, frame)
        BY <2>6
      <4> QED BY <4>1 DEF Sound, InPlace, First, Final, Overhead
    <3> QED BY <2>3, <2>6, <2>7, <3>1
            DEF UnitsAreCarriedWhole, Packetizer!UnitsAreCarriedWhole
  <2> QED BY <2>8, <2>9, <2>10, <2>11
<1> QED BY <1>1, <1>2 DEF PacketizerInv

\* The next frame is numbered from where the last one ended.
LEMMA PacketizerStep ==
  ASSUME PacketizerInv, Packetizer!Next
  PROVE  /\ PacketizerInv'
         /\ \A i \in DOMAIN packets' :
              i > 1 => packets'[i].seq = Packetizer!NextSeq(packets'[i - 1].seq)
         /\ packets' # <<>> =>
              /\ packets'[1].seq = m_sequence
              /\ m_sequence' = Packetizer!NextSeq(Packetizer!Last(packets').seq)
<1>1. PICK sizes \in Frames :
        /\ frame' = sizes
        /\ packets' = FramePackets(sizes, m_sequence)
        /\ m_sequence' = SeqNumber(m_sequence + Len(packets'))
  BY SamePackets DEF Packetizer!Next, Packetizer!packetize_frame
<1>2. sizes \in Seq(Nat) /\ m_sequence \in SeqNums /\ m_sequence \in Nat
  BY FramesAssumption, Numbers DEF PacketizerInv
<1>3. PICK ps : ps = packets'
  OBVIOUS
<1>4. PICK l \in Nat : l = Len(ps) /\ DOMAIN ps = 1 .. l /\ ps \in Seq(Pieces)
  BY <1>1, <1>2, <1>3, FrameShape
<1>5. \A i \in 1 .. l : ps[i].seq = SeqNumber(m_sequence + i - 1)
  BY <1>1, <1>2, <1>3, <1>4, FrameShape
<1>6. m_sequence' \in SeqNums /\ m_sequence' = SeqNumber(m_sequence + l)
  <2>1. m_sequence + l \in Nat
    BY <1>2
  <2> QED BY <1>1, <1>3, <1>4, <2>1, Numbers
<1>7. PacketizerInv'
  BY <1>1, <1>2, <1>6, SamePackets DEF PacketizerInv, SeqNums
<1>8. ASSUME NEW i \in 1 .. l, i > 1 PROVE ps[i].seq = NextSeq(ps[i - 1].seq)
  <2>1. PICK n \in Nat : n = m_sequence + i - 2 /\ n + 1 = m_sequence + i - 1
    BY <1>2, <1>8
  <2>2. i - 1 \in 1 .. l /\ m_sequence + (i - 1) - 1 = n
    BY <1>2, <1>8, <2>1
  <2>3. ps[i].seq = SeqNumber(n + 1) /\ ps[i - 1].seq = SeqNumber(n)
    BY <1>5, <2>1, <2>2
  <2> QED BY <2>3, Numbers
<1>9. ASSUME ps # <<>> PROVE ps[1].seq = m_sequence /\ m_sequence' = NextSeq(ps[l].seq)
  <2>1. 1 \in 1 .. l /\ l \in 1 .. l
    BY <1>4, <1>9, EmptySeq
  <2>2. m_sequence + 1 - 1 = m_sequence
    BY <1>2
  <2>3. ps[1].seq = m_sequence
    BY <1>2, <1>5, <2>1, <2>2, Numbers
  <2>4. PICK n \in Nat : n = m_sequence + l - 1 /\ n + 1 = m_sequence + l
    BY <1>2, <2>1
  <2>5. ps[l].seq = SeqNumber(n)
    BY <1>5, <2>1, <2>4
  <2>6. m_sequence' = NextSeq(ps[l].seq)
    BY <1>6, <2>4, <2>5, Numbers
  <2> QED BY <2>3, <2>6
<1> QED BY <1>3, <1>4, <1>7, <1>8, <1>9, SamePackets DEF Packetizer!Last

-----------------------------------------------------------------------------
(* AnnexB: From is a recursive function. What holds of the units from the end  *)
(* of a frame on, and from each start code if it does from the next, holds of  *)
(* them all.                                                                   *)

\* Three and four bytes, spelled out.
Short(b, n, i) == i + 3 <= n /\ b[i] = 0 /\ b[i + 1] = 0 /\ b[i + 2] = 1
Long(b, n, i) == i + 4 <= n /\ b[i] = 0 /\ b[i + 1] = 0 /\ b[i + 2] = 0 /\ b[i + 3] = 1

LEMMA CodesSpelled ==
  ASSUME NEW b, NEW n \in Nat, NEW i \in Nat
  PROVE  /\ Matches(b, n, i, <<0, 0, 1>>) <=> Short(b, n, i)
         /\ Matches(b, n, i, <<0, 0, 0, 1>>) <=> Long(b, n, i)
<1>1. Matches(b, n, i, <<0, 0, 1>>) <=> Short(b, n, i)
  <2>1. PICK c : c = <<0, 0, 1>> /\ Len(c) = 3 /\ c[1] = 0 /\ c[2] = 0 /\ c[3] = 1
    <3>1. /\ Len(<<0, 0, 1>>) = 3
          /\ <<0, 0, 1>>[1] = 0 /\ <<0, 0, 1>>[2] = 0 /\ <<0, 0, 1>>[3] = 1
      OBVIOUS
    <3> QED BY <3>1, Zenon
  <2>2. Matches(b, n, i, c) <=> i + 3 <= n /\ \A k \in 1 .. 3 : b[i + k - 1] = c[k]
    BY <2>1, Zenon DEF Matches
  <2>3. /\ \A k \in 1 .. 3 : k = 1 \/ k = 2 \/ k = 3
        /\ 1 \in 1 .. 3 /\ 2 \in 1 .. 3 /\ 3 \in 1 .. 3
        /\ i + 1 - 1 = i /\ i + 2 - 1 = i + 1 /\ i + 3 - 1 = i + 2
    OBVIOUS
  <2>4. (\A k \in 1 .. 3 : b[i + k - 1] = c[k]) <=> b[i] = 0 /\ b[i + 1] = 0 /\ b[i + 2] = 1
    BY <2>1, <2>3, Zenon
  <2> QED BY <2>1, <2>2, <2>4, Zenon DEF Short
<1>2. Matches(b, n, i, <<0, 0, 0, 1>>) <=> Long(b, n, i)
  <2>1. PICK c : /\ c = <<0, 0, 0, 1>> /\ Len(c) = 4
                 /\ c[1] = 0 /\ c[2] = 0 /\ c[3] = 0 /\ c[4] = 1
    <3>1. /\ Len(<<0, 0, 0, 1>>) = 4
          /\ <<0, 0, 0, 1>>[1] = 0 /\ <<0, 0, 0, 1>>[2] = 0
          /\ <<0, 0, 0, 1>>[3] = 0 /\ <<0, 0, 0, 1>>[4] = 1
      OBVIOUS
    <3> QED BY <3>1, Zenon
  <2>2. Matches(b, n, i, c) <=> i + 4 <= n /\ \A k \in 1 .. 4 : b[i + k - 1] = c[k]
    BY <2>1, Zenon DEF Matches
  <2>3. /\ \A k \in 1 .. 4 : k = 1 \/ k = 2 \/ k = 3 \/ k = 4
        /\ 1 \in 1 .. 4 /\ 2 \in 1 .. 4 /\ 3 \in 1 .. 4 /\ 4 \in 1 .. 4
        /\ i + 1 - 1 = i /\ i + 2 - 1 = i + 1 /\ i + 3 - 1 = i + 2 /\ i + 4 - 1 = i + 3
    OBVIOUS
  <2>4. (\A k \in 1 .. 4 : b[i + k - 1] = c[k])
          <=> b[i] = 0 /\ b[i + 1] = 0 /\ b[i + 2] = 0 /\ b[i + 3] = 1
    BY <2>1, <2>3, Zenon
  <2> QED BY <2>1, <2>2, <2>4, Zenon DEF Long
<1> QED BY <1>1, <1>2

\* A start code at i of c bytes.
CodeAt(b, n, i, c) == (c = 4 /\ Long(b, n, i)) \/ (c = 3 /\ Short(b, n, i))

LEMMA CodeSizes ==
  ASSUME NEW b, NEW n \in Nat, NEW i \in Nat
  PROVE  LET c == StartCodeSize(b, n, i) IN
         /\ c \in {0, 3, 4}
         /\ c = 0 <=> ~Short(b, n, i) /\ ~Long(b, n, i)
         /\ c # 0 => CodeAt(b, n, i, c) /\ c \in 3 .. 4 /\ i + c <= n
<1>1. StartCodeSize(b, n, i) = IF Long(b, n, i) THEN 4 ELSE IF Short(b, n, i) THEN 3 ELSE 0
  BY CodesSpelled, Zenon DEF StartCodeSize
<1>2. Long(b, n, i) => i + 4 <= n
  BY DEF Long
<1>3. Short(b, n, i) => i + 3 <= n
  BY DEF Short
<1> QED BY <1>1, <1>2, <1>3 DEF CodeAt

\* Offsets at which a start code of three bytes begins.
LEMMA CodesAreShort ==
  ASSUME NEW b, NEW n \in Nat
  PROVE  \A d : d \in Codes(b, n) <=> d \in Nat /\ Short(b, n, d)
<1>1. ASSUME NEW d \in Codes(b, n) PROVE d \in Nat /\ Short(b, n, d)
  <2>1. d \in 0 .. n - 3 /\ Matches(b, n, d, <<0, 0, 1>>)
    BY DEF Codes
  <2>2. d \in Nat
    BY <2>1
  <2> QED BY <2>1, <2>2, CodesSpelled, Zenon
<1>2. ASSUME NEW d \in Nat, Short(b, n, d) PROVE d \in Codes(b, n)
  <2>1. d \in 0 .. n - 3
    BY <1>2 DEF Short
  <2>2. Matches(b, n, d, <<0, 0, 1>>)
    BY <1>2, CodesSpelled, Zenon
  <2> QED BY <2>1, <2>2 DEF Codes
<1> QED BY <1>1, <1>2

\* From i on: to where the next start code is.
Ends(b, n, i, e) ==
  /\ e \in i .. n
  /\ e = n \/ StartCodeSize(b, n, e) > 0
  /\ \A k \in i .. e - 1 : StartCodeSize(b, n, k) = 0

LEMMA NextExists ==
  ASSUME NEW b, NEW n \in Nat, NEW i \in 0 .. n
  PROVE  Ends(b, n, i, NextStartCode(b, n, i))
<1> DEFINE T == {j \in i .. n : j = n \/ StartCodeSize(b, n, j) > 0}
           R == OpToRel(<, Nat)
<1>1. IsWellFoundedOn(R, Nat)
  BY NatLessThanWellFounded
<1>2. \A m, k \in Nat : <<k, m>> \in R <=> k < m
  BY DEF OpToRel
<1>3. T \subseteq Nat /\ n \in T
  OBVIOUS
<1> HIDE DEF R
<1>4. PICK m \in T : \A k \in T : ~(<<k, m>> \in R)
  BY <1>1, <1>3, WFMin
<1>5. ASSUME NEW k \in i .. m - 1 PROVE StartCodeSize(b, n, k) = 0
  <2>1. k \in Nat /\ m \in Nat /\ k < m /\ k \in i .. n /\ k # n
    BY <1>3
  <2>2. ~(k \in T)
    BY <1>2, <1>4, <2>1
  <2>3. ~(StartCodeSize(b, n, k) > 0)
    BY <2>1, <2>2
  <2>4. StartCodeSize(b, n, k) \in {0, 3, 4}
    BY <2>1, CodeSizes
  <2> QED BY <2>3, <2>4
<1>6. Ends(b, n, i, m)
  BY <1>4, <1>5 DEF Ends
<1>7. \E j \in i .. n : /\ j = n \/ StartCodeSize(b, n, j) > 0
                        /\ \A k \in i .. j - 1 : StartCodeSize(b, n, k) = 0
  BY <1>6, Zenon DEF Ends
<1> QED BY <1>7, Zenon DEF Ends, NextStartCode

\* A start code and what follows it, to the next: the bytes of the code are in one, those
\* that follow are in none, not even in the next.
LEMMA BetweenCodes ==
  ASSUME NEW b, NEW n \in Nat, NEW i \in Nat, NEW c \in 3 .. 4, CodeAt(b, n, i, c),
         NEW e, Ends(b, n, i + c, e)
  PROVE  /\ \A k \in i .. i + c - 1 : InStartCode(b, n, k)
         /\ \A k \in i + c .. e - 1 : ~InStartCode(b, n, k)
<1>1. e \in i + c .. n /\ e \in Nat
  BY DEF Ends
<1>2. PICK d \in Nat : /\ Short(b, n, d) /\ d = (i + c) - 3
                       /\ c = 4 => d = i + 1 /\ b[i] = 0
                       /\ c = 3 => d = i
  <2>1. CASE c = 3
    BY <2>1 DEF CodeAt
  <2>2. CASE c = 4
    <3>1. Long(b, n, i)
      BY <2>2 DEF CodeAt
    <3>2. Short(b, n, i + 1)
      BY <3>1 DEF Long, Short
    <3> QED BY <2>2, <3>1, <3>2 DEF Long
  <2> QED BY <2>1, <2>2
<1>3. ASSUME NEW k \in i .. i + c - 1 PROVE InStartCode(b, n, k)
  <2>1. d \in Codes(b, n)
    BY <1>2, CodesAreShort
  <2>2. k \in d .. d + 2 \/ (k = d - 1 /\ b[k] = 0)
    <3>1. CASE c = 3
      BY <1>2, <3>1
    <3>2. CASE c = 4 /\ k = i
      BY <1>2, <3>2
    <3>3. CASE c = 4 /\ k # i
      BY <1>2, <3>3
    <3> QED BY <3>1, <3>2, <3>3
  <2> QED BY <2>1, <2>2 DEF InStartCode
<1>4. ASSUME NEW k \in i + c .. e - 1, InStartCode(b, n, k) PROVE FALSE
  <2>1. PICK f \in Codes(b, n) : k \in f .. f + 2 \/ (k = f - 1 /\ b[k] = 0)
    BY <1>4 DEF InStartCode
  <2>2. f \in Nat /\ Short(b, n, f)
    BY CodesAreShort
  <2>3. b[f] = 0 /\ b[f + 1] = 0 /\ f + 3 <= n /\ b[f + 2] = 1
    BY <2>2 DEF Short
  <2>4. b[d] = 0 /\ b[d + 1] = 0 /\ b[d + 2] = 1
    BY <1>2 DEF Short
  <2>5. ~(f \in i + c .. e - 1)
    <3>1. ASSUME f \in i + c .. e - 1 PROVE FALSE
      <4>1. StartCodeSize(b, n, f) = 0
        BY <3>1 DEF Ends
      <4> QED BY <2>2, <4>1, CodeSizes
    <3> QED BY <3>1
  <2>6. CASE f >= e
    <3>1. f = e /\ k = e - 1 /\ k + 1 = f /\ k \in Nat
      BY <1>1, <2>1, <2>2, <2>6
    <3>2. b[k] = 0
      BY <2>1, <2>2, <3>1
    <3>3. Long(b, n, k)
      <4>1. k + 2 = f + 1 /\ k + 3 = f + 2 /\ k + 4 <= n
        BY <2>2, <2>3, <3>1
      <4> QED BY <2>3, <3>1, <3>2, <4>1, Zenon DEF Long
    <3>4. StartCodeSize(b, n, k) = 0
      BY DEF Ends
    <3> QED BY <3>1, <3>3, <3>4, CodeSizes
  <2>7. CASE f < i + c
    <3>1. f = d + 1 \/ f = d + 2
      BY <1>2, <2>1, <2>2, <2>7
    <3>2. CASE f = d + 1
      <4>1. f + 1 = d + 2
        BY <3>2
      <4> QED BY <2>3, <2>4, <4>1
    <3>3. CASE f = d + 2
      BY <2>3, <2>4, <3>3
    <3> QED BY <3>1, <3>2, <3>3
  <2> QED BY <1>1, <2>2, <2>5, <2>6, <2>7
<1> QED BY <1>3, <1>4

FromStep(b, n, g, i) ==
  LET code == StartCodeSize(b, n, i)
      end  == NextStartCode(b, n, i + code)
  IN  IF code = 0 THEN <<>>
      ELSE IF end > i + code THEN << [from |-> i + code, to |-> end - 1] >> \o g[end]
      ELSE g[end]

FromOn(b, n, m, g) == g = [i \in m .. n |-> FromStep(b, n, g, i)]

\* A step at a start code depends on the result at the next one.
LEMMA StepAtCode ==
  ASSUME NEW b, NEW n \in Nat, NEW i \in 0 .. n, StartCodeSize(b, n, i) # 0
  PROVE  \E c \in 3 .. 4, e \in i + 1 .. n :
           /\ c = StartCodeSize(b, n, i) /\ CodeAt(b, n, i, c) /\ Ends(b, n, i + c, e)
           /\ \A g : FromStep(b, n, g, i) =
                       IF e > i + c THEN << [from |-> i + c, to |-> e - 1] >> \o g[e] ELSE g[e]
<1>1. PICK c \in 3 .. 4 : c = StartCodeSize(b, n, i) /\ CodeAt(b, n, i, c) /\ i + c <= n
  <2>1. i \in Nat
    OBVIOUS
  <2> QED BY <2>1, CodeSizes
<1>2. PICK j \in 0 .. n : j = i + c
  BY <1>1
<1>3. PICK e : e = NextStartCode(b, n, i + c) /\ Ends(b, n, i + c, e)
  BY <1>2, NextExists, Zenon
<1>4. e \in i + 1 .. n
  <2>1. e \in i + c .. n
    BY <1>3 DEF Ends
  <2> QED BY <2>1
<1>5. c # 0
  BY <1>1
<1>6. ASSUME NEW g
      PROVE  FromStep(b, n, g, i) =
               IF e > i + c THEN << [from |-> i + c, to |-> e - 1] >> \o g[e] ELSE g[e]
  BY <1>1, <1>3, <1>5, Zenon DEF FromStep
<1> QED BY <1>1, <1>3, <1>4, <1>6, Zenon

LEMMA StepLooksOn ==
  ASSUME NEW b, NEW n \in Nat, NEW i \in 0 .. n, NEW g, NEW h,
         \A j \in i + 1 .. n : g[j] = h[j]
  PROVE  FromStep(b, n, g, i) = FromStep(b, n, h, i)
<1>1. CASE StartCodeSize(b, n, i) = 0
  BY <1>1, Zenon DEF FromStep
<1>2. CASE StartCodeSize(b, n, i) # 0
  <2>1. PICK c \in 3 .. 4, e \in i + 1 .. n :
          \A q : FromStep(b, n, q, i) =
                  IF e > i + c THEN << [from |-> i + c, to |-> e - 1] >> \o q[e] ELSE q[e]
    BY <1>2, StepAtCode, Zenon
  <2>2. g[e] = h[e]
    OBVIOUS
  <2> QED BY <2>1, <2>2, Zenon
<1> QED BY <1>1, <1>2

LEMMA FromExists ==
  ASSUME NEW b, NEW n \in Nat
  PROVE  \E g : FromOn(b, n, 0, g)
<1> DEFINE S == {k \in Nat : k <= n => \E g : FromOn(b, n, n - k, g)}
<1>1. StartCodeSize(b, n, n) = 0
  BY CodeSizes
<1>2. 0 \in S
  <2>1. PICK g : g = [i \in n .. n |-> <<>>]
    OBVIOUS
  <2>2. \A i \in n .. n : FromStep(b, n, g, i) = <<>>
    BY <1>1 DEF FromStep
  <2>3. g = [i \in n .. n |-> FromStep(b, n, g, i)]
    BY <2>1, <2>2
  <2>4. n - 0 = n
    OBVIOUS
  <2> QED BY <2>3, <2>4 DEF FromOn
<1>3. ASSUME NEW k \in S PROVE k + 1 \in S
  <2> SUFFICES ASSUME k + 1 <= n PROVE \E g : FromOn(b, n, n - (k + 1), g)
    OBVIOUS
  <2>1. PICK m \in 0 .. n : m = n - (k + 1) /\ n - k = m + 1 /\ k <= n
    <3>1. k \in Nat /\ n - (k + 1) \in 0 .. n /\ n - k = (n - (k + 1)) + 1
      OBVIOUS
    <3> QED BY <3>1
  <2>2. PICK g : FromOn(b, n, m + 1, g)
    BY <2>1
  <2>3. PICK h : h = [i \in m .. n |-> IF i = m THEN FromStep(b, n, g, m) ELSE g[i]]
    OBVIOUS
  <2>4. \A i \in m + 1 .. n : h[i] = g[i]
    <3>1. \A i \in m + 1 .. n : i \in m .. n /\ i # m
      OBVIOUS
    <3> QED BY <2>3, <3>1
  <2>5. ASSUME NEW i \in m .. n PROVE FromStep(b, n, g, i) = FromStep(b, n, h, i)
    <3>1. i \in 0 .. n /\ \A j \in i + 1 .. n : j \in m + 1 .. n
      OBVIOUS
    <3>2. \A j \in i + 1 .. n : g[j] = h[j]
      BY <2>4, <3>1
    <3> QED BY <3>1, <3>2, StepLooksOn
  <2>6. \A i \in m + 1 .. n : g[i] = FromStep(b, n, g, i)
    BY <2>2 DEF FromOn
  <2>7. \A i \in m .. n : h[i] = FromStep(b, n, h, i)
    <3>1. ASSUME NEW i \in m .. n PROVE h[i] = FromStep(b, n, g, i)
      <4>1. i = m \/ i \in m + 1 .. n
        OBVIOUS
      <4> QED BY <2>3, <2>6, <4>1
    <3> QED BY <2>5, <3>1
  <2>8. FromOn(b, n, m, h)
    BY <2>3, <2>7 DEF FromOn
  <2> QED BY <2>1, <2>8
<1>4. S = Nat
  <2>1. S \in SUBSET Nat
    OBVIOUS
  <2> HIDE DEF S
  <2> QED BY <1>2, <1>3, <2>1, AllNumbers
<1>5. \E g : FromOn(b, n, n - n, g)
  <2>1. n \in S
    <3> HIDE DEF S
    <3> QED BY <1>4
  <2>2. n <= n
    OBVIOUS
  <2> QED BY <2>1, <2>2, Zenon
<1>6. n - n = 0
  OBVIOUS
<1> QED BY <1>5, <1>6

\* The units of the frame from i on.
Units == [from : Nat, to : Nat]
InUnit(us, k) == \E u \in 1 .. Len(us) : k \in us[u].from .. us[u].to

DividesFrom(b, n, i, us) ==
  /\ us \in Seq(Units)
  /\ \A k \in i .. n - 1 : InStartCode(b, n, k) <=> ~InUnit(us, k)
  /\ \A u \in 1 .. Len(us) :
       /\ us[u].from <= us[u].to /\ us[u].from > i
       /\ InStartCode(b, n, us[u].from - 1)
       /\ u > 1 => us[u - 1].to < us[u].from

LEMMA OneMoreUnit ==
  ASSUME NEW b, NEW n \in Nat, NEW i \in Nat, NEW c \in 3 .. 4, CodeAt(b, n, i, c),
         NEW e, Ends(b, n, i + c, e), NEW us, DividesFrom(b, n, e, us)
  PROVE  DividesFrom(b, n, i, IF e > i + c
                              THEN << [from |-> i + c, to |-> e - 1] >> \o us ELSE us)
<1>1. e \in i + c .. n /\ e \in Nat /\ e > i
  BY DEF Ends
<1>2. /\ \A k \in i .. i + c - 1 : InStartCode(b, n, k)
      /\ \A k \in i + c .. e - 1 : ~InStartCode(b, n, k)
  BY BetweenCodes
<1>3. PICK l \in Nat : l = Len(us)
  BY LenProperties DEF DividesFrom
<1>4. \A u \in 1 .. l : us[u] \in Units
  BY <1>3, ElementOfSeq DEF DividesFrom
<1>5. \A u \in 1 .. l : us[u].from \in Nat /\ us[u].to \in Nat /\ us[u].from > e
  BY <1>3, <1>4 DEF DividesFrom, Units
<1>6. \A k \in i .. e : ~InUnit(us, k)
  <2> SUFFICES ASSUME NEW k \in i .. e, NEW u \in 1 .. l, k \in us[u].from .. us[u].to
               PROVE  FALSE
    BY <1>3 DEF InUnit
  <2> QED BY <1>1, <1>5
<1>7. CASE ~(e > i + c)
  <2>1. e = i + c
    BY <1>1, <1>7
  <2>2. ASSUME NEW k \in i .. n - 1 PROVE InStartCode(b, n, k) <=> ~InUnit(us, k)
    <3>1. k \in i .. i + c - 1 \/ k \in e .. n - 1
      BY <1>1, <2>1
    <3>2. CASE k \in i .. i + c - 1
      <4>1. k \in i .. e
        BY <2>1, <3>2
      <4> QED BY <1>2, <1>6, <3>2, <4>1
    <3> QED BY <3>1, <3>2 DEF DividesFrom
  <2>3. \A u \in 1 .. Len(us) : us[u].from > i
    <3>1. \A u \in 1 .. l : us[u].from > i
      BY <1>1, <1>5
    <3> QED BY <1>3, <3>1
  <2> QED BY <1>7, <2>2, <2>3 DEF DividesFrom
<1>8. CASE e > i + c
  <2>1. PICK x : x = [from |-> i + c, to |-> e - 1]
    OBVIOUS
  <2>2. x \in Units /\ x.from = i + c /\ x.to = e - 1
    BY <1>1, <1>8, <2>1 DEF Units
  <2>3. PICK ws : ws = <<x>> \o us
    OBVIOUS
  <2>4. ws \in Seq(Units) /\ Len(ws) = l + 1 /\ ws[1] = x /\ \A u \in 1 .. l : ws[u + 1] = us[u]
    <3>1. /\ <<x>> \in Seq(Units) /\ Len(<<x>>) = 1 /\ <<x>>[1] = x
      BY <2>2
    <3>2. PICK T : T = Units
      OBVIOUS
    <3>3. PICK y : y = <<x>> /\ y \in Seq(T) /\ Len(y) = 1 /\ y[1] = x
      BY <3>1, <3>2, Zenon
    <3>4. us \in Seq(T) /\ Len(us) = l
      BY <1>3, <3>2 DEF DividesFrom
    <3>5. /\ ws \in Seq(T) /\ Len(ws) = Len(y) + Len(us)
          /\ \A u \in 1 .. Len(y) + Len(us) :
               ws[u] = IF u <= Len(y) THEN y[u] ELSE us[u - Len(y)]
      BY <2>3, <3>3, <3>4, ConcatProperties
    <3>6. Len(ws) = l + 1
      BY <3>3, <3>4, <3>5
    <3>7. ws[1] = x
      BY <3>3, <3>4, <3>5
    <3>8. ASSUME NEW u \in 1 .. l PROVE ws[u + 1] = us[u]
      <4>1. u + 1 \in 1 .. 1 + l /\ ~(u + 1 <= 1) /\ (u + 1) - 1 = u
        OBVIOUS
      <4> QED BY <3>3, <3>4, <3>5, <4>1, Zenon
    <3> QED BY <3>2, <3>5, <3>6, <3>7, <3>8
  <2>5. \A u \in 1 .. l + 1 : u = 1 \/ (u - 1 \in 1 .. l /\ ws[u] = us[u - 1])
    <3>1. ASSUME NEW u \in 1 .. l + 1, u # 1 PROVE u - 1 \in 1 .. l /\ ws[u] = us[u - 1]
      <4>1. PICK v \in 1 .. l : v = u - 1 /\ u = v + 1
        BY <3>1
      <4> QED BY <2>4, <4>1
    <3> QED BY <3>1
  <2>6. ASSUME NEW k \in Int PROVE InUnit(ws, k) <=> k \in i + c .. e - 1 \/ InUnit(us, k)
    <3>1. ASSUME NEW u \in 1 .. l + 1, k \in ws[u].from .. ws[u].to
          PROVE  k \in i + c .. e - 1 \/ InUnit(us, k)
      <4>1. CASE u = 1
        BY <2>2, <2>4, <3>1, <4>1
      <4>2. CASE u # 1
        <5>1. PICK v \in 1 .. l : ws[u] = us[v]
          BY <2>5, <4>2
        <5>2. k \in us[v].from .. us[v].to
          BY <3>1, <5>1
        <5> QED BY <1>3, <5>2 DEF InUnit
      <4> QED BY <4>1, <4>2
    <3>2. ASSUME k \in i + c .. e - 1 PROVE InUnit(ws, k)
      <4>1. k \in ws[1].from .. ws[1].to /\ 1 \in 1 .. Len(ws)
        BY <2>2, <2>4, <3>2
      <4> QED BY <4>1, Zenon DEF InUnit
    <3>3. ASSUME InUnit(us, k) PROVE InUnit(ws, k)
      <4>1. PICK u \in 1 .. l : k \in us[u].from .. us[u].to
        BY <1>3, <3>3 DEF InUnit
      <4>2. u + 1 \in 1 .. Len(ws) /\ ws[u + 1] = us[u]
        BY <2>4
      <4> QED BY <4>1, <4>2 DEF InUnit
    <3> QED BY <2>4, <3>1, <3>2, <3>3, Zenon DEF InUnit
  <2>7. ASSUME NEW k \in i .. n - 1 PROVE InStartCode(b, n, k) <=> ~InUnit(ws, k)
    <3>0. k \in Int
      OBVIOUS
    <3>1. k \in i .. i + c - 1 \/ k \in i + c .. e - 1 \/ k \in e .. n - 1
      BY <1>1
    <3>2. CASE k \in i .. i + c - 1
      <4>1. k \in i .. e /\ ~(k \in i + c .. e - 1)
        BY <1>1, <3>2
      <4> QED BY <1>2, <1>6, <2>6, <3>0, <3>2, <4>1
    <3>3. CASE k \in i + c .. e - 1
      BY <1>2, <2>6, <3>0, <3>3
    <3>4. CASE k \in e .. n - 1
      <4>1. ~(k \in i + c .. e - 1)
        BY <1>1, <3>4
      <4>2. InStartCode(b, n, k) <=> ~InUnit(us, k)
        BY <3>4 DEF DividesFrom
      <4> QED BY <2>6, <3>0, <4>1, <4>2
    <3> QED BY <3>1, <3>2, <3>3, <3>4
  <2>8. ASSUME NEW u \in 1 .. l + 1
        PROVE  /\ ws[u].from <= ws[u].to /\ ws[u].from > i
               /\ InStartCode(b, n, ws[u].from - 1)
               /\ u > 1 => ws[u - 1].to < ws[u].from
    <3>1. CASE u = 1
      <4>1. x.from <= x.to /\ x.from > i
        BY <1>1, <1>8, <2>2
      <4>2. x.from - 1 = i + c - 1 /\ i + c - 1 \in i .. i + c - 1
        BY <2>2
      <4>3. InStartCode(b, n, x.from - 1)
        BY <1>2, <4>2
      <4> QED BY <2>4, <3>1, <4>1, <4>3
    <3>2. CASE u # 1
      <4>1. PICK v \in 1 .. l : v = u - 1 /\ ws[u] = us[v]
        BY <2>5, <3>2
      <4>2. us[v].from <= us[v].to /\ us[v].from > i
        <5>1. us[v].from <= us[v].to
          BY <1>3 DEF DividesFrom
        <5> QED BY <1>1, <1>5, <5>1
      <4>3. InStartCode(b, n, us[v].from - 1)
        BY <1>3 DEF DividesFrom
      <4>4. ws[v].to < us[v].from
        <5>1. CASE v = 1
          <6>1. us[v].from \in Nat /\ us[v].from > e
            BY <1>5
          <6> QED BY <1>1, <2>2, <2>4, <5>1, <6>1
        <5>2. CASE v # 1
          <6>1. ws[v] = us[v - 1]
            BY <2>5, <5>2
          <6>2. us[v - 1].to < us[v].from
            <7>1. v > 1
              BY <5>2
            <7> QED BY <1>3, <7>1 DEF DividesFrom
          <6> QED BY <6>1, <6>2
        <5> QED BY <5>1, <5>2
      <4> QED BY <4>1, <4>2, <4>3, <4>4
    <3> QED BY <3>1, <3>2
  <2>9. DividesFrom(b, n, i, ws)
    BY <2>4, <2>7, <2>8 DEF DividesFrom
  <2> QED BY <1>8, <2>1, <2>3, <2>9
<1> QED BY <1>7, <1>8

\* For every frame of every size (h264_packetizer.cpp:109-161).
THEOREM EveryFrameIsDivided ==
  ASSUME NEW b, NEW n \in Nat, StartCodeSize(b, n, 0) > 0
  PROVE  DividesFrame(b, n, extract_nalus(b, n))
<1> DEFINE f == CHOOSE g : FromOn(b, n, 0, g)
<1>1. FromOn(b, n, 0, f)
  BY FromExists
<1>2. extract_nalus(b, n) = IF n < 4 THEN <<>> ELSE f[0]
  BY DEF extract_nalus, FromOn, FromStep
<1> HIDE DEF f
<1>3. \A i \in 0 .. n : f[i] = FromStep(b, n, f, i)
  BY <1>1 DEF FromOn
<1> DEFINE Found(i) == i = n \/ StartCodeSize(b, n, i) > 0
           S == {k \in Nat : \A i \in 0 .. n :
                   i >= n - k /\ Found(i) => DividesFrom(b, n, i, f[i])}
<1>4. DividesFrom(b, n, n, <<>>)
  <2>1. <<>> \in Seq(Units) /\ Len(<<>>) = 0
    BY EmptySeq
  <2> QED BY <2>1 DEF DividesFrom
<1>5. 0 \in S
  <2>1. StartCodeSize(b, n, n) = 0
    BY CodeSizes
  <2>2. f[n] = <<>>
    <3>1. f[n] = FromStep(b, n, f, n)
      BY <1>3
    <3> QED BY <2>1, <3>1, Zenon DEF FromStep
  <2>3. \A i \in 0 .. n : i >= n - 0 => i = n
    OBVIOUS
  <2> QED BY <1>4, <2>2, <2>3
<1>6. ASSUME NEW k \in S PROVE k + 1 \in S
  <2> SUFFICES ASSUME NEW i \in 0 .. n, i >= n - (k + 1), Found(i)
               PROVE  DividesFrom(b, n, i, f[i])
    OBVIOUS
  <2>1. CASE i = n
    <3>1. i >= n - k
      BY <2>1
    <3> QED BY <3>1
  <2>2. CASE StartCodeSize(b, n, i) > 0
    <3>1. StartCodeSize(b, n, i) # 0
      BY <2>2
    <3>2. PICK c \in 3 .. 4, e \in i + 1 .. n :
            /\ CodeAt(b, n, i, c) /\ Ends(b, n, i + c, e)
            /\ \A g : FromStep(b, n, g, i) =
                        IF e > i + c THEN << [from |-> i + c, to |-> e - 1] >> \o g[e] ELSE g[e]
      BY <3>1, StepAtCode, Zenon
    <3>3. e \in 0 .. n /\ e >= n - k
      OBVIOUS
    <3>4. Found(e)
      BY <3>2, Zenon DEF Ends
    <3>5. DividesFrom(b, n, e, f[e])
      BY <3>3, <3>4
    <3>6. i \in Nat
      OBVIOUS
    <3>7. DividesFrom(b, n, i, IF e > i + c
                               THEN << [from |-> i + c, to |-> e - 1] >> \o f[e] ELSE f[e])
      BY <3>2, <3>5, <3>6, OneMoreUnit, Zenon
    <3> QED BY <1>3, <3>2, <3>7, Zenon
  <2> QED BY <2>1, <2>2
<1>7. S = Nat
  <2>1. S \in SUBSET Nat
    OBVIOUS
  <2> HIDE DEF S
  <2> QED BY <1>5, <1>6, <2>1, AllNumbers
<1>8. DividesFrom(b, n, 0, f[0])
  <2>1. n \in S /\ 0 \in 0 .. n /\ 0 >= n - n
    BY <1>7
  <2> QED BY <2>1
<1>9. CASE n < 4
  <2>1. n = 3 /\ Short(b, n, 0)
    BY <1>9, CodeSizes DEF CodeAt, Short, Long
  <2>2. 0 \in Codes(b, n)
    BY <2>1, CodesAreShort
  <2>3. \A k \in 0 .. n - 1 : InStartCode(b, n, k)
    BY <2>1, <2>2 DEF InStartCode
  <2>4. DOMAIN <<>> = {}
    OBVIOUS
  <2> QED BY <1>2, <1>9, <2>3, <2>4, Zenon DEF DividesFrame
<1>10. CASE ~(n < 4)
  <2>1. PICK us : us = f[0] /\ extract_nalus(b, n) = us
    BY <1>2, <1>10
  <2>2. us \in Seq(Units)
    BY <1>8, <2>1 DEF DividesFrom
  <2>3. DOMAIN us = 1 .. Len(us)
    BY <2>2, LenProperties
  <2>4. /\ \A k \in 0 .. n - 1 : InStartCode(b, n, k) <=> ~InUnit(us, k)
        /\ \A u \in 1 .. Len(us) :
             /\ us[u].from <= us[u].to
             /\ InStartCode(b, n, us[u].from - 1)
             /\ u > 1 => us[u - 1].to < us[u].from
    BY <1>8, <2>1, Zenon DEF DividesFrom
  <2> QED BY <2>1, <2>3, <2>4, Zenon DEF DividesFrame, InUnit
<1> QED BY <1>9, <1>10

-----------------------------------------------------------------------------
(* All of them                                                               *)

PacketsInv == written \in Packets /\ object \in Packets

ScannerInv ==
  /\ bytes = <<>> \/ bytes \in MCBytes
  /\ nalus = extract_nalus(bytes, SizeOf(bytes))

CodecsInv ==
  /\ SessionsInv /\ UnitsAreFramed /\ TypeOK
  /\ PacketizerInv
  /\ PacketsInv
  /\ ScannerInv

\* The provers take 0 .. 65535 for a list of numbers unless its end has a name.
LEMMA InU16 ==
  ASSUME NEW x \in Nat, x <= 65535
  PROVE  x \in U16
<1> DEFINE top == 65535
<1>1. top \in Nat /\ x <= top
  BY SMT
<1>2. U16 = 0 .. top
  BY DEF U16
<1> HIDE DEF top
<1>3. x \in 0 .. top
  BY SMT, <1>1
<1> QED BY <1>2, <1>3

LEMMA BlankIsPacket == Blank \in Packets
<1>1. 305419896 \in U32 /\ 0 \in U32
  <2>1. 0 \in Nat /\ 0 <= 65535
    BY SMT
  <2>2. 0 \in U16
    BY <2>1, InU16
  <2>3. 305419896 \div 65536 = 4660 /\ 0 \div 65536 = 0 /\ 305419896 \in Nat
    BY SMT
  <2>4. 4660 \in Nat /\ 4660 <= 65535
    BY SMT
  <2>5. 4660 \in U16
    BY <2>4, InU16
  <2> QED BY SMT, <2>2, <2>3, <2>5 DEF U32
<1>2. <<>> \in Seq(Byte)
  BY EmptySeq
<1>3. 0 \in U16
  <2>1. 0 \in Nat /\ 0 <= 65535
    BY SMT
  <2> QED BY <2>1, InU16
<1> QED BY SMT, <1>1, <1>2, <1>3 DEF Blank, Packets

\* The length of a vector is that of the frame.
LEMMA NoBytes == SizeOf(<<>>) = 0
<1>1. DOMAIN <<>> = {}
  OBVIOUS
<1> QED BY <1>1, FS_EmptySet, Zenon DEF SizeOf

LEMMA SizeOfBytes ==
  ASSUME NEW b \in MCBytes
  PROVE  SizeOf(b) \in Nat
<1>1. PICK n \in 1 .. 8 : b \in [0 .. n - 1 -> {0, 1, 2}]
  BY DEF MCBytes
<1>2. DOMAIN b = 0 .. n - 1
  BY <1>1
<1>3. Cardinality(0 .. n - 1) = n
  <2>1. 0 \in Int /\ n - 1 \in Int /\ ~(0 > n - 1) /\ (n - 1) - 0 + 1 = n
    OBVIOUS
  <2> QED BY <2>1, FS_Interval
<1> QED BY <1>2, <1>3 DEF SizeOf

LEMMA CodecsStart == MCInit => CodecsInv
<1> SUFFICES ASSUME MCInit PROVE CodecsInv
  OBVIOUS
<1>1. SessionsInv /\ UnitsAreFramed /\ TypeOK
  BY DepacketizerStarts DEF MCInit
<1>2. PacketizerInv
  BY Numbers DEF MCInit, Packetizer!Init, PacketizerInv
<1>3. PacketsInv
  BY BlankIsPacket DEF MCInit, PacketsInv
<1>4. ScannerInv
  <2>1. bytes = <<>> /\ nalus = <<>>
    BY DEF MCInit
  <2>2. SizeOf(bytes) = 0
    BY <2>1, NoBytes
  <2>3. 0 < 4
    OBVIOUS
  <2>4. extract_nalus(bytes, 0) = <<>>
    BY <2>3, Zenon DEF extract_nalus
  <2> QED BY <2>1, <2>2, <2>4, Zenon DEF ScannerInv
<1> QED BY <1>1, <1>2, <1>3, <1>4 DEF CodecsInv

LEMMA RtpStep ==
  ASSUME PacketsInv, RtpHop
  PROVE  PacketsInv'
<1>1. PICK p \in WrittenPackets : written' = p /\ object' = deserialize(object, serialize(p))
  BY DEF RtpHop
<1>2. p \in Packets
  BY WrittenPacketsAssumption
<1>3. object' = p
  BY <1>1, <1>2, ReadBack DEF PacketsInv
<1> QED BY <1>1, <1>2, <1>3 DEF PacketsInv

LEMMA CodecsStep == CodecsInv /\ [MCNext]_codec_vars => CodecsInv'
<1> SUFFICES ASSUME CodecsInv, [MCNext]_codec_vars PROVE CodecsInv'
  OBVIOUS
<1>1. [Next]_vars \/ UNCHANGED vars
  BY DEF MCNext, Packetize, Depacketize, Scan, RtpHop, RtcpHop, codec_vars, Next
<1>2. SessionsInv' /\ UnitsAreFramed'
  BY <1>1, FramedStep DEF CodecsInv
<1>3. TypeOK'
  BY <1>1, <1>2, TypeStep DEF CodecsInv
<1>4. PacketizerInv'
  <2>1. CASE Packetize
    BY <2>1, PacketizerStep DEF CodecsInv, Packetize
  <2>2. CASE UNCHANGED packetizer_vars
    BY <2>2 DEF CodecsInv, PacketizerInv, packetizer_vars
  <2> QED BY <2>1, <2>2 DEF MCNext, Depacketize, Scan, RtpHop, RtcpHop, codec_vars
<1>5. PacketsInv'
  <2>1. CASE RtpHop
    BY <2>1, RtpStep DEF CodecsInv
  <2>2. CASE UNCHANGED rtp_vars
    BY <2>2 DEF CodecsInv, PacketsInv, rtp_vars
  <2> QED BY <2>1, <2>2 DEF MCNext, Packetize, Depacketize, Scan, RtcpHop, codec_vars
<1>6. ScannerInv'
  <2>1. CASE Scan
    BY <2>1 DEF ScannerInv, Scan
  <2>2. CASE UNCHANGED scanner_vars
    BY <2>2 DEF CodecsInv, ScannerInv, scanner_vars
  <2> QED BY <2>1, <2>2 DEF MCNext, Packetize, Depacketize, RtpHop, RtcpHop, codec_vars
<1> QED BY <1>2, <1>3, <1>4, <1>5, <1>6 DEF CodecsInv

LEMMA CodecsAlways == MCSpec => []CodecsInv
BY CodecsStart, CodecsStep, PTL DEF MCSpec

\* The packetizer's numbers, sizes and units and the depacketizer's sessions and counters
\* are what they are declared as.
THEOREM CodecsAreTyped == MCSpec => []CodecsTypeOK
<1>1. CodecsInv => CodecsTypeOK
  BY PacketizerIsRight DEF CodecsInv, CodecsTypeOK
<1> QED BY <1>1, CodecsAlways, PTL

\* Whatever sizes the units of a frame have and whatever room the MTU leaves: each byte
\* that is to be sent is in one packet, in order (h264_packetizer.cpp:24-104).
THEOREM AllIsCarried == MCSpec => []UnitsAreCarriedWhole
<1>1. CodecsInv => UnitsAreCarriedWhole
  BY PacketizerIsRight DEF CodecsInv
<1> QED BY <1>1, CodecsAlways, PTL

\* A unit that does not fit a packet never becomes one fragment
\* (h264_packetizer.cpp:76-88).
THEOREM FragmentsAreAlwaysProper == MCSpec => []FragmentsAreProper
<1>1. CodecsInv => FragmentsAreProper
  BY PacketizerIsRight DEF CodecsInv
<1> QED BY <1>1, CodecsAlways, PTL

\* Each marker is on the end of a unit, and each frame ends with one
\* (h264_packetizer.cpp:38-41, 97).
THEOREM MarkersAlwaysEndUnits == MCSpec => []MarkersEndUnits
<1>1. CodecsInv => MarkersEndUnits
  BY PacketizerIsRight DEF CodecsInv
<1> QED BY <1>1, CodecsAlways, PTL

\* No number is left out or given twice, from packet to packet and frame to frame,
\* over the wrap (h264_packetizer.cpp:49, 79).
THEOREM NumbersAlwaysRunOn == MCSpec => NumbersRunOn
<1> DEFINE RunOn == /\ \A i \in DOMAIN packets' :
                         i > 1 => packets'[i].seq = Packetizer!NextSeq(packets'[i - 1].seq)
                    /\ packets' # <<>> =>
                         /\ packets'[1].seq = m_sequence
                         /\ m_sequence' = Packetizer!NextSeq(Packetizer!Last(packets').seq)
<1>1. CodecsInv /\ [MCNext]_codec_vars => [RunOn]_(Packetizer!vars)
  <2> SUFFICES ASSUME CodecsInv, [MCNext]_codec_vars
               PROVE  RunOn \/ UNCHANGED Packetizer!vars
    OBVIOUS
  <2>1. CASE Packetize
    BY <2>1, PacketizerStep DEF CodecsInv, Packetize
  <2>2. CASE UNCHANGED packetizer_vars
    BY <2>2 DEF packetizer_vars, Packetizer!vars
  <2> QED BY <2>1, <2>2 DEF MCNext, Depacketize, Scan, RtpHop, RtcpHop, codec_vars
<1> QED BY <1>1, CodecsAlways, PTL DEF MCSpec, NumbersRunOn, Packetizer!NumbersRunOn

\* Every RTP packet is read back as it was written, and one cut short changes nothing
\* (rtp_packet.cpp:26-84).
THEOREM PacketsAlwaysComeBack == MCSpec => []PacketsComeBack
<1>1. PacketsInv => PacketsComeBack
  <2> SUFFICES ASSUME PacketsInv PROVE ComesBack(written, object)
    BY DEF PacketsComeBack
  <2>1. deserialize(object, serialize(written)) = written
    BY ReadBack DEF PacketsInv
  <2>2. ASSUME NEW n \in 0 .. HeaderSize - 1
        PROVE  deserialize(object, SubSeq(serialize(written), 1, n)) = object
    <3>1. PICK w \in Seq(Byte) : w = serialize(written) /\ Len(w) = 12 + Len(written.payload)
      BY Layout DEF PacketsInv
    <3>2. Len(written.payload) \in Nat
      BY LenProperties DEF PacketsInv, Packets
    <3>3. n \in 0 .. 11 /\ \A i \in 1 .. n : w[i] \in Byte
      BY <3>1, <3>2, ElementOfSeq DEF HeaderSize
    <3>4. Len(SubSeq(w, 1, n)) = n
      BY <3>3, SubSeqProperties
    <3> QED BY <3>1, <3>3, <3>4 DEF deserialize, HeaderSize
  <2> QED BY <2>1, <2>2 DEF ComesBack
<1>2. CodecsInv => PacketsInv
  BY DEF CodecsInv
<1> QED BY <1>1, <1>2, CodecsAlways, PTL

\* Wherever start codes, zeros and the end of a frame meet: each byte is in a start code
\* or in one unit (h264_packetizer.cpp:109-161).
THEOREM FramesAreAlwaysDivided == MCSpec => []FramesAreDivided
<1>1. ScannerInv => FramesAreDivided
  <2> SUFFICES ASSUME ScannerInv, StartCodeSize(bytes, SizeOf(bytes), 0) > 0
               PROVE  DividesFrame(bytes, SizeOf(bytes), nalus)
    BY DEF FramesAreDivided
  <2>1. SizeOf(bytes) \in Nat
    BY NoBytes, SizeOfBytes DEF ScannerInv
  <2>2. DividesFrame(bytes, SizeOf(bytes), extract_nalus(bytes, SizeOf(bytes)))
    BY <2>1, EveryFrameIsDivided
  <2> QED BY <2>2 DEF ScannerInv
<1>2. CodecsInv => ScannerInv
  BY DEF CodecsInv
<1> QED BY <1>1, <1>2, CodecsAlways, PTL
=============================================================================
