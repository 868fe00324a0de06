----------------------------- MODULE RtcpPacket -----------------------------
(***************************************************************************)
(* core/transport/rtp/rtcp.cpp: an RTCP packet to bytes and back, on a     *)
(* little-endian host.  A report is a record; its m_ssrc is the four bytes *)
(* of the number, high first, and its m_payload how many bytes it has.     *)
(***************************************************************************)
EXTENDS Integers, Sequences, SequencesExt

\* RtcpPacket's constructor: a header of length 0 and no payload
NewReport(type, ssrc) ==
  [version |-> 2, padding |-> 0, count |-> 0, type |-> type, length |-> 0,
   ssrc |-> ssrc, payload |-> 0]

\* The length is in words of 32 bits, the one of the SSRC included.
add_payload(r, n) ==
  [r EXCEPT !.payload = @ + n, !.length = ((r.payload + n + 4) \div 4) % 65536]

\* htons and htonl have reversed the bytes before they are shifted out high first.
SerializeReport(r) ==
  [head |-> << 64 * r.version + 32 * r.padding + r.count, r.type,
               r.length % 256, r.length \div 256 >> \o Reverse(r.ssrc),
   payload |-> r.payload]

\* The bytes assign() takes: from offset 8 on. A length of 0 gives a size_t of
\* 2^64 - 4, to which 8 is added: the comparison passes and the range ends
\* before it begins.
PayloadSize(length) == length * 4 - 4
Undefined == -1
AssignedPayload(old, length, size) ==
  IF size < 8 + PayloadSize(length) THEN old
  ELSE IF PayloadSize(length) < 0 THEN Undefined
  ELSE PayloadSize(length)

\* The packet object r after it has read a datagram of at least 8 bytes
DeserializeReport(r, d) ==
  LET length == 256 * d.head[3] + d.head[4]
  IN  [version |-> (d.head[1] \div 64) % 4, padding |-> (d.head[1] \div 32) % 2,
       count |-> d.head[1] % 32, type |-> d.head[2], length |-> length,
       ssrc |-> SubSeq(d.head, 5, 8),
       payload |-> AssignedPayload(r.payload, length, 8 + d.payload)]

\* The length of a report as who keeps to the network's byte order reads it in datagram d
\* is the writer's (rtcp.cpp:53, "network byte order").
KeepsNetworkOrder(r, d) == 256 * d.head[3] + d.head[4] = r.length
=============================================================================
