----------------------- MODULE H264DepacketizerProofs -----------------------
(* Proofs about H264Depacketizer for every modulus and every set of packets. *)
EXTENDS H264Depacketizer, SequenceTheorems, TLAPS

\* Packets taken by position are the packets themselves.
LEMMA PacketAtItsPosition ==
  ASSUME NEW pkt \in RtpPackets
  PROVE  /\ PacketAt(pkt.pos) = pkt
         /\ pkt.pos \in Nat /\ pkt.seq \in SeqNums /\ pkt.kind \in Kinds
         /\ pkt.start \in BOOLEAN /\ pkt.end \in BOOLEAN
<1>1. \E p \in RtpPackets : p.pos = pkt.pos
  OBVIOUS
<1>2. PacketAt(pkt.pos) \in RtpPackets /\ PacketAt(pkt.pos).pos = pkt.pos
  BY <1>1 DEF PacketAt
<1>3. PacketAt(pkt.pos) = pkt
  BY <1>2, PositionsAssumption
<1>4. pkt \in [pos: Nat, seq: SeqNums, kind: Kinds, start: BOOLEAN, end: BOOLEAN]
  BY RtpPacketsAssumption
<1> QED BY <1>3, <1>4

\* Fragments of which exactly the first is a start and none is an end.
Begun(payload) ==
  \A i \in DOMAIN payload :
    LET pkt == PacketAt(payload[i])
    IN  pkt.kind = "fu" /\ (pkt.start <=> i = 1) /\ ~pkt.end

\* A session is empty until it is started, and then holds what began with its start.
SessionsInv ==
  \A s \in Sessions :
    LET state == m_fu_sessions[s]
    IN  /\ state \in [started : BOOLEAN, payload : Seq(Nat)]
        /\ Begun(state.payload)
        /\ state.started => state.payload # <<>>
        /\ ~state.started => state.payload = <<>>

\* What joins a session that is begun, makes it one fragment longer, and all of it
\* framed if it is an end.
LEMMA FragmentJoins ==
  ASSUME NEW payload \in Seq(Nat), Begun(payload),
         NEW pkt \in RtpPackets, pkt.kind = "fu", pkt.start <=> payload = <<>>
  PROVE  /\ Append(payload, pkt.pos) \in Seq(Nat)
         /\ Append(payload, pkt.pos) # <<>>
         /\ ~pkt.end => Begun(Append(payload, pkt.pos))
         /\ pkt.end =>
              \A i \in DOMAIN Append(payload, pkt.pos) :
                LET p == PacketAt(Append(payload, pkt.pos)[i])
                IN  /\ p.kind = "fu"
                    /\ p.start <=> i = 1
                    /\ p.end <=> i = Len(Append(payload, pkt.pos))
<1>1. PICK unit : unit = Append(payload, pkt.pos)
  OBVIOUS
<1>2. pkt.pos \in Nat /\ PacketAt(pkt.pos) = pkt /\ pkt.start \in BOOLEAN /\ pkt.end \in BOOLEAN
  BY PacketAtItsPosition
<1>3. PICK n \in Nat : n = Len(payload)
  BY LenProperties
<1>4. /\ unit \in Seq(Nat) /\ Len(unit) = n + 1 /\ unit[n + 1] = pkt.pos
      /\ \A i \in 1 .. n : unit[i] = payload[i]
  BY <1>1, <1>2, <1>3, AppendProperties
<1>5. DOMAIN unit = 1 .. n + 1 /\ DOMAIN payload = 1 .. n
  BY <1>3, <1>4, LenProperties
<1>6. payload = <<>> <=> n = 0
  BY <1>3, EmptySeq
<1>7. \A i \in 1 .. n : /\ PacketAt(unit[i]).kind = "fu" /\ ~PacketAt(unit[i]).end
                        /\ (PacketAt(unit[i]).start <=> i = 1)
  BY <1>4, <1>5 DEF Begun
<1>8. /\ PacketAt(unit[n + 1]).kind = "fu" /\ PacketAt(unit[n + 1]).end = pkt.end
      /\ (PacketAt(unit[n + 1]).start <=> n + 1 = 1)
  BY <1>2, <1>4, <1>6
<1>9. unit # <<>>
  BY <1>4, EmptySeq
<1>10. ASSUME ~pkt.end PROVE Begun(unit)
  <2> SUFFICES ASSUME NEW i \in 1 .. n + 1
               PROVE  /\ PacketAt(unit[i]).kind = "fu" /\ ~PacketAt(unit[i]).end
                      /\ (PacketAt(unit[i]).start <=> i = 1)
    BY <1>5 DEF Begun
  <2>1. i \in 1 .. n \/ i = n + 1
    OBVIOUS
  <2> QED BY <2>1, <1>7, <1>8, <1>10
<1>11. ASSUME pkt.end, NEW i \in 1 .. n + 1
       PROVE  /\ PacketAt(unit[i]).kind = "fu"
              /\ PacketAt(unit[i]).start <=> i = 1
              /\ PacketAt(unit[i]).end <=> i = n + 1
  <2>1. (i \in 1 .. n /\ i # n + 1) \/ i = n + 1
    OBVIOUS
  <2> QED BY <2>1, <1>7, <1>8, <1>11
<1> QED BY <1>1, <1>4, <1>5, <1>9, <1>10, <1>11

\* An empty session is as the invariant wants it.
LEMMA EmptyIsBegun == <<>> \in Seq(Nat) /\ Begun(<<>>)
<1>1. DOMAIN <<>> = {}
  BY SMT
<1> QED BY <1>1, EmptySeq DEF Begun

\* The session a fragment finds, started anew by a start.
LEMMA OpenedIsReady ==
  ASSUME SessionsInv, NEW pkt \in RtpPackets
  PROVE  /\ Opened(pkt) \in [started : BOOLEAN, payload : Seq(Nat)]
         /\ Begun(Opened(pkt).payload)
         /\ ~Opened(pkt).started => Opened(pkt).payload = <<>>
         /\ Opened(pkt).started => (pkt.start <=> Opened(pkt).payload = <<>>)
<1>1. pkt.start \in BOOLEAN
  BY PacketAtItsPosition
<1>2. CASE pkt.start
  <2>1. Opened(pkt) = [started |-> TRUE, payload |-> <<>>]
    BY <1>2 DEF Opened
  <2> QED BY <2>1, <1>2, EmptyIsBegun
<1>3. CASE ~pkt.start /\ pkt.seq \in Sessions
  <2>1. Opened(pkt) = m_fu_sessions[pkt.seq]
    BY <1>3 DEF Opened, Session
  <2> QED BY <2>1, <1>3 DEF SessionsInv
<1>4. CASE ~pkt.start /\ pkt.seq \notin Sessions
  <2>1. Opened(pkt) = [started |-> FALSE, payload |-> <<>>]
    BY <1>4 DEF Opened, Session, NewSession
  <2> QED BY <2>1, EmptyIsBegun
<1> QED BY <1>1, <1>2, <1>3, <1>4

\* A fragment of a session not started is dropped, one that does not end is kept, and
\* one that ends is handed over with those before it.
LEMMA FragmentKeepsFrames ==
  ASSUME SessionsInv, NEW pkt \in RtpPackets, Fragment(pkt)
  PROVE  SessionsInv' /\ UnitsAreFramed'
<1>1. PICK opened : opened = Opened(pkt)
  OBVIOUS
<1>2. /\ opened \in [started : BOOLEAN, payload : Seq(Nat)]
      /\ Begun(opened.payload)
      /\ ~opened.started => opened.payload = <<>>
      /\ opened.started => (pkt.start <=> opened.payload = <<>>)
  BY <1>1, OpenedIsReady
<1>3. PICK grown : grown = [opened EXCEPT !.payload = Append(@, pkt.pos)]
  OBVIOUS
<1>4. PICK joined : joined = Append(opened.payload, pkt.pos)
  OBVIOUS
<1>5. grown.payload = joined /\ grown.started = opened.started
  BY <1>2, <1>3, <1>4
<1>6. pkt.kind = "fu" /\ pkt.end \in BOOLEAN
  BY PacketAtItsPosition DEF Fragment
<1>7. opened.started =>
        /\ joined \in Seq(Nat) /\ joined # <<>>
        /\ ~pkt.end => Begun(joined)
        /\ pkt.end => \A i \in DOMAIN joined :
             LET p == PacketAt(joined[i])
             IN  p.kind = "fu" /\ (p.start <=> i = 1) /\ (p.end <=> i = Len(joined))
  BY <1>2, <1>4, <1>6, FragmentJoins
<1>8. ASSUME NEW state \in [started : BOOLEAN, payload : Seq(Nat)],
             Begun(state.payload),
             state.started => state.payload # <<>>,
             ~state.started => state.payload = <<>>,
             m_fu_sessions' = Stored(pkt.seq, state)
      PROVE  SessionsInv'
  BY <1>8 DEF SessionsInv, Stored, Sessions
<1>9. CASE ~opened.started
  <2>1. units' = <<>> /\ m_fu_sessions' = Stored(pkt.seq, opened)
    BY <1>1, <1>9 DEF Fragment, EmitNothing
  <2>2. SessionsInv'
    BY <2>1, <1>2, <1>8, <1>9
  <2> QED BY <2>1, <2>2 DEF UnitsAreFramed
<1>10. CASE opened.started /\ ~pkt.end
  <2>1. units' = <<>> /\ m_fu_sessions' = Stored(pkt.seq, grown)
    BY <1>1, <1>3, <1>10 DEF Fragment, EmitNothing
  <2>2. grown \in [started : BOOLEAN, payload : Seq(Nat)]
    BY <1>2, <1>3, <1>4, <1>7, <1>10
  <2>3. SessionsInv'
    BY <2>1, <2>2, <1>5, <1>7, <1>8, <1>10
  <2> QED BY <2>1, <2>3 DEF UnitsAreFramed
<1>11. CASE opened.started /\ pkt.end
  <2>1. /\ units' = <<joined>>
        /\ m_fu_sessions' = [s \in Sessions \ {pkt.seq} |-> m_fu_sessions[s]]
    BY <1>1, <1>3, <1>5, <1>11 DEF Fragment, Emit
  <2>2. SessionsInv'
    BY <2>1 DEF SessionsInv, Sessions
  <2> QED BY <2>1, <2>2, <1>7, <1>11 DEF UnitsAreFramed
<1> QED BY <1>2, <1>9, <1>10, <1>11

\* The sessions stay what they are and the units framed.
LEMMA FramedStep ==
  ASSUME SessionsInv, UnitsAreFramed, [Next]_vars
  PROVE  SessionsInv' /\ UnitsAreFramed'
<1>1. ASSUME NEW pkt \in RtpPackets, Invalid(pkt) \/ ShortFu(pkt)
      PROVE  SessionsInv' /\ UnitsAreFramed'
  <2>1. UNCHANGED m_fu_sessions /\ units' = <<>>
    BY <1>1 DEF Invalid, ShortFu, EmitNothing
  <2> QED BY <2>1 DEF SessionsInv, Sessions, UnitsAreFramed
<1>2. ASSUME NEW pkt \in RtpPackets, SingleNalu(pkt)
      PROVE  SessionsInv' /\ UnitsAreFramed'
  <2>1. UNCHANGED m_fu_sessions /\ units' = << <<pkt.pos>> >>
    BY <1>2 DEF SingleNalu, Emit
  <2>2. PacketAt(pkt.pos).kind = "single"
    BY <1>2, PacketAtItsPosition DEF SingleNalu
  <2> QED BY <2>1, <2>2 DEF SessionsInv, Sessions, UnitsAreFramed
<1>3. ASSUME NEW pkt \in RtpPackets, Fragment(pkt)
      PROVE  SessionsInv' /\ UnitsAreFramed'
  BY <1>3, FragmentKeepsFrames
<1>4. CASE reset
  <2>1. Sessions' = {} /\ UNCHANGED units
    BY <1>4 DEF reset, Sessions
  <2> QED BY <2>1 DEF SessionsInv, UnitsAreFramed
<1>5. CASE UNCHANGED vars
  BY <1>5 DEF vars, SessionsInv, Sessions, UnitsAreFramed
<1> QED BY <1>1, <1>2, <1>3, <1>4, <1>5 DEF Next, process_packet

\* The counters only grow and sessions have the numbers of packets.
LEMMA TypeStep ==
  ASSUME SessionsInv, SessionsInv', TypeOK, [Next]_vars
  PROVE  TypeOK'
<1>1. /\ Sessions \subseteq SeqNums /\ m_expected_sequence \in SeqNums
      /\ m_lost_packets \in Nat /\ m_reordered_packets \in Nat /\ m_complete_frames \in Nat
      /\ Len(units) <= 1
  BY DEF TypeOK
<1>2. \A s \in Sessions' : /\ m_fu_sessions'[s].started \in BOOLEAN
                           /\ \A i \in DOMAIN m_fu_sessions'[s].payload :
                                m_fu_sessions'[s].payload[i] \in Nat
  <2> SUFFICES ASSUME NEW s \in Sessions'
               PROVE  /\ m_fu_sessions'[s].started \in BOOLEAN
                      /\ \A i \in DOMAIN m_fu_sessions'[s].payload :
                           m_fu_sessions'[s].payload[i] \in Nat
    OBVIOUS
  <2>1. m_fu_sessions'[s] \in [started : BOOLEAN, payload : Seq(Nat)]
    BY DEF SessionsInv
  <2>2. PICK q \in Seq(Nat) : q = m_fu_sessions'[s].payload
    BY <2>1
  <2>3. \A i \in DOMAIN q : q[i] \in Nat
    BY <2>2, ElementOfSeq, LenProperties
  <2> QED BY <2>1, <2>2, <2>3
<1>3. ASSUME Sessions' \subseteq SeqNums, m_expected_sequence' \in SeqNums,
             m_lost_packets' \in Nat, m_reordered_packets' \in Nat,
             m_complete_frames' \in Nat, Len(units') <= 1
      PROVE  TypeOK'
  BY <1>2, <1>3 DEF TypeOK
<1>4. ASSUME NEW pkt \in RtpPackets, update_statistics(pkt.seq)
      PROVE  /\ m_expected_sequence' \in SeqNums
             /\ m_lost_packets' \in Nat /\ m_reordered_packets' \in Nat
  <2>1. pkt.seq \in SeqNums
    BY PacketAtItsPosition
  <2>2. PICK diff \in Nat : diff = SeqDistance(m_expected_sequence, pkt.seq)
    BY <1>1, <2>1, SeqSpaceAssumption DEF SeqDistance, SeqNums
  <2>3. LostIn(diff) \in Nat
    BY DEF LostIn
  <2>4. NextSeq(pkt.seq) \in SeqNums
    BY <2>1, SeqSpaceAssumption DEF NextSeq, SeqNums
  <2> QED BY <1>1, <1>4, <2>2, <2>3, <2>4 DEF update_statistics
<1>5. ASSUME NEW pkt \in RtpPackets, process_packet(pkt)
      PROVE  /\ m_complete_frames' \in Nat /\ Len(units') <= 1
             /\ Sessions' \subseteq Sessions \cup {pkt.seq}
  <2>1. \/ EmitNothing
        \/ \E unit : Emit(unit)
    BY <1>5 DEF process_packet, Invalid, SingleNalu, ShortFu, Fragment
  <2>2. m_complete_frames' \in Nat /\ Len(units') <= 1
    <3>1. CASE EmitNothing
      BY <1>1, <3>1, EmptySeq DEF EmitNothing
    <3>2. ASSUME NEW unit, Emit(unit) PROVE m_complete_frames' \in Nat /\ Len(units') <= 1
      <4>1. Len(<<unit>>) = 1
        OBVIOUS
      <4> QED BY <1>1, <3>2, <4>1 DEF Emit
    <3> QED BY <2>1, <3>1, <3>2
  <2>3. Sessions' \subseteq Sessions \cup {pkt.seq}
    BY <1>5 DEF process_packet, Invalid, SingleNalu, ShortFu, Fragment, Stored, Sessions
  <2> QED BY <2>2, <2>3
<1>6. ASSUME NEW pkt \in RtpPackets, Invalid(pkt) PROVE TypeOK'
  <2>1. process_packet(pkt) /\ UNCHANGED <<m_fu_sessions, stats>>
    BY <1>6 DEF process_packet, Invalid
  <2> QED BY <2>1, <1>1, <1>3, <1>5 DEF stats, Sessions
<1>7. ASSUME NEW pkt \in RtpPackets, SingleNalu(pkt) \/ ShortFu(pkt) \/ Fragment(pkt)
      PROVE  TypeOK'
  <2>1. process_packet(pkt) /\ update_statistics(pkt.seq)
    BY <1>7 DEF process_packet, SingleNalu, ShortFu, Fragment
  <2>2. pkt.seq \in SeqNums
    BY PacketAtItsPosition
  <2> QED BY <2>1, <2>2, <1>1, <1>3, <1>4, <1>5
<1>8. CASE reset
  <2>1. 0 \in SeqNums
    BY SeqSpaceAssumption DEF SeqNums
  <2> QED BY <2>1, <1>1, <1>3, <1>8 DEF reset, Sessions
<1>9. CASE UNCHANGED vars
  BY <1>1, <1>3, <1>9 DEF vars, stats, Sessions
<1> QED BY <1>6, <1>7, <1>8, <1>9 DEF Next, process_packet

LEMMA DepacketizerStarts == Init => SessionsInv /\ UnitsAreFramed /\ TypeOK
<1> SUFFICES ASSUME Init PROVE SessionsInv /\ UnitsAreFramed /\ TypeOK
  OBVIOUS
<1>1. Sessions = {} /\ units = <<>>
  BY DEF Init, Sessions
<1>2. 0 \in SeqNums
  BY SeqSpaceAssumption DEF SeqNums
<1> QED BY <1>1, <1>2 DEF Init, SessionsInv, UnitsAreFramed, TypeOK

\* Whatever arrives, in whatever order, however often and over however many laps of
\* the numbers: a unit handed over is one whole packet or fragments from a start to an
\* end and nothing else (h264_depacketizer.cpp:72-106).
THEOREM UnitsAlwaysFramed == Spec => []UnitsAreFramed
<1>1. SessionsInv /\ UnitsAreFramed /\ [Next]_vars => (SessionsInv /\ UnitsAreFramed)'
  BY FramedStep
<1> QED BY <1>1, DepacketizerStarts, PTL DEF Spec
=============================================================================
