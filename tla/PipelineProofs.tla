--------------------------- MODULE PipelineProofs ---------------------------
(* Proofs about Pipeline for every size of the buffer, every modulus and    *)
(* every behaviour of the network.                                          *)
EXTENDS PipelineProps, FiniteSetTheorems, SequenceTheorems,
        WellFoundedInduction, TLAPS

-----------------------------------------------------------------------------
(* Threads and sockets.                                                      *)

\* While the pipeline runs, or stop joins its threads, its sockets are open; at
\* any other time neither thread exists.
SocketInv ==
  /\ m_running => client = "idle" /\ sender /\ receiver = "bound"
  /\ capture # "off" => sender /\ (m_running \/ client = "joining")
  /\ process # "off" => receiver = "bound" /\ (m_running \/ client = "joining")

\* start opens sockets and makes threads only where there are none.
LEMMA StartKeepsSockets ==
  ASSUME SocketInv, start
  PROVE  SocketInv'
<1>1. CASE StartRefused /\ UNCHANGED <<capture, process>>
  BY <1>1 DEF SocketInv, start, StartRefused, sockets
<1>2. CASE StartThrows /\ UNCHANGED <<capture, process>>
  BY <1>2 DEF SocketInv, start, StartThrows, sockets
<1>3. CASE StartFails /\ UNCHANGED <<capture, process>>
  <2>1. capture = "off" /\ process = "off" /\ ~m_running /\ ~m_running'
    BY <1>3 DEF SocketInv, start, StartFails
  <2> QED BY <1>3, <2>1 DEF SocketInv
<1>4. CASE StartSucceeds /\ capture' = "check" /\ process' = "check"
  BY <1>4 DEF SocketInv, start, StartSucceeds
<1> QED BY <1>1, <1>2, <1>3, <1>4 DEF start

\* stop closes the sockets only after both threads are gone.
LEMMA StopKeepsSockets ==
  ASSUME SocketInv, StopBegins \/ StopEnds
  PROVE  SocketInv'
<1>1. CASE StopBegins
  BY <1>1 DEF SocketInv, StopBegins, sockets
<1>2. CASE StopEnds
  BY <1>2 DEF SocketInv, StopEnds, Joined
<1> QED BY <1>1, <1>2

\* The threads leave the sockets alone, and neither starts one that is off.
LEMMA ThreadsKeepSockets ==
  ASSUME SocketInv, CaptureThread \/ ProcessThread
  PROVE  SocketInv'
<1>1. CASE CaptureThread
  <2>1. UNCHANGED <<m_running, client, process, sender, receiver>>
    BY <1>1 DEF CaptureThread, sockets
  <2>2. capture # "off"
    BY <1>1 DEF CaptureThread, CaptureChecks, SendPacket, FrameSent
  <2> QED BY <2>1, <2>2 DEF SocketInv
<1>2. CASE ProcessThread
  <2>1. UNCHANGED <<m_running, client, capture, sender, receiver>>
    BY <1>2 DEF ProcessThread, sockets
  <2>2. process # "off"
    BY <1>2 DEF ProcessThread, ProcessChecks, ReceivePacket, ReceiveNothing,
                PopAndProcess
  <2> QED BY <2>1, <2>2 DEF SocketInv
<1> QED BY <1>1, <1>2

\* SocketInv holds throughout.
LEMMA SocketsAlways == Spec => []SocketInv
<1>1. Init => SocketInv
  BY DEF Init, SocketInv
<1>2. SocketInv /\ [Next]_vars => SocketInv'
  <2> SUFFICES ASSUME SocketInv, [Next]_vars PROVE SocketInv'
    OBVIOUS
  <2>1. CASE start
    BY <2>1, StartKeepsSockets
  <2>2. CASE StopBegins \/ StopEnds
    BY <2>2, StopKeepsSockets
  <2>3. CASE CaptureThread \/ ProcessThread
    BY <2>3, ThreadsKeepSockets
  <2>4. CASE UNCHANGED vars
    BY <2>4 DEF vars, control, sockets, SocketInv
  <2> QED BY <2>1, <2>2, <2>3, <2>4 DEF Next, Client
<1> QED BY <1>1, <1>2, PTL DEF Spec

\* Whatever the client, the network and the clock do, a running thread has its
\* socket, and no thread is left when stop has returned.
THEOREM ThreadsKeepTheirSockets == Spec => []ThreadsOwnTheirSockets
<1>1. SocketInv => ThreadsOwnTheirSockets
  BY DEF SocketInv, ThreadsOwnTheirSockets
<1> QED BY <1>1, SocketsAlways, PTL

-----------------------------------------------------------------------------
(* The packets that are sent.                                                *)

\* The lemmas about the packets of a frame.
Fragmentation == INSTANCE RtpFragmentationProofs

\* Each instance has its own copies of the operators on numbers.
LEMMA SameNumbers ==
  /\ Packetizer!SeqNums = SeqNums /\ Buffer!SeqNums = SeqNums
  /\ Depacketizer!SeqNums = SeqNums /\ Fragmentation!SeqNums = SeqNums
  /\ \A n : /\ Packetizer!SeqNumber(n) = SeqNumber(n) /\ Buffer!SeqNumber(n) = SeqNumber(n)
            /\ Fragmentation!SeqNumber(n) = SeqNumber(n)
            /\ Buffer!NextSeq(n) = NextSeq(n) /\ Depacketizer!NextSeq(n) = NextSeq(n)
            /\ Fragmentation!NextSeq(n) = NextSeq(n)
<1>1. /\ Packetizer!SeqNums = SeqNums /\ Buffer!SeqNums = SeqNums
      /\ Depacketizer!SeqNums = SeqNums /\ Fragmentation!SeqNums = SeqNums
  BY DEF SeqNums, Packetizer!SeqNums, Buffer!SeqNums, Depacketizer!SeqNums,
         Fragmentation!SeqNums
<1>2. \A n : /\ Packetizer!SeqNumber(n) = SeqNumber(n) /\ Buffer!SeqNumber(n) = SeqNumber(n)
             /\ Fragmentation!SeqNumber(n) = SeqNumber(n)
  BY DEF SeqNumber, Packetizer!SeqNumber, Buffer!SeqNumber, Fragmentation!SeqNumber
<1>3. \A n : /\ Buffer!NextSeq(n) = NextSeq(n) /\ Depacketizer!NextSeq(n) = NextSeq(n)
             /\ Fragmentation!NextSeq(n) = NextSeq(n)
  BY DEF NextSeq, Buffer!NextSeq, Depacketizer!NextSeq, Fragmentation!NextSeq
<1> QED BY <1>1, <1>2, <1>3

\* What wrapped numbers are.
LEMMA Numbers ==
  /\ 0 \in SeqNums
  /\ \A n \in Nat : SeqNumber(n) \in SeqNums /\ NextSeq(SeqNumber(n)) = SeqNumber(n + 1)
  /\ \A n \in SeqNums : n \in Nat /\ SeqNumber(n) = n
  /\ \A n, k \in Nat : SeqNumber(SeqNumber(n) + k) = SeqNumber(n + k)
BY SameNumbers, Fragmentation!Numbers, FramesAssumption, MaxPayloadAssumption,
   SeqSpaceAssumption

\* The packetizer gives what the lemmas speak of.
LEMMA SamePackets ==
  \A sizes, seq : Packetizer!FramePackets(sizes, seq) = Fragmentation!FramePackets(sizes, seq)
<1>1. \A n, size : Packetizer!NaluPackets(n, size) = Fragmentation!NaluPackets(n, size)
  BY DEF Packetizer!NaluPackets, Fragmentation!NaluPackets, Packetizer!IsSmall,
         Fragmentation!IsSmall, Packetizer!SinglePacket, Fragmentation!SinglePacket,
         Packetizer!FuAPackets, Fragmentation!FuAPackets, Packetizer!Chunk,
         Fragmentation!Chunk
<1>2. \A seqs : Packetizer!FlattenSeq(seqs) = Fragmentation!FlattenSeq(seqs)
  BY DEF Packetizer!FlattenSeq, Fragmentation!FlattenSeq
<1> QED BY <1>1, <1>2, SameNumbers
        DEF Packetizer!FramePackets, Fragmentation!FramePackets

Wire ==
  [kind : {"single", "fu"}, nalu : Nat, from : Int, to : Int, start : BOOLEAN,
   end : BOOLEAN, marker : BOOLEAN, seq : SeqNums]

\* A packet has the number of its position, sent or still to be sent, and no packet is
\* left over from one frame when the next is encoded.
SendingInv ==
  /\ sent \in Seq(Wire) /\ outbox \in Seq(Wire)
  /\ Len(sent) + Len(outbox) <= MaxSent
  /\ \A i \in 1 .. Len(sent) : sent[i].seq = SeqNumber(i - 1)
  /\ \A i \in 1 .. Len(outbox) : outbox[i].seq = SeqNumber(Len(sent) + i - 1)
  /\ m_sequence = SeqNumber(Len(sent) + Len(outbox))
  /\ capture # "send" => outbox = <<>>

\* A frame is numbered from where the one before it ended.
LEMMA EncodeKeepsNumbers ==
  ASSUME SendingInv, outbox = <<>>, Encode
  PROVE  SendingInv'
<1>1. PICK sizes \in Frames :
        /\ Len(sent) + Len(Packetizer!FramePackets(sizes, 0)) <= MaxSent
        /\ outbox' = Packetizer!FramePackets(sizes, m_sequence)
        /\ m_sequence' = Packetizer!SeqNumber(m_sequence + Len(outbox'))
        /\ capture' = "send" /\ UNCHANGED sent
  BY DEF Encode, Packetizer!packetize_frame
<1>2. PICK n \in Nat : n = Len(sent)
  BY LenProperties DEF SendingInv
<1>3. m_sequence = SeqNumber(n) /\ m_sequence \in SeqNums /\ m_sequence \in Nat
  <2>1. Len(outbox) = 0
    OBVIOUS
  <2> QED BY <1>2, <2>1, Numbers DEF SendingInv
<1>4. sizes \in Seq(Nat)
  BY FramesAssumption
<1>5. PICK ps : ps = Fragmentation!FramePackets(sizes, m_sequence)
  OBVIOUS
<1>6. PICK none : none = Fragmentation!FramePackets(sizes, 0)
  OBVIOUS
<1>7. /\ ps \in Seq(Fragmentation!Pieces) /\ Len(ps) \in Nat
      /\ Len(ps) = Len(Fragmentation!AllPackets(sizes))
      /\ \A i \in 1 .. Len(ps) : ps[i].seq = Fragmentation!SeqNumber(m_sequence + i - 1)
  BY <1>3, <1>4, <1>5, Fragmentation!FrameShape, FramesAssumption,
     MaxPayloadAssumption, SeqSpaceAssumption
<1>8. Len(none) = Len(Fragmentation!AllPackets(sizes))
  BY <1>4, <1>6, Fragmentation!FrameShape, FramesAssumption,
     MaxPayloadAssumption, SeqSpaceAssumption
<1>9. PICK l \in Nat : l = Len(ps) /\ n + l <= MaxSent
  BY <1>1, <1>2, <1>6, <1>7, <1>8, SamePackets
<1>10. ASSUME NEW i \in 1 .. l
       PROVE  ps[i].seq = SeqNumber(n + i - 1) /\ ps[i] \in Wire
  <2>1. i - 1 \in Nat /\ m_sequence + i - 1 = m_sequence + (i - 1)
        /\ n + i - 1 = n + (i - 1) /\ n + (i - 1) \in Nat
    BY <1>3
  <2>2. ps[i].seq = SeqNumber(m_sequence + (i - 1))
    <3>1. ps[i].seq = Fragmentation!SeqNumber(m_sequence + i - 1)
      BY <1>7, <1>9
    <3>2. Fragmentation!SeqNumber(m_sequence + i - 1) = SeqNumber(m_sequence + i - 1)
      BY SameNumbers, Zenon
    <3> QED BY <2>1, <3>1, <3>2, Zenon
  <2>3. ps[i].seq = SeqNumber(n + (i - 1)) /\ ps[i].seq \in SeqNums
    <3>1. SeqNumber(SeqNumber(n) + (i - 1)) = SeqNumber(n + (i - 1))
      BY <2>1, Numbers, Zenon
    <3>2. SeqNumber(n + (i - 1)) \in SeqNums
      BY <2>1, Numbers, Zenon
    <3> QED BY <1>3, <2>2, <3>1, <3>2, Zenon
  <2>4. ps[i] \in Fragmentation!Pieces
    BY <1>7, <1>9, ElementOfSeq
  <2>5. ps[i] \in Wire
    BY <2>3, <2>4 DEF Wire, Fragmentation!Pieces
  <2> QED BY <2>1, <2>3, <2>5
<1>11. ps \in Seq(Wire)
  <2>1. ps \in [1 .. l -> Wire]
    BY <1>7, <1>9, <1>10, LenProperties
  <2> QED BY <2>1, SeqDef
<1>12. outbox' = ps /\ m_sequence' = SeqNumber(n + l)
  BY <1>1, <1>3, <1>5, <1>9, SamePackets, SameNumbers, Numbers
<1>13. sent' = sent /\ Len(outbox') = l /\ n = Len(sent')
  BY <1>1, <1>2, <1>9, <1>12
<1> QED BY <1>1, <1>9, <1>10, <1>11, <1>12, <1>13 DEF SendingInv

\* Sending one keeps the numbers of the others.
LEMMA SendKeepsNumbers ==
  ASSUME SendingInv, SendPacket
  PROVE  /\ SendingInv'
         /\ Len(sent) \in Nat /\ Len(sent') = Len(sent) + 1
         /\ \A i \in 1 .. Len(sent) : sent'[i] = sent[i]
<1>1. /\ outbox # <<>> /\ sent' = Append(sent, Head(outbox)) /\ outbox' = Tail(outbox)
      /\ UNCHANGED <<capture, m_sequence>> /\ capture = "send"
  BY DEF SendPacket
<1>2. PICK n \in Nat, l \in Nat : n = Len(sent) /\ l = Len(outbox) /\ l > 0
  BY <1>1, LenProperties, EmptySeq DEF SendingInv
<1>3. /\ Head(outbox) \in Wire /\ Head(outbox) = outbox[1]
      /\ outbox' \in Seq(Wire) /\ Len(outbox') = l - 1
      /\ \A i \in 1 .. l - 1 : outbox'[i] = outbox[i + 1]
  BY <1>1, <1>2, HeadTailProperties, ElementOfSeq DEF SendingInv
<1>4. /\ sent' \in Seq(Wire) /\ Len(sent') = n + 1 /\ sent'[n + 1] = Head(outbox)
      /\ \A i \in 1 .. n : sent'[i] = sent[i]
  BY <1>1, <1>2, <1>3, AppendProperties DEF SendingInv
<1>5. \A i \in 1 .. l : outbox[i].seq = SeqNumber(n + i - 1)
  BY <1>2 DEF SendingInv
<1>6. ASSUME NEW i \in 1 .. n + 1 PROVE sent'[i].seq = SeqNumber(i - 1)
  <2>1. CASE i \in 1 .. n
    BY <1>2, <1>4, <2>1 DEF SendingInv
  <2>2. CASE i = n + 1
    <3>1. 1 \in 1 .. l /\ n + 1 - 1 = i - 1
      BY <1>2, <2>2
    <3> QED BY <1>3, <1>4, <1>5, <2>2, <3>1
  <2> QED BY <2>1, <2>2
<1>7. ASSUME NEW i \in 1 .. l - 1 PROVE outbox'[i].seq = SeqNumber((n + 1) + i - 1)
  <2>1. i + 1 \in 1 .. l /\ n + (i + 1) - 1 = (n + 1) + i - 1
    BY <1>2
  <2> QED BY <1>3, <1>5, <2>1
<1>8. (n + 1) + (l - 1) = n + l
  BY <1>2
<1>9. m_sequence = SeqNumber(n + l) /\ n + l <= MaxSent
  BY <1>2 DEF SendingInv
<1>10. SendingInv'
  BY <1>1, <1>3, <1>4, <1>6, <1>7, <1>8, <1>9 DEF SendingInv
<1> QED BY <1>2, <1>4, <1>10

\* SendingInv is preserved by every step, and what was sent stays sent.
LEMMA SendingStep ==
  ASSUME SocketInv, SendingInv, [Next]_vars
  PROVE  /\ SendingInv'
         /\ Len(sent) \in Nat /\ Len(sent') \in Nat
         /\ \/ Len(sent') = Len(sent)
            \/ SendPacket /\ Len(sent') = Len(sent) + 1
         /\ \A i \in 1 .. Len(sent) : sent'[i] = sent[i]
<1>1. Len(sent) \in Nat
  BY LenProperties DEF SendingInv
<1>2. ASSUME UNCHANGED <<sent, outbox, m_sequence>>, capture' # "send" => outbox = <<>>
      PROVE  /\ SendingInv' /\ Len(sent') = Len(sent)
             /\ \A i \in 1 .. Len(sent) : sent'[i] = sent[i]
  BY <1>2 DEF SendingInv
<1>3. CASE start
  <2>1. UNCHANGED <<sent, outbox, m_sequence>>
    BY <1>3 DEF start, sending
  <2>2. capture' = capture \/ capture = "off"
    BY <1>3 DEF start, SocketInv, StartSucceeds
  <2>3. capture' # "send" => outbox = <<>>
    BY <2>2 DEF SendingInv
  <2> QED BY <1>1, <1>2, <2>1, <2>3
<1>4. CASE StopBegins \/ StopEnds \/ ProcessThread
  <2>1. UNCHANGED <<sent, outbox, m_sequence, capture>>
    BY <1>4 DEF StopBegins, StopEnds, ProcessThread, sending
  <2>2. capture' # "send" => outbox = <<>>
    BY <2>1 DEF SendingInv
  <2> QED BY <1>1, <1>2, <2>1, <2>2
<1>5. CASE CaptureChecks \/ FrameSent
  <2>1. outbox = <<>>
    BY <1>5 DEF CaptureChecks, FrameSent, SendingInv
  <2>2. CASE Encode
    <3>1. UNCHANGED sent
      BY <2>2 DEF Encode
    <3>2. SendingInv'
      BY <2>1, <2>2, EncodeKeepsNumbers
    <3>3. Len(sent') = Len(sent) /\ \A i \in 1 .. Len(sent) : sent'[i] = sent[i]
      BY <3>1
    <3> QED BY <1>1, <3>2, <3>3
  <2>3. CASE UNCHANGED sending
    <3>1. UNCHANGED <<sent, outbox, m_sequence>>
      BY <2>3 DEF sending
    <3> QED BY <1>1, <1>2, <2>1, <3>1
  <2> QED BY <1>5, <2>2, <2>3 DEF CaptureChecks, FrameSent, RoundEnds
<1>6. CASE SendPacket
  <2>1. SendingInv' /\ Len(sent') = Len(sent) + 1 /\ \A i \in 1 .. Len(sent) : sent'[i] = sent[i]
    BY <1>6, SendKeepsNumbers
  <2> QED BY <1>1, <1>6, <2>1
<1>7. CASE UNCHANGED vars
  <2>1. UNCHANGED <<sent, outbox, m_sequence, capture>>
    BY <1>7 DEF vars, sending
  <2>2. capture' # "send" => outbox = <<>>
    BY <2>1 DEF SendingInv
  <2> QED BY <1>1, <1>2, <2>1, <2>2
<1> QED BY <1>3, <1>4, <1>5, <1>6, <1>7 DEF Next, Client, CaptureThread

\* SendingInv holds throughout.
LEMMA SendingAlways == Spec => []SendingInv
<1>1. Init => SendingInv
  <2> SUFFICES ASSUME Init PROVE SendingInv
    OBVIOUS
  <2>1. sent = <<>> /\ outbox = <<>> /\ m_sequence = 0
    BY DEF Init, Packetizer!Init
  <2>2. <<>> \in Seq(Wire) /\ Len(<<>>) = 0
    BY EmptySeq
  <2>3. SeqNumber(0) = 0
    BY Numbers
  <2> QED BY <2>1, <2>2, <2>3, MaxSentAssumption DEF SendingInv
<1>2. SocketInv /\ SendingInv /\ [Next]_vars => SendingInv'
  BY SendingStep
<1> QED BY <1>1, <1>2, SocketsAlways, PTL DEF Spec

-----------------------------------------------------------------------------
(* The positions on their way, in the buffer and handed over.                *)

\* A nonempty set of naturals has a least element, as begin() needs.
LEMMA LeastExists ==
  ASSUME NEW S \in SUBSET Nat, S # {}
  PROVE  \E m \in S : \A n \in S : m <= n
<1> DEFINE R == OpToRel(<, Nat)
<1>1. IsWellFoundedOn(R, Nat)
  BY NatLessThanWellFounded
<1>2. \A m, n \in Nat : <<n, m>> \in R <=> n < m
  BY DEF OpToRel
<1> HIDE DEF R
<1>3. PICK m \in S : \A n \in S : ~ (<<n, m>> \in R)
  BY <1>1, WFMin
<1>4. ASSUME NEW n \in S PROVE m <= n
  <2>1. n \in Nat /\ m \in Nat
    OBVIOUS
  <2>2. ~ (n < m)
    BY <1>2, <1>3, <2>1
  <2> QED BY <2>1, <2>2
<1> QED BY <1>4

\* begin() of a nonempty map is the least of its keys.
LEMMA BeginIsKey ==
  ASSUME NEW S \in SUBSET Nat, S # {}
  PROVE  Buffer!Begin(S) \in S /\ \A s \in S : Buffer!Begin(S) <= s
BY LeastExists DEF Buffer!Begin

\* The positions of what was sent.
Places == 0 .. Len(sent) - 1

\* Nothing is anywhere that was not sent, and the buffer has it under its number.
PlacesInv ==
  /\ network \in Seq(Places)
  /\ delivered \in Seq(Places)
  /\ received \subseteq Places
  /\ popped \in Places \cup {-1}
  /\ \A s \in Buffer!Held : m_buffer[s] \in Places /\ s = SeqNumber(m_buffer[s])
  /\ m_buffer = [s \in Buffer!Held |-> m_buffer[s]]
  /\ m_last_popped_seq \in SeqNums /\ m_first_packet \in BOOLEAN

\* What is held has a number.
LEMMA HeldAreNumbers ==
  ASSUME PlacesInv, SendingInv
  PROVE  Buffer!Held \subseteq SeqNums /\ Buffer!Held \subseteq Nat
<1>1. Places \subseteq Nat
  BY DEF Places
<1>2. ASSUME NEW s \in Buffer!Held PROVE s \in SeqNums /\ s \in Nat
  BY <1>1, Numbers DEF PlacesInv
<1> QED BY <1>2

\* Wherever the network puts a packet, it stays a sequence of positions.
LEMMA TravelsType ==
  ASSUME NEW S, network \in Seq(S), NEW p \in S, Travels(p)
  PROVE  network' \in Seq(S)
<1>1. CASE network' = Append(network, p)
  BY <1>1, AppendProperties
<1>2. CASE UNCHANGED network
  BY <1>2
<1>3. CASE network' = network \o <<p, p>>
  <2>1. <<p, p>> \in Seq(S)
    OBVIOUS
  <2> QED BY <1>3, <2>1, ConcatProperties
<1>4. ASSUME NEW i \in DOMAIN network, network' = InsertAt(network, i, p)
      PROVE  network' \in Seq(S)
  <2>1. i \in 1 .. Len(network) /\ Len(network) \in Nat
    BY LenProperties
  <2>2. \A j \in 1 .. Len(network) : network[j] \in S
    BY ElementOfSeq
  <2>3. SubSeq(network, 1, i - 1) \in Seq(S)
    BY <2>1, <2>2, SubSeqProperties
  <2>4. SubSeq(network, i, Len(network)) \in Seq(S)
    BY <2>1, <2>2, SubSeqProperties
  <2>5. SubSeq(network, 1, i - 1) \o <<p>> \in Seq(S)
    BY <2>3, ConcatProperties
  <2>6. (SubSeq(network, 1, i - 1) \o <<p>>) \o SubSeq(network, i, Len(network)) \in Seq(S)
    BY <2>4, <2>5, ConcatProperties
  <2> QED BY <1>4, <2>6 DEF InsertAt
<1> QED BY <1>1, <1>2, <1>3, <1>4 DEF Travels

\* push adds one packet at most, under its number.
LEMMA PushKeepsPlaces ==
  ASSUME PlacesInv, NEW p \in Places, Buffer!push(p)
  PROVE  /\ \A s \in Buffer!Held' : m_buffer'[s] \in Places /\ s = SeqNumber(m_buffer'[s])
         /\ m_buffer' = [s \in Buffer!Held' |-> m_buffer'[s]]
         /\ UNCHANGED <<m_last_popped_seq, m_first_packet, popped>>
<1>1. PICK b : b = Buffer!Insert(m_buffer, p)
  OBVIOUS
<1>2. /\ DOMAIN b = Buffer!Held \cup {SeqNumber(p)}
      /\ \A s \in DOMAIN b : b[s] = IF s = SeqNumber(p) THEN p ELSE m_buffer[s]
      /\ b = [s \in DOMAIN b |-> b[s]]
  BY <1>1, SameNumbers DEF Buffer!Insert, Buffer!Held
<1>3. \A s \in DOMAIN b : b[s] \in Places /\ s = SeqNumber(b[s])
  BY <1>2 DEF PlacesInv
<1>4. m_buffer' = b \/ \E first : m_buffer' = Buffer!Erase(b, first)
  BY <1>1 DEF Buffer!push
<1>5. CASE m_buffer' = b
  BY <1>2, <1>3, <1>5 DEF Buffer!Held, Buffer!push
<1>6. ASSUME NEW first, m_buffer' = Buffer!Erase(b, first)
      PROVE  /\ \A s \in Buffer!Held' : m_buffer'[s] \in Places /\ s = SeqNumber(m_buffer'[s])
             /\ m_buffer' = [s \in Buffer!Held' |-> m_buffer'[s]]
  BY <1>3, <1>6 DEF Buffer!Held, Buffer!Erase
<1> QED BY <1>4, <1>5, <1>6 DEF Buffer!push

\* pop takes one that is held, or leaves everything as it is.
LEMMA PopKeepsPlaces ==
  ASSUME PlacesInv, SendingInv, Buffer!pop
  PROVE  /\ \A s \in Buffer!Held' : m_buffer'[s] \in Places /\ s = SeqNumber(m_buffer'[s])
         /\ m_buffer' = [s \in Buffer!Held' |-> m_buffer'[s]]
         /\ m_last_popped_seq' \in SeqNums /\ m_first_packet' \in BOOLEAN
         /\ popped' \in Places \cup {-1}
         /\ Buffer!NoPacket = -1
<1>1. Buffer!NoPacket = -1
  BY DEF Buffer!NoPacket
<1>2. CASE Buffer!PopHead
  <2>1. Buffer!Begin(Buffer!Held) \in Buffer!Held
    BY <1>2, BeginIsKey, HeldAreNumbers DEF Buffer!PopHead, Buffer!Ready
  <2>2. /\ m_buffer' = Buffer!Erase(m_buffer, Buffer!Begin(Buffer!Held))
        /\ popped' = m_buffer[Buffer!Begin(Buffer!Held)]
        /\ m_last_popped_seq' = Buffer!Begin(Buffer!Held) /\ m_first_packet' = FALSE
    BY <1>2 DEF Buffer!PopHead
  <2>3. /\ \A s \in Buffer!Held' : m_buffer'[s] \in Places /\ s = SeqNumber(m_buffer'[s])
        /\ m_buffer' = [s \in Buffer!Held' |-> m_buffer'[s]]
    BY <2>2 DEF PlacesInv, Buffer!Held, Buffer!Erase
  <2>4. popped' \in Places /\ m_last_popped_seq' \in SeqNums
    BY <2>1, <2>2, HeldAreNumbers DEF PlacesInv
  <2> QED BY <1>1, <2>2, <2>3, <2>4
<1>3. CASE Buffer!PopNothing
  BY <1>1, <1>3 DEF Buffer!PopNothing, PlacesInv, Buffer!Held
<1> QED BY <1>2, <1>3 DEF Buffer!pop

\* PlacesInv is preserved by every step.
LEMMA PlacesStep ==
  ASSUME SocketInv, SendingInv, PlacesInv, [Next]_vars
  PROVE  PlacesInv'
<1>1. PICK S : S = Places'
  OBVIOUS
<1>2. Places \subseteq S
  BY <1>1, SendingStep DEF Places
<1>3. network \in Seq(S) /\ delivered \in Seq(S) /\ received \subseteq S
  BY <1>2, SeqMonotonic DEF PlacesInv
<1>4. popped \in S \cup {-1} /\ \A s \in Buffer!Held : m_buffer[s] \in S
  BY <1>2 DEF PlacesInv
<1>5. ASSUME UNCHANGED receiving, network' \in Seq(S)
      PROVE  PlacesInv'
  <2>1. UNCHANGED <<received, delivered, popped, m_buffer, m_last_popped_seq, m_first_packet>>
    BY <1>5 DEF receiving, buffering
  <2> QED BY <1>1, <1>3, <1>4, <1>5, <2>1 DEF PlacesInv, Buffer!Held
<1>6. CASE start \/ StopBegins
  BY <1>3, <1>5, <1>6 DEF start, StopBegins
<1>7. CASE StopEnds
  <2>1. PICK arrived \in 0 .. Len(network) : network' = SubSeq(network, arrived + 1, Len(network))
    BY <1>7 DEF StopEnds
  <2>2. Len(network) \in Nat /\ \A j \in 1 .. Len(network) : network[j] \in S
    BY <1>3, LenProperties, ElementOfSeq
  <2>3. network' \in Seq(S)
    BY <2>1, <2>2, SubSeqProperties
  <2> QED BY <1>5, <1>7, <2>3 DEF StopEnds
<1>8. CASE CaptureThread /\ (CaptureChecks \/ FrameSent)
  BY <1>3, <1>5, <1>8 DEF CaptureThread, CaptureChecks, FrameSent
<1>9. CASE CaptureThread /\ SendPacket
  <2>1. Len(sent) \in S
    BY <1>1, <1>9, SendKeepsNumbers DEF Places
  <2>2. network' \in Seq(S)
    BY <1>3, <1>9, <2>1, TravelsType DEF SendPacket
  <2> QED BY <1>5, <1>9, <2>2 DEF CaptureThread
<1>10. CASE ProcessThread /\ (ProcessChecks \/ ReceiveNothing)
  BY <1>3, <1>5, <1>10 DEF ProcessChecks, ReceiveNothing
<1>11. CASE ProcessThread /\ (ReceivePacket \/ PopAndProcess)
  <2>1. Places' = Places /\ S = Places
    BY <1>1, <1>11 DEF ProcessThread, sending, Places
  <2>2. CASE ReceivePacket
    <3>1. PICK p \in Places : p = Head(network) /\ network' \in Seq(Places)
      BY <2>2, HeadTailProperties DEF ReceivePacket, PlacesInv
    <3>2. Buffer!push(p) /\ received' = received \cup {p} /\ UNCHANGED delivered
      BY <2>2, <3>1 DEF ReceivePacket
    <3>3. received' \subseteq Places /\ delivered' \in Seq(Places) /\ popped' \in Places \cup {-1}
      BY <3>1, <3>2, PushKeepsPlaces DEF PlacesInv
    <3>4. /\ \A s \in Buffer!Held' : m_buffer'[s] \in Places /\ s = SeqNumber(m_buffer'[s])
          /\ m_buffer' = [s \in Buffer!Held' |-> m_buffer'[s]]
          /\ m_last_popped_seq' \in SeqNums /\ m_first_packet' \in BOOLEAN
      BY <3>1, <3>2, PushKeepsPlaces DEF PlacesInv
    <3> QED BY <2>1, <3>1, <3>3, <3>4 DEF PlacesInv
  <2>3. CASE PopAndProcess
    <3>1. Buffer!pop /\ UNCHANGED <<received, network>>
      BY <2>3 DEF PopAndProcess
    <3>2. /\ \A s \in Buffer!Held' : m_buffer'[s] \in Places /\ s = SeqNumber(m_buffer'[s])
          /\ m_buffer' = [s \in Buffer!Held' |-> m_buffer'[s]]
          /\ m_last_popped_seq' \in SeqNums /\ m_first_packet' \in BOOLEAN
          /\ popped' \in Places \cup {-1} /\ Buffer!NoPacket = -1
      BY <3>1, PopKeepsPlaces
    <3>3. \/ delivered' = delivered
          \/ popped' \in Places /\ delivered' = Append(delivered, popped')
      BY <2>3, <3>2 DEF PopAndProcess, unpacking
    <3>4. PICK p : p = popped'
      OBVIOUS
    <3>5. delivered' \in Seq(Places)
      BY <3>3, <3>4, AppendProperties DEF PlacesInv
    <3> QED BY <2>1, <3>1, <3>2, <3>5 DEF PlacesInv
  <2> QED BY <1>11, <2>2, <2>3
<1>12. CASE UNCHANGED vars
  BY <1>3, <1>5, <1>12 DEF vars
<1> QED BY <1>6, <1>7, <1>8, <1>9, <1>10, <1>11, <1>12
        DEF Next, Client, CaptureThread, ProcessThread

\* PlacesInv holds throughout.
LEMMA PlacesAlways == Spec => []PlacesInv
<1>1. Init => PlacesInv
  <2> SUFFICES ASSUME Init PROVE PlacesInv
    OBVIOUS
  <2>1. network = <<>> /\ delivered = <<>> /\ received = {} /\ popped = -1
    BY DEF Init, Buffer!Init, Buffer!NoPacket
  <2>2. /\ Buffer!Held = {} /\ m_buffer = [s \in {} |-> -1]
        /\ m_last_popped_seq = 0 /\ m_first_packet = TRUE
    BY DEF Init, Buffer!Init, Buffer!NoPacket, Buffer!Held
  <2>3. m_buffer = [s \in Buffer!Held |-> m_buffer[s]]
    BY <2>2
  <2> QED BY <2>1, <2>2, <2>3, Numbers, EmptySeq DEF PlacesInv
<1>2. SocketInv /\ SendingInv /\ PlacesInv /\ [Next]_vars => PlacesInv'
  BY PlacesStep
<1> QED BY <1>1, <1>2, SocketsAlways, SendingAlways, PTL DEF Spec

-----------------------------------------------------------------------------
(* The buffer never holds more than one packet above half its size.          *)

\* The instance has its own copy of the library's Cardinality.
LEMMA SameCardinality ==
  ASSUME NEW S
  PROVE  Buffer!Cardinality(S) = Cardinality(S)
BY DEF Cardinality, Buffer!Cardinality, IsFiniteSet, Buffer!IsFiniteSet

\* Half the size is a natural number.
LEMMA HalfFullType == Buffer!HalfFull \in Nat
BY JitterSizeAssumption DEF Buffer!HalfFull

\* The packets held are finitely many, their keys are numbers, and above half
\* the size there is one at most: between push and pop of process_loop.
BufferInv ==
  /\ Buffer!Held \subseteq Nat
  /\ IsFiniteSet(Buffer!Held)
  /\ HalfIsEnough

\* push adds one key at most.
LEMMA PushAddsOne ==
  ASSUME Buffer!Held \subseteq Nat, IsFiniteSet(Buffer!Held), NEW p \in Nat, Buffer!push(p)
  PROVE  /\ Buffer!Held' \subseteq Nat
         /\ IsFiniteSet(Buffer!Held')
         /\ Cardinality(Buffer!Held') <= Cardinality(Buffer!Held) + 1
<1> DEFINE H == Buffer!Held
           s == Buffer!SeqNumber(p)
           D == H \cup {s}
           b == Buffer!Insert(m_buffer, p)
<1>1. s \in Nat
  BY SeqSpaceAssumption DEF Buffer!SeqNumber
<1>2. DOMAIN b = D
  BY DEF Buffer!Insert, Buffer!Held
<1>3. Buffer!Held' \in SUBSET D
  <2>1. m_buffer' = b \/ m_buffer' = Buffer!Erase(b, Buffer!Begin(DOMAIN b))
    BY DEF Buffer!push
  <2>2. DOMAIN Buffer!Erase(b, Buffer!Begin(DOMAIN b)) \subseteq DOMAIN b
    BY DEF Buffer!Erase
  <2> HIDE DEF b
  <2> QED BY <1>2, <2>1, <2>2 DEF Buffer!Held
<1>4. Cardinality(H) \in Nat
  BY FS_CardinalityType
<1>5. IsFiniteSet(D) /\ Cardinality(D) <= Cardinality(H) + 1 /\ Cardinality(D) \in Nat
  <2>1. IsFiniteSet(D) /\ Cardinality(D) = IF s \in H THEN Cardinality(H) ELSE Cardinality(H) + 1
    <3> HIDE DEF H, s
    <3> QED BY FS_AddElement DEF H
  <2> HIDE DEF D, H, s
  <2> QED BY <1>4, <2>1
<1>6. /\ IsFiniteSet(Buffer!Held')
      /\ Cardinality(Buffer!Held') <= Cardinality(D)
      /\ Cardinality(Buffer!Held') \in Nat
  <2> HIDE DEF D
  <2> QED BY <1>3, <1>5, FS_Subset, FS_CardinalityType
<1>7. D \subseteq Nat
  <2> HIDE DEF s
  <2> QED BY <1>1
<1>8. Buffer!Held' \subseteq Nat
  BY <1>3, <1>7
<1> HIDE DEF D, H
<1>9. Cardinality(Buffer!Held') <= Cardinality(H) + 1
  BY <1>4, <1>5, <1>6
<1> QED BY <1>6, <1>8, <1>9 DEF H

\* pop leaves half the size at most if one more than that was held.
LEMMA PopLeavesHalf ==
  ASSUME Buffer!Held \subseteq Nat, IsFiniteSet(Buffer!Held), Buffer!pop,
         Cardinality(Buffer!Held) <= Buffer!HalfFull + 1
  PROVE  /\ Buffer!Held' \subseteq Nat
         /\ IsFiniteSet(Buffer!Held')
         /\ Cardinality(Buffer!Held') <= Buffer!HalfFull
<1>1. Cardinality(Buffer!Held) \in Nat
  BY FS_CardinalityType
<1>2. CASE Buffer!PopHead
  <2>1. Buffer!Begin(Buffer!Held) \in Buffer!Held
    BY <1>2, BeginIsKey DEF Buffer!PopHead, Buffer!Ready
  <2>2. Buffer!Held' = Buffer!Held \ {Buffer!Begin(Buffer!Held)}
    BY <1>2 DEF Buffer!PopHead, Buffer!Erase, Buffer!Held
  <2>3. IsFiniteSet(Buffer!Held') /\ Cardinality(Buffer!Held') = Cardinality(Buffer!Held) - 1
    BY <2>1, <2>2, FS_RemoveElement
  <2>4. Buffer!Held' \subseteq Nat
    BY <2>2
  <2>5. Cardinality(Buffer!Held') <= Buffer!HalfFull
    BY <1>1, <2>3, HalfFullType
  <2> QED BY <2>3, <2>4, <2>5
<1>3. CASE Buffer!PopNothing
  <2>1. Buffer!Held' = Buffer!Held
    BY <1>3 DEF Buffer!PopNothing, Buffer!Held
  <2>2. Cardinality(Buffer!Held) <= Buffer!HalfFull
    <3>1. CASE Buffer!Held = {}
      BY <3>1, FS_EmptySet, HalfFullType
    <3>2. CASE ~ (Cardinality(Buffer!Held) > Buffer!HalfFull)
      BY <1>1, <3>2, HalfFullType
    <3> QED BY <1>3, <3>1, <3>2, SameCardinality DEF Buffer!PopNothing, Buffer!Ready
  <2> QED BY <2>1, <2>2
<1> QED BY <1>2, <1>3 DEF Buffer!pop

\* Steps that leave the buffer alone may leave "pop" only by PopAndProcess.
LEMMA BufferKept ==
  ASSUME BufferInv, UNCHANGED m_buffer, process = "pop" => process' = "pop"
  PROVE  BufferInv'
<1>1. Buffer!Held' = Buffer!Held /\ Buffer!HalfFull' = Buffer!HalfFull
  BY DEF Buffer!Held, Buffer!HalfFull
<1>2. Cardinality(Buffer!Held) \in Nat
  BY FS_CardinalityType DEF BufferInv
<1>3. HalfIsEnough'
  BY <1>1, <1>2, HalfFullType DEF BufferInv, HalfIsEnough
<1> QED BY <1>1, <1>3 DEF BufferInv

\* BufferInv is preserved by every step.
LEMMA BufferStep ==
  ASSUME SocketInv, PlacesInv, BufferInv, [Next]_vars
  PROVE  BufferInv'
<1>0. Buffer!HalfFull' = Buffer!HalfFull
  BY DEF Buffer!HalfFull
<1>1. CASE start
  <2>1. UNCHANGED m_buffer
    BY <1>1 DEF start, receiving, buffering
  <2>2. process = "pop" => process' = "pop"
    BY <1>1 DEF start, StartRefused, StartThrows, StartFails, StartSucceeds, SocketInv
  <2> QED BY <2>1, <2>2, BufferKept
<1>2. CASE StopBegins \/ StopEnds \/ CaptureThread
  <2>1. UNCHANGED <<m_buffer, process>>
    BY <1>2 DEF StopBegins, StopEnds, CaptureThread, receiving, buffering
  <2> QED BY <2>1, BufferKept
<1>3. CASE ProcessThread /\ (ProcessChecks \/ ReceiveNothing)
  <2>1. UNCHANGED m_buffer /\ process # "pop"
    BY <1>3 DEF ProcessChecks, ReceiveNothing, receiving, buffering
  <2> QED BY <2>1, BufferKept
<1>4. CASE ProcessThread /\ ReceivePacket
  <2>1. Head(network) \in Nat
    BY <1>4, HeadTailProperties DEF ReceivePacket, PlacesInv, Places
  <2>2. Buffer!push(Head(network)) /\ process = "receive" /\ process' = "pop"
    BY <1>4 DEF ReceivePacket
  <2>3. /\ Buffer!Held' \subseteq Nat
        /\ IsFiniteSet(Buffer!Held')
        /\ Cardinality(Buffer!Held') <= Cardinality(Buffer!Held) + 1
    BY <2>1, <2>2, PushAddsOne DEF BufferInv
  <2>4. Cardinality(Buffer!Held) \in Nat /\ Cardinality(Buffer!Held') \in Nat
    BY <2>3, FS_CardinalityType DEF BufferInv
  <2>5. Cardinality(Buffer!Held) <= Buffer!HalfFull
    BY <2>2, HalfFullType DEF BufferInv, HalfIsEnough
  <2>6. Cardinality(Buffer!Held') <= Buffer!HalfFull + 1
    BY <2>3, <2>4, <2>5, HalfFullType
  <2> QED BY <1>0, <2>2, <2>3, <2>6 DEF BufferInv, HalfIsEnough
<1>5. CASE ProcessThread /\ PopAndProcess
  <2>1. Buffer!pop /\ process = "pop" /\ process' = "check"
    BY <1>5 DEF PopAndProcess
  <2>2. Cardinality(Buffer!Held) <= Buffer!HalfFull + 1
    BY <2>1 DEF BufferInv, HalfIsEnough
  <2>3. /\ Buffer!Held' \subseteq Nat
        /\ IsFiniteSet(Buffer!Held')
        /\ Cardinality(Buffer!Held') <= Buffer!HalfFull
    BY <2>1, <2>2, PopLeavesHalf DEF BufferInv
  <2> QED BY <1>0, <2>1, <2>3, HalfFullType DEF BufferInv, HalfIsEnough
<1>6. CASE UNCHANGED vars
  <2>1. UNCHANGED <<m_buffer, process>>
    BY <1>6 DEF vars, receiving, buffering
  <2> QED BY <2>1, BufferKept
<1> QED BY <1>1, <1>2, <1>3, <1>4, <1>5, <1>6 DEF Next, Client, ProcessThread

\* Whatever the network does, the jitter buffer never holds more than one packet
\* above half its size, so that with room for one at least push never drops.
THEOREM HalfIsAlwaysEnough == Spec => []HalfIsEnough
<1>1. Init => BufferInv
  <2> SUFFICES ASSUME Init PROVE BufferInv
    OBVIOUS
  <2>1. Buffer!Held = {} /\ process # "pop"
    BY DEF Init, Buffer!Init, Buffer!Held
  <2> QED BY <2>1, FS_EmptySet, HalfFullType DEF BufferInv, HalfIsEnough
<1>2. SocketInv /\ PlacesInv /\ BufferInv /\ [Next]_vars => BufferInv'
  BY BufferStep
<1>3. BufferInv => HalfIsEnough
  BY DEF BufferInv
<1> QED BY <1>1, <1>2, <1>3, SocketsAlways, PlacesAlways, PTL DEF Spec

-----------------------------------------------------------------------------
(* What the depacketizer keeps.                                              *)

\* What the depacketizer is given.
Processed == [pos : Nat, seq : SeqNums, kind : {"single", "fu"}, start : BOOLEAN, end : BOOLEAN]

\* A position that was sent stands for a packet with that position's number.
LEMMA PacketOfPlace ==
  ASSUME SendingInv, NEW p \in Places
  PROVE  RtpPacket(p) \in Processed /\ RtpPacket(p).seq = SeqNumber(p) /\ p \in Nat
<1>1. Len(sent) \in Nat
  BY LenProperties DEF SendingInv
<1>2. p \in Nat /\ p + 1 \in 1 .. Len(sent) /\ (p + 1) - 1 = p
  BY <1>1 DEF Places
<1>3. PICK packet \in Wire : packet = sent[p + 1] /\ packet.seq = SeqNumber(p)
  BY <1>2, ElementOfSeq DEF SendingInv
<1>4. RtpPacket(p) = [pos |-> p, seq |-> packet.seq, kind |-> packet.kind,
                      start |-> packet.start, end |-> packet.end]
  BY <1>3 DEF RtpPacket
<1>5. RtpPacket(p) \in Processed /\ RtpPacket(p).seq = packet.seq
  BY <1>2, <1>3, <1>4 DEF Wire, Processed
<1> QED BY <1>2, <1>3, <1>5

\* Sessions hold positions under numbers, and the counters count.
UnpackingInv ==
  /\ Depacketizer!Sessions \subseteq SeqNums
  /\ \A s \in Depacketizer!Sessions :
       m_fu_sessions[s] \in [started : BOOLEAN, payload : Seq(Nat)]
  /\ m_expected_sequence \in SeqNums
  /\ m_lost_packets \in Nat /\ m_reordered_packets \in Nat /\ m_complete_frames \in Nat
  /\ Len(units) <= 1

\* The instance's type invariant says no more.
LEMMA UnpackingIsTyped == UnpackingInv => Depacketizer!TypeOK
<1> SUFFICES ASSUME UnpackingInv PROVE Depacketizer!TypeOK
  OBVIOUS
<1>1. ASSUME NEW s \in Depacketizer!Sessions
      PROVE  /\ m_fu_sessions[s].started \in BOOLEAN
             /\ \A i \in DOMAIN m_fu_sessions[s].payload : m_fu_sessions[s].payload[i] \in Nat
  <2>1. m_fu_sessions[s] \in [started : BOOLEAN, payload : Seq(Nat)]
    BY DEF UnpackingInv
  <2>2. PICK q \in Seq(Nat) : q = m_fu_sessions[s].payload
    BY <2>1
  <2>3. \A i \in DOMAIN q : q[i] \in Nat
    BY ElementOfSeq, LenProperties
  <2> QED BY <2>1, <2>2, <2>3
<1> QED BY <1>1, SameNumbers DEF UnpackingInv, Depacketizer!TypeOK

\* update_statistics counts and expects the number after the packet's.
LEMMA CountersStay ==
  ASSUME UnpackingInv, NEW seq \in SeqNums, Depacketizer!update_statistics(seq)
  PROVE  /\ m_expected_sequence' \in SeqNums
         /\ m_lost_packets' \in Nat /\ m_reordered_packets' \in Nat
<1>1. PICK diff \in Nat : diff = Depacketizer!SeqDistance(m_expected_sequence, seq)
  BY SeqSpaceAssumption DEF UnpackingInv, Depacketizer!SeqDistance, SeqNums
<1>2. Depacketizer!LostIn(diff) \in Nat
  BY DEF Depacketizer!LostIn
<1>3. NextSeq(seq) \in SeqNums
  BY SeqSpaceAssumption DEF NextSeq, SeqNums
<1> QED BY <1>1, <1>2, <1>3, SameNumbers DEF Depacketizer!update_statistics, UnpackingInv

\* Whatever packet comes, sessions stay sessions.
LEMMA ProcessKeepsTypes ==
  ASSUME UnpackingInv, NEW pkt \in Processed, Depacketizer!process_packet(pkt)
  PROVE  UnpackingInv' /\ Depacketizer!update_statistics(pkt.seq)
<1> DEFINE State == [started : BOOLEAN, payload : Seq(Nat)]
<1>1. /\ pkt.pos \in Nat /\ pkt.seq \in SeqNums /\ pkt.start \in BOOLEAN
      /\ pkt.kind = "single" \/ pkt.kind = "fu"
  BY DEF Processed
<1>2. Depacketizer!SingleNalu(pkt) \/ Depacketizer!Fragment(pkt)
  BY <1>1 DEF Depacketizer!process_packet, Depacketizer!Invalid, Depacketizer!ShortFu
<1>3. Depacketizer!update_statistics(pkt.seq)
  BY <1>2 DEF Depacketizer!SingleNalu, Depacketizer!Fragment
<1>4. /\ m_expected_sequence' \in SeqNums
      /\ m_lost_packets' \in Nat /\ m_reordered_packets' \in Nat
  BY <1>1, <1>3, CountersStay
<1>5. m_complete_frames' \in Nat /\ Len(units') <= 1
  <2>1. \/ Depacketizer!EmitNothing
        \/ \E unit : Depacketizer!Emit(unit)
    BY <1>2 DEF Depacketizer!SingleNalu, Depacketizer!Fragment
  <2>2. CASE Depacketizer!EmitNothing
    BY <2>2, EmptySeq DEF Depacketizer!EmitNothing, UnpackingInv
  <2>3. ASSUME NEW unit, Depacketizer!Emit(unit)
        PROVE  m_complete_frames' \in Nat /\ Len(units') <= 1
    <3>1. Len(<<unit>>) = 1
      OBVIOUS
    <3> QED BY <2>3, <3>1 DEF Depacketizer!Emit, UnpackingInv
  <2> QED BY <2>1, <2>2, <2>3
<1>6. PICK opened : opened = Depacketizer!Opened(pkt)
  OBVIOUS
<1>7. opened \in State
  <2>1. \A seq : Depacketizer!Session(seq) \in State
    BY EmptySeq DEF Depacketizer!Session, Depacketizer!NewSession, UnpackingInv
  <2> QED BY <1>6, <2>1, EmptySeq DEF Depacketizer!Opened
<1>8. PICK grown : grown = [opened EXCEPT !.payload = Append(@, pkt.pos)]
  OBVIOUS
<1>9. grown \in State
  <2>1. Append(opened.payload, pkt.pos) \in Seq(Nat)
    BY <1>1, <1>7, AppendProperties
  <2> QED BY <1>7, <1>8, <2>1
<1>10. \/ UNCHANGED m_fu_sessions
       \/ m_fu_sessions' = Depacketizer!Stored(pkt.seq, opened)
       \/ m_fu_sessions' = Depacketizer!Stored(pkt.seq, grown)
       \/ m_fu_sessions' = [s \in Depacketizer!Sessions \ {pkt.seq} |-> m_fu_sessions[s]]
  BY <1>2, <1>6, <1>8 DEF Depacketizer!SingleNalu, Depacketizer!Fragment
<1>11. ASSUME NEW state \in State, m_fu_sessions' = Depacketizer!Stored(pkt.seq, state)
       PROVE  /\ Depacketizer!Sessions' \subseteq SeqNums
              /\ \A s \in Depacketizer!Sessions' : m_fu_sessions'[s] \in State
  BY <1>1, <1>11 DEF UnpackingInv, Depacketizer!Stored, Depacketizer!Sessions
<1>12. /\ Depacketizer!Sessions' \subseteq SeqNums
       /\ \A s \in Depacketizer!Sessions' : m_fu_sessions'[s] \in State
  <2>1. CASE UNCHANGED m_fu_sessions
    BY <2>1 DEF UnpackingInv, Depacketizer!Sessions
  <2>2. CASE m_fu_sessions' = [s \in Depacketizer!Sessions \ {pkt.seq} |-> m_fu_sessions[s]]
    BY <2>2 DEF UnpackingInv, Depacketizer!Sessions
  <2> QED BY <1>7, <1>9, <1>10, <1>11, <2>1, <2>2
<1> QED BY <1>3, <1>4, <1>5, <1>12 DEF UnpackingInv

\* process_loop's pop either gives nothing and changes nothing, or gives a packet that
\* the depacketizer then processes.
LEMMA PopGives ==
  ASSUME SendingInv, PlacesInv, PopAndProcess
  PROVE  \/ popped' = -1 /\ UNCHANGED <<delivered, unpacking>>
         \/ \E pkt \in Processed :
              /\ popped' \in Places /\ delivered' = Append(delivered, popped')
              /\ pkt = RtpPacket(popped') /\ pkt.seq = SeqNumber(popped')
              /\ Depacketizer!process_packet(pkt)
<1>1. popped' \in Places \cup {-1} /\ Buffer!NoPacket = -1
  BY PopKeepsPlaces DEF PopAndProcess
<1>2. CASE popped' = -1
  BY <1>1, <1>2 DEF PopAndProcess
<1>3. CASE popped' # -1
  <2>1. PICK p \in Places : p = popped'
    BY <1>1, <1>3
  <2>2. /\ Depacketizer!process_packet(RtpPacket(popped'))
        /\ delivered' = Append(delivered, popped')
    BY <1>1, <1>3 DEF PopAndProcess
  <2>3. PICK pkt \in Processed : pkt = RtpPacket(p) /\ pkt.seq = SeqNumber(p)
    BY PacketOfPlace
  <2>4. Depacketizer!process_packet(pkt)
    BY <2>1, <2>2, <2>3
  <2> QED BY <2>1, <2>2, <2>3, <2>4
<1> QED BY <1>2, <1>3

\* UnpackingInv is preserved by every step.
LEMMA UnpackingStep ==
  ASSUME SendingInv, PlacesInv, UnpackingInv, [Next]_vars
  PROVE  UnpackingInv'
<1>1. ASSUME UNCHANGED unpacking PROVE UnpackingInv'
  BY <1>1 DEF unpacking, UnpackingInv, Depacketizer!Sessions
<1>2. CASE PopAndProcess
  <2>1. CASE UNCHANGED unpacking
    BY <1>1, <2>1
  <2>2. ASSUME NEW pkt \in Processed, Depacketizer!process_packet(pkt)
        PROVE  UnpackingInv'
    BY <2>2, ProcessKeepsTypes
  <2> QED BY <1>2, <2>1, <2>2, PopGives
<1>3. CASE start \/ StopBegins \/ StopEnds \/ CaptureThread
  BY <1>1, <1>3 DEF start, StopBegins, StopEnds, CaptureThread, receiving
<1>4. CASE ProcessChecks \/ ReceivePacket \/ ReceiveNothing
  BY <1>1, <1>4 DEF ProcessChecks, ReceivePacket, ReceiveNothing, receiving
<1>5. CASE UNCHANGED vars
  BY <1>1, <1>5 DEF vars, receiving
<1> QED BY <1>2, <1>3, <1>4, <1>5 DEF Next, Client, ProcessThread

\* UnpackingInv holds throughout.
LEMMA UnpackingAlways == Spec => []UnpackingInv
<1>1. Init => UnpackingInv
  <2> SUFFICES ASSUME Init PROVE UnpackingInv
    OBVIOUS
  <2>1. Depacketizer!Sessions = {} /\ units = <<>>
    BY DEF Init, Depacketizer!Init, Depacketizer!Sessions
  <2> QED BY <2>1, Numbers, EmptySeq DEF Init, Depacketizer!Init, UnpackingInv
<1>2. SendingInv /\ PlacesInv /\ UnpackingInv /\ [Next]_vars => UnpackingInv'
  BY UnpackingStep
<1> QED BY <1>1, <1>2, SendingAlways, PlacesAlways, PTL DEF Spec

-----------------------------------------------------------------------------
(* The shape of the state.                                                   *)

ControlInv ==
  /\ m_running \in BOOLEAN /\ sender \in BOOLEAN /\ same_ms \in BOOLEAN
  /\ client \in {"idle", "joining"}
  /\ result \in {"none", "started", "refused", "failed", "stopped", "threw"}
  /\ capture \in {"off", "check", "send"}
  /\ process \in {"off", "check", "receive", "pop"}
  /\ receiver \in {"closed", "open", "bound"}

\* What the client and the threads are at is among the things they can be at.
LEMMA ControlStep ==
  ASSUME ControlInv, [Next]_vars
  PROVE  ControlInv'
<1>1. CASE start /\ ~StartSucceeds
  BY <1>1 DEF start, StartRefused, StartThrows, StartFails, CreateLogger, sockets, ControlInv
<1>2. CASE start /\ StartSucceeds
  BY <1>2 DEF start, StartRefused, StartThrows, StartFails, StartSucceeds, CreateLogger,
              ControlInv, sockets
<1>3. CASE StopBegins
  BY <1>3 DEF StopBegins, sockets, ControlInv
<1>4. CASE StopEnds
  BY <1>4 DEF StopEnds, CreateLogger, ControlInv
<1>5. CASE CaptureThread
  BY <1>5 DEF CaptureThread, CaptureChecks, SendPacket, FrameSent, Encode, RoundEnds, Tick,
              Sleep, sockets, ControlInv
<1>6. CASE ProcessThread
  BY <1>6 DEF ProcessThread, ProcessChecks, ReceivePacket, ReceiveNothing, PopAndProcess,
              Tick, Sleep, sockets, ControlInv
<1>7. CASE UNCHANGED vars
  BY <1>7 DEF vars, control, sockets, ControlInv
<1> QED BY <1>1, <1>2, <1>3, <1>4, <1>5, <1>6, <1>7 DEF Next, Client

\* The pipeline, its buffer and its depacketizer keep their shape, and nothing is
\* anywhere that was not sent.
THEOREM PipelineIsTyped == Spec => []TypeOK
<1>1. Spec => []ControlInv
  <2>1. Init => ControlInv
    BY DEF Init, ControlInv
  <2>2. ControlInv /\ [Next]_vars => ControlInv'
    BY ControlStep
  <2> QED BY <2>1, <2>2, PTL DEF Spec
<1>2. ControlInv /\ SendingInv /\ PlacesInv /\ UnpackingInv => TypeOK
  <2> SUFFICES ASSUME ControlInv, SendingInv, PlacesInv, UnpackingInv
               PROVE  TypeOK
    OBVIOUS
  <2>1. ToSet(network) \subseteq Places /\ ToSet(delivered) \subseteq Places
    BY ElementOfSeq, LenProperties DEF PlacesInv, ToSet
  <2>2. ToSet(network) \cup received \cup ToSet(delivered) \subseteq 0 .. Len(sent) - 1
    BY <2>1 DEF PlacesInv, Places
  <2>3. Places \subseteq 0 .. MaxSent - 1
    <3>1. Len(sent) \in Nat /\ Len(outbox) \in Nat /\ Len(sent) + Len(outbox) <= MaxSent
      BY LenProperties DEF SendingInv
    <3> QED BY <3>1, MaxSentAssumption DEF Places
  <2>4. Buffer!TypeOK
    <3>1. m_buffer \in [Buffer!Held -> 0 .. MaxSent - 1]
      BY <2>3 DEF PlacesInv
    <3> QED BY <2>3, <3>1, HeldAreNumbers, SameNumbers
            DEF PlacesInv, Buffer!TypeOK, Buffer!NoPacket
  <2>5. Depacketizer!TypeOK
    BY UnpackingIsTyped
  <2> QED BY <2>2, <2>4, <2>5 DEF ControlInv, TypeOK
<1> QED BY <1>1, <1>2, SendingAlways, PlacesAlways, UnpackingAlways, PTL

-----------------------------------------------------------------------------
(* The order of what is handed over.                                         *)

\* One way to say what both channels expect next.
Due == IF delivered = <<>> THEN 0 ELSE delivered[Len(delivered)] + 1

LEMMA DueIsNext ==
  /\ Channel!Due = Due /\ LosslessChannel!Due = Due
  /\ PlacesInv => Due \in Nat /\ Len(delivered) \in Nat
<1>1. Channel!Due = Due /\ LosslessChannel!Due = Due
  BY DEF Due, Channel!Due, LosslessChannel!Due
<1>2. ASSUME PlacesInv PROVE Due \in Nat /\ Len(delivered) \in Nat
  <2>1. Len(delivered) \in Nat /\ (delivered # <<>> => Len(delivered) \in 1 .. Len(delivered))
    BY <1>2, LenProperties, EmptySeq DEF PlacesInv
  <2>2. \A i \in 1 .. Len(delivered) : delivered[i] \in Nat
    BY <1>2, ElementOfSeq DEF PlacesInv, Places
  <2> QED BY <2>1, <2>2 DEF Due
<1> QED BY <1>1, <1>2

\* Handing over p makes the one after it due.
LEMMA DueMoves ==
  ASSUME PlacesInv, NEW p \in Places, delivered' = Append(delivered, p)
  PROVE  Due' = p + 1 /\ Len(delivered') = Len(delivered) + 1
<1>1. Len(delivered) \in Nat /\ delivered' \in Seq(Places)
  BY AppendProperties, LenProperties DEF PlacesInv
<1>2. Len(delivered') = Len(delivered) + 1 /\ delivered'[Len(delivered) + 1] = p
  BY <1>1, AppendProperties DEF PlacesInv
<1>3. delivered' # <<>>
  BY <1>1, <1>2, EmptySeq
<1> QED BY <1>2, <1>3 DEF Due

\* pop takes the packet of the least number, or none.
LEMMA PopTakesFirst ==
  ASSUME PlacesInv, SendingInv, Buffer!pop
  PROVE  \/ popped' = -1 /\ UNCHANGED m_buffer
         \/ \E b \in Buffer!Held :
              /\ \A s \in Buffer!Held : b <= s
              /\ popped' = m_buffer[b]
              /\ m_buffer' = [s \in Buffer!Held \ {b} |-> m_buffer[s]]
<1>1. CASE Buffer!PopHead
  <2>1. PICK b : b = Buffer!Begin(Buffer!Held)
    OBVIOUS
  <2>2. b \in Buffer!Held /\ \A s \in Buffer!Held : b <= s
    BY <1>1, <2>1, BeginIsKey, HeldAreNumbers DEF Buffer!PopHead, Buffer!Ready
  <2>3. popped' = m_buffer[b] /\ m_buffer' = [s \in Buffer!Held \ {b} |-> m_buffer[s]]
    BY <1>1, <2>1 DEF Buffer!PopHead, Buffer!Erase, Buffer!Held
  <2> QED BY <2>2, <2>3
<1>2. CASE Buffer!PopNothing
  BY <1>2 DEF Buffer!PopNothing, Buffer!NoPacket
<1> QED BY <1>1, <1>2 DEF Buffer!pop

\* push adds nothing but the packet.
LEMMA PushAddsIt ==
  ASSUME PlacesInv, NEW p \in Places, Buffer!push(p)
  PROVE  \A s \in Buffer!Held' : \/ m_buffer'[s] = p
                                 \/ s \in Buffer!Held /\ m_buffer'[s] = m_buffer[s]
<1>1. PICK b : b = Buffer!Insert(m_buffer, p)
  OBVIOUS
<1>2. \A s \in DOMAIN b : \/ b[s] = p
                          \/ s \in Buffer!Held /\ b[s] = m_buffer[s]
  BY <1>1 DEF Buffer!Insert, Buffer!Held
<1>3. m_buffer' = b \/ \E first : m_buffer' = Buffer!Erase(b, first)
  BY <1>1 DEF Buffer!push
<1> QED BY <1>2, <1>3 DEF Buffer!Held, Buffer!Erase

\* Nothing is out of order anywhere: what is on its way is later than what is held, and
\* what is held is later than what was handed over.
OrderInv ==
  /\ \A i, j \in 1 .. Len(network) : i < j => network[i] < network[j]
  /\ \A i \in 1 .. Len(network) :
       Due <= network[i] /\ \A s \in Buffer!Held : m_buffer[s] < network[i]
  /\ \A s \in Buffer!Held : Due <= m_buffer[s]

\* The network keeps the order and the numbers do not come round: what a channel that
\* only loses packets is, in the first lap of the numbers.
FirstLap == Network \subseteq {"lose"} /\ MaxSent <= SeqSpace

\* A packet that is sent is later than all others.
LEMMA SendKeepsOrder ==
  ASSUME FirstLap, SendingInv, PlacesInv, OrderInv, CaptureThread, SendPacket
  PROVE  OrderInv'
<1>1. UNCHANGED <<delivered, m_buffer>>
  BY DEF CaptureThread, receiving, buffering
<1>2. Due' = Due /\ Buffer!Held' = Buffer!Held
  BY <1>1 DEF Due, Buffer!Held
<1>3. PICK n \in Nat, l \in Nat : n = Len(sent) /\ l = Len(network)
  <2>1. Len(sent) \in Nat
    BY LenProperties DEF SendingInv
  <2>2. Len(network) \in Nat
    BY LenProperties DEF PlacesInv
  <2> QED BY <2>1, <2>2
<1>4. /\ \A i \in 1 .. l : network[i] \in Nat /\ network[i] < n
      /\ \A s \in Buffer!Held : m_buffer[s] \in Nat /\ m_buffer[s] < n
  <2>1. \A q \in Places : q \in Nat /\ q < n
    BY <1>3 DEF Places
  <2>2. \A i \in 1 .. l : network[i] \in Places
    BY <1>3, ElementOfSeq DEF PlacesInv
  <2> QED BY <2>1, <2>2 DEF PlacesInv
<1>5. Due <= n
  <2>1. \A i \in 1 .. Len(delivered) : delivered[i] < n /\ delivered[i] \in Nat
    BY <1>3, ElementOfSeq DEF PlacesInv, Places
  <2>2. delivered # <<>> => Len(delivered) \in 1 .. Len(delivered)
    BY LenProperties, EmptySeq DEF PlacesInv
  <2> QED BY <1>3, <2>1, <2>2 DEF Due
<1>6. network' = Append(network, n) \/ network' = network
  BY <1>3 DEF SendPacket, Travels, FirstLap
<1>7. CASE network' = network
  BY <1>1, <1>2, <1>7 DEF OrderInv
<1>8. CASE network' = Append(network, n)
  <2>1. /\ Len(network') = l + 1 /\ network'[l + 1] = n
        /\ \A i \in 1 .. l : network'[i] = network[i]
    <3>1. network \in Seq(Nat)
      BY SeqMonotonic DEF PlacesInv, Places
    <3> QED BY <1>3, <1>8, <3>1, AppendProperties
  <2>2. ASSUME NEW i \in 1 .. l + 1, NEW j \in 1 .. l + 1, i < j
        PROVE  network'[i] < network'[j]
    <3>1. i \in 1 .. l /\ (j \in 1 .. l \/ j = l + 1)
      BY <2>2
    <3> QED BY <1>3, <1>4, <2>1, <2>2, <3>1 DEF OrderInv
  <2>3. ASSUME NEW i \in 1 .. l + 1
        PROVE  Due <= network'[i] /\ \A s \in Buffer!Held : m_buffer[s] < network'[i]
    <3>1. i \in 1 .. l \/ i = l + 1
      OBVIOUS
    <3> QED BY <1>3, <1>4, <1>5, <2>1, <3>1 DEF OrderInv
  <2> QED BY <1>1, <1>2, <2>1, <2>2, <2>3 DEF OrderInv
<1> QED BY <1>6, <1>7, <1>8

\* The first of the network goes into the buffer, later than what it holds.
LEMMA ReceiveKeepsOrder ==
  ASSUME SendingInv, PlacesInv, OrderInv, ReceivePacket
  PROVE  OrderInv'
<1>1. network # <<>> /\ network' = Tail(network) /\ UNCHANGED delivered
      /\ Buffer!push(Head(network))
  BY DEF ReceivePacket
<1>2. PICK l \in Nat : l = Len(network) /\ l > 0
  BY <1>1, LenProperties, EmptySeq DEF PlacesInv
<1>3. PICK p \in Places : p = Head(network) /\ p = network[1]
  BY <1>1, <1>2, HeadTailProperties DEF PlacesInv
<1>4. Len(network') = l - 1 /\ \A i \in 1 .. l - 1 : network'[i] = network[i + 1]
  BY <1>1, <1>2, HeadTailProperties DEF PlacesInv
<1>5. \A s \in Buffer!Held' : \/ m_buffer'[s] = p
                              \/ s \in Buffer!Held /\ m_buffer'[s] = m_buffer[s]
  BY <1>1, <1>3, PushAddsIt
<1>6. Due' = Due
  BY <1>1 DEF Due
<1>7. \A i \in 1 .. l - 1 : i + 1 \in 1 .. l /\ 1 \in 1 .. l /\ 1 < i + 1
  BY <1>2
<1>8. \A i \in 1 .. l - 1 : p < network'[i]
  BY <1>2, <1>3, <1>4, <1>7 DEF OrderInv
<1>9. ASSUME NEW i \in 1 .. l - 1, NEW j \in 1 .. l - 1, i < j
      PROVE  network'[i] < network'[j]
  <2>1. i + 1 < j + 1
    BY <1>9
  <2> QED BY <1>2, <1>4, <1>7, <2>1 DEF OrderInv
<1>10. ASSUME NEW i \in 1 .. l - 1
       PROVE  Due <= network'[i] /\ \A s \in Buffer!Held' : m_buffer'[s] < network'[i]
  BY <1>2, <1>4, <1>5, <1>7, <1>8 DEF OrderInv
<1>11. \A s \in Buffer!Held' : Due <= m_buffer'[s]
  <2>1. Due <= p
    BY <1>2, <1>3 DEF OrderInv
  <2> QED BY <1>5, <2>1 DEF OrderInv
<1> QED BY <1>4, <1>6, <1>9, <1>10, <1>11 DEF OrderInv

\* In the first lap the least number held is that of the earliest packet.
LEMMA PopKeepsOrder ==
  ASSUME FirstLap, SendingInv, PlacesInv, OrderInv, PopAndProcess
  PROVE  /\ OrderInv'
         /\ UNCHANGED network
         /\ \/ delivered' = delivered
            \/ \E p \in Places : /\ Due <= p /\ popped' = p
                                 /\ delivered' = Append(delivered, p)
<1>1. Buffer!pop /\ UNCHANGED network
  BY DEF PopAndProcess
<1>2. CASE popped' = -1 /\ UNCHANGED m_buffer
  <2>1. UNCHANGED delivered
    BY <1>2 DEF PopAndProcess, Buffer!NoPacket
  <2> QED BY <1>1, <1>2, <2>1 DEF OrderInv, Due, Buffer!Held
<1>3. ASSUME NEW b \in Buffer!Held, \A s \in Buffer!Held : b <= s, popped' = m_buffer[b],
             m_buffer' = [s \in Buffer!Held \ {b} |-> m_buffer[s]]
      PROVE  OrderInv' /\ \E p \in Places : /\ Due <= p /\ popped' = p
                                            /\ delivered' = Append(delivered, p)
  <2>1. PICK p \in Places : p = m_buffer[b] /\ Due <= p
    BY DEF PlacesInv, OrderInv
  <2>2. p \in Nat /\ popped' # -1
    BY <1>3, <2>1 DEF Places
  <2>3. delivered' = Append(delivered, p)
    BY <1>3, <2>1, <2>2, PopGives
  <2>4. Due' = p + 1
    BY <2>1, <2>3, DueMoves
  <2>5. \A s \in Buffer!Held : m_buffer[s] = s /\ s \in Nat
    <3>1. Len(sent) \in Nat /\ Len(sent) <= MaxSent
      BY LenProperties, MaxSentAssumption DEF SendingInv
    <3> TAKE s \in Buffer!Held
    <3>2. m_buffer[s] \in Places /\ s = SeqNumber(m_buffer[s]) /\ s \in Nat
      BY HeldAreNumbers DEF PlacesInv
    <3>3. m_buffer[s] \in SeqNums
      BY <3>1, <3>2, SeqSpaceAssumption, MaxSentAssumption DEF FirstLap, Places, SeqNums
    <3> QED BY <3>2, <3>3, Numbers
  <2>6. /\ Buffer!Held' = Buffer!Held \ {b}
        /\ \A s \in Buffer!Held' : s \in Buffer!Held /\ m_buffer'[s] = m_buffer[s]
    BY <1>3 DEF Buffer!Held
  <2>7. \A s \in Buffer!Held' : p + 1 <= m_buffer'[s]
    <3> TAKE s \in Buffer!Held'
    <3>1. b <= s /\ b # s
      BY <1>3, <2>6
    <3> QED BY <2>1, <2>2, <2>5, <2>6, <3>1
  <2>8. \A i \in 1 .. Len(network) : p + 1 <= network[i]
    <3> TAKE i \in 1 .. Len(network)
    <3>1. p < network[i] /\ network[i] \in Nat
      BY <2>1, ElementOfSeq DEF OrderInv, PlacesInv, Places
    <3> QED BY <2>2, <3>1
  <2>9. OrderInv'
    BY <1>1, <2>4, <2>6, <2>7, <2>8 DEF OrderInv
  <2> QED BY <1>3, <2>1, <2>3, <2>9
<1> QED BY <1>1, <1>2, <1>3, PopTakesFirst

\* OrderInv is preserved by every step, and a step of the pipeline is one of the channel
\* or none: it sends a packet, hands over one that is due or later, or does neither.
LEMMA OrderStep ==
  ASSUME FirstLap, SocketInv, SendingInv, PlacesInv, OrderInv, [Next]_vars
  PROVE  OrderInv' /\ [Channel!Next]_(Channel!vars)
<1>1. ASSUME UNCHANGED <<sent, delivered>> PROVE [Channel!Next]_(Channel!vars)
  BY <1>1 DEF Channel!vars
<1>2. ASSUME UNCHANGED <<network, delivered, m_buffer>> PROVE OrderInv'
  BY <1>2 DEF OrderInv, Due, Buffer!Held
<1>3. CASE start \/ StopBegins
  BY <1>1, <1>2, <1>3 DEF start, StopBegins, sending, receiving, buffering
<1>4. CASE StopEnds
  <2>1. UNCHANGED <<sent, delivered, m_buffer>>
    BY <1>4 DEF StopEnds, sending, receiving, buffering
  <2>2. PICK arrived \in 0 .. Len(network) : network' = SubSeq(network, arrived + 1, Len(network))
    BY <1>4 DEF StopEnds
  <2>3. PICK l \in Nat : l = Len(network) /\ \A i \in 1 .. l : network[i] \in Places
    BY LenProperties, ElementOfSeq DEF PlacesInv
  <2>4. Len(network') = l - arrived /\ \A i \in 1 .. l - arrived : network'[i] = network[arrived + i]
    <3>1. \A i \in arrived + 1 .. l : network[i] \in Places
      BY <2>3
    <3>2. /\ Len(network') = IF arrived + 1 <= l THEN l - (arrived + 1) + 1 ELSE 0
          /\ \A i \in 1 .. l - (arrived + 1) + 1 : network'[i] = network[(arrived + 1) + i - 1]
      BY <2>2, <2>3, <3>1, SubSeqProperties
    <3>3. \A i \in 1 .. l - arrived : (arrived + 1) + i - 1 = arrived + i
      OBVIOUS
    <3> QED BY <2>3, <3>2, <3>3
  <2>5. \A i \in 1 .. l - arrived : arrived + i \in 1 .. l
    OBVIOUS
  <2>6. \A i, j \in 1 .. l - arrived : i < j => network'[i] < network'[j]
    <3>1. \A i, j \in 1 .. l - arrived : i < j => arrived + i < arrived + j
      OBVIOUS
    <3> QED BY <2>3, <2>4, <2>5, <3>1 DEF OrderInv
  <2>7. \A i \in 1 .. l - arrived :
          Due <= network'[i] /\ \A s \in Buffer!Held : m_buffer[s] < network'[i]
    BY <2>3, <2>4, <2>5 DEF OrderInv
  <2>8. OrderInv'
    BY <2>1, <2>4, <2>6, <2>7 DEF OrderInv, Due, Buffer!Held
  <2> QED BY <1>1, <2>1, <2>8
<1>5. CASE CaptureThread /\ (CaptureChecks \/ FrameSent)
  <2>1. UNCHANGED <<sent, network, delivered, m_buffer>>
    BY <1>5 DEF CaptureThread, CaptureChecks, FrameSent, Encode, RoundEnds, sending,
                receiving, buffering
  <2> QED BY <1>1, <1>2, <2>1
<1>6. CASE CaptureThread /\ SendPacket
  <2>1. UNCHANGED delivered /\ Len(sent') = Len(sent) + 1
    BY <1>6, SendKeepsNumbers DEF CaptureThread, receiving
  <2>2. Channel!Send
    BY <2>1 DEF Channel!Send
  <2> QED BY <1>6, <2>2, SendKeepsOrder DEF Channel!Next
<1>7. CASE ProcessThread /\ (ProcessChecks \/ ReceiveNothing)
  BY <1>1, <1>2, <1>7 DEF ProcessThread, ProcessChecks, ReceiveNothing, sending, receiving,
                          buffering
<1>8. CASE ProcessThread /\ ReceivePacket
  <2>1. UNCHANGED <<sent, delivered>>
    BY <1>8 DEF ProcessThread, ReceivePacket, sending
  <2> QED BY <1>1, <1>8, <2>1, ReceiveKeepsOrder
<1>9. CASE ProcessThread /\ PopAndProcess
  <2>1. UNCHANGED sent
    BY <1>9 DEF ProcessThread, sending
  <2>2. ASSUME NEW p \in Places, Due <= p, delivered' = Append(delivered, p)
        PROVE  Channel!Deliver
    <3>1. Len(sent) \in Nat /\ Due \in Nat
      BY DueIsNext, LenProperties DEF SendingInv
    <3>2. p < Len(sent) /\ p \in Due .. Len(sent) - 1
      BY <2>2, <3>1 DEF Places
    <3> QED BY <2>1, <2>2, <3>2, DueIsNext DEF Channel!Deliver
  <2> QED BY <1>1, <1>9, <2>1, <2>2, PopKeepsOrder DEF Channel!Next
<1>10. CASE UNCHANGED vars
  BY <1>1, <1>2, <1>10 DEF vars, sending, receiving, buffering
<1> QED BY <1>3, <1>4, <1>5, <1>6, <1>7, <1>8, <1>9, <1>10
        DEF Next, Client, CaptureThread, ProcessThread

\* In the beginning nothing is anywhere.
LEMMA OrderStarts == Init => OrderInv /\ Channel!Init /\ LosslessChannel!Init
<1> SUFFICES ASSUME Init PROVE OrderInv /\ Channel!Init /\ LosslessChannel!Init
  OBVIOUS
<1>1. sent = <<>> /\ network = <<>> /\ delivered = <<>> /\ Buffer!Held = {}
  BY DEF Init, Buffer!Init, Buffer!Held
<1>2. Len(<<>>) = 0
  BY EmptySeq
<1> QED BY <1>1, <1>2 DEF OrderInv, Channel!Init, LosslessChannel!Init

\* OrderInv holds throughout.
LEMMA OrderAlways ==
  ASSUME FirstLap
  PROVE  Spec => []OrderInv
<1>1. SocketInv /\ SendingInv /\ PlacesInv /\ OrderInv /\ [Next]_vars => OrderInv'
  BY OrderStep
<1> QED BY <1>1, OrderStarts, SocketsAlways, SendingAlways, PlacesAlways, PTL DEF Spec

\* Over a network that loses packets but keeps their order, the pipeline is a channel
\* that hands over what it hands over in order and once, through any number of stops
\* and starts: buffer, threads and sockets can be forgotten (pipeline.ixx:58-160,
\* jitter_buffer.cpp:20-74).
THEOREM PacketsComeInOrder ==
  ASSUME FirstLap
  PROVE  Spec => InOrder
<1>1. SocketInv /\ SendingInv /\ PlacesInv /\ OrderInv /\ [Next]_vars
        => [Channel!Next]_(Channel!vars)
  BY OrderStep
<1>2. Init => Channel!Init
  BY OrderStarts
<1> QED BY <1>1, <1>2, OrderAlways, SocketsAlways, SendingAlways, PlacesAlways, PTL
        DEF Spec, InOrder, Channel!Spec

-----------------------------------------------------------------------------
(* The counters of the depacketizer.                                         *)

\* The depacketizer expects the packet that is due, and has counted those that were due
\* and never came.
GapsInv ==
  /\ m_expected_sequence = SeqNumber(Due)
  /\ m_lost_packets + m_reordered_packets = Due - Len(delivered)

\* A packet that comes d late adds d.
LEMMA GapIsCounted ==
  ASSUME FirstLap, SendingInv, PlacesInv, UnpackingInv, GapsInv, NEW p \in Places, Due <= p,
         delivered' = Append(delivered, p), Depacketizer!update_statistics(SeqNumber(p))
  PROVE  GapsInv'
<1>1. Due \in Nat /\ Len(delivered) \in Nat
  BY DueIsNext
<1>2. Len(sent) \in Nat /\ Len(sent) <= MaxSent
  BY LenProperties, MaxSentAssumption DEF SendingInv
<1>3. PICK m \in Nat : m = SeqSpace /\ p < m /\ m > 0 /\ p \in Nat
  BY <1>2, SeqSpaceAssumption, MaxSentAssumption DEF Places, FirstLap
<1>4. SeqNumber(p) = p /\ SeqNumber(Due) = Due
  <2>1. p \in SeqNums /\ Due \in SeqNums
    BY <1>1, <1>3 DEF SeqNums
  <2> QED BY <2>1, Numbers
<1>5. PICK d \in 0 .. m - 1 : d = p - Due
  BY <1>1, <1>3
<1>6. Depacketizer!SeqDistance(m_expected_sequence, SeqNumber(p)) = d
  <2>1. ((m * 1) + d) % m = d
    BY <1>3, Fragmentation!OneRemainder, FramesAssumption, MaxPayloadAssumption,
       SeqSpaceAssumption
  <2>2. p + m - Due = (m * 1) + d
    BY <1>1, <1>3, <1>5
  <2>3. Depacketizer!SeqDistance(m_expected_sequence, SeqNumber(p)) = (p + m - Due) % m
    BY <1>3, <1>4 DEF Depacketizer!SeqDistance, GapsInv
  <2> QED BY <2>1, <2>2, <2>3
<1>7. m_lost_packets \in Nat /\ m_reordered_packets \in Nat
  BY DEF UnpackingInv
<1>8. m_lost_packets' + m_reordered_packets' = m_lost_packets + m_reordered_packets + d
  <2>1. /\ m_reordered_packets' = m_reordered_packets + (IF d = 0 THEN 0 ELSE 1)
        /\ m_lost_packets' = m_lost_packets + (IF d > 1 THEN d - 1 ELSE 0)
    BY <1>6 DEF Depacketizer!update_statistics, Depacketizer!LostIn
  <2> QED BY <1>7, <2>1
<1>9. m_expected_sequence' = SeqNumber(p + 1)
  BY <1>3, Numbers, SameNumbers DEF Depacketizer!update_statistics
<1>10. Due' = p + 1 /\ Len(delivered') = Len(delivered) + 1
  BY DueMoves
<1>11. m_lost_packets' + m_reordered_packets' = Due' - Len(delivered')
  <2>1. m_lost_packets + m_reordered_packets = Due - Len(delivered)
    BY DEF GapsInv
  <2> QED BY <1>1, <1>3, <1>5, <1>7, <1>8, <1>10, <2>1
<1> QED BY <1>9, <1>10, <1>11 DEF GapsInv

\* GapsInv is preserved by every step.
LEMMA GapsStep ==
  ASSUME FirstLap, SendingInv, PlacesInv, UnpackingInv, OrderInv, GapsInv, [Next]_vars
  PROVE  GapsInv'
<1>1. ASSUME UNCHANGED <<delivered, unpacking>> PROVE GapsInv'
  BY <1>1 DEF GapsInv, Due, unpacking
<1>2. CASE PopAndProcess
  <2>1. CASE popped' = -1
    <3>1. UNCHANGED <<delivered, unpacking>>
      BY <1>2, <2>1 DEF PopAndProcess, Buffer!NoPacket
    <3> QED BY <1>1, <3>1
  <2>2. CASE popped' # -1
    <3>1. PICK pkt \in Processed :
            /\ popped' \in Places /\ delivered' = Append(delivered, popped')
            /\ pkt.seq = SeqNumber(popped') /\ Depacketizer!process_packet(pkt)
      BY <1>2, <2>2, PopGives
    <3>2. PICK p \in Places : p = popped'
      BY <3>1
    <3>3. Depacketizer!update_statistics(SeqNumber(p))
      BY <3>1, <3>2, ProcessKeepsTypes
    <3>4. Due <= p
      <4>1. Len(delivered') = Len(delivered) + 1 /\ Len(delivered) \in Nat
        BY <3>1, <3>2, DueMoves, DueIsNext
      <4>2. delivered' # delivered
        BY <4>1
      <4> QED BY <1>2, <3>2, <4>2, PopKeepsOrder
    <3> QED BY <3>1, <3>2, <3>3, <3>4, GapIsCounted
  <2> QED BY <2>1, <2>2
<1>3. CASE start \/ StopBegins \/ StopEnds \/ CaptureThread
  BY <1>1, <1>3 DEF start, StopBegins, StopEnds, CaptureThread, receiving
<1>4. CASE ProcessChecks \/ ReceivePacket \/ ReceiveNothing
  BY <1>1, <1>4 DEF ProcessChecks, ReceivePacket, ReceiveNothing, receiving
<1>5. CASE UNCHANGED vars
  BY <1>1, <1>5 DEF vars, receiving
<1> QED BY <1>2, <1>3, <1>4, <1>5 DEF Next, Client, ProcessThread

\* What is missing is what was due and has not come.
LEMMA MissingIsBehind ==
  ASSUME PlacesInv
  PROVE  Missing = Due - Len(delivered)
<1>1. CASE delivered = <<>>
  <2>1. Due = 0 /\ Len(delivered) = 0 /\ Missing = 0
    BY <1>1, EmptySeq DEF Due, Missing
  <2> QED BY <2>1
<1>2. CASE delivered # <<>>
  <2>1. Due = delivered[Len(delivered)] + 1 /\ Len(delivered) \in Nat
    BY <1>2, DueIsNext, Zenon DEF Due
  <2>2. delivered[Len(delivered)] \in Nat
    <3>1. Len(delivered) \in 1 .. Len(delivered)
      BY <1>2, <2>1, EmptySeq DEF PlacesInv
    <3> QED BY <3>1, ElementOfSeq DEF PlacesInv, Places
  <2>3. Missing = delivered[Len(delivered)] + 1 - Len(delivered)
    BY <1>2, Zenon DEF Missing, Last
  <2> QED BY <2>1, <2>2, <2>3
<1> QED BY <1>1, <1>2

\* Over such a network the counters tell of every packet that never came, one by one or
\* many in a row, and of nothing else, through stops and starts
\* (h264_depacketizer.cpp:133-148).
THEOREM LossIsAlwaysNoticed ==
  ASSUME FirstLap
  PROVE  Spec => []LossIsNoticed
<1>1. Init => GapsInv
  <2> SUFFICES ASSUME Init PROVE GapsInv
    OBVIOUS
  <2>1. m_expected_sequence = 0 /\ m_lost_packets = 0 /\ m_reordered_packets = 0
    BY DEF Init, Depacketizer!Init
  <2>2. Due = 0 /\ Len(delivered) = 0
    BY EmptySeq DEF Init, Due
  <2>3. SeqNumber(0) = 0
    BY Numbers
  <2> QED BY <2>1, <2>2, <2>3 DEF GapsInv
<1>2. SendingInv /\ PlacesInv /\ UnpackingInv /\ OrderInv /\ GapsInv /\ [Next]_vars => GapsInv'
  BY GapsStep
<1>3. PlacesInv /\ UnpackingInv /\ GapsInv => LossIsNoticed
  <2> SUFFICES ASSUME PlacesInv, UnpackingInv, GapsInv PROVE LossIsNoticed
    OBVIOUS
  <2>1. Missing = Due - Len(delivered)
    BY MissingIsBehind
  <2>2. m_lost_packets \in Nat /\ m_reordered_packets \in Nat
    BY DEF UnpackingInv
  <2> QED BY <2>1, <2>2 DEF GapsInv, LossIsNoticed
<1> QED BY <1>1, <1>2, <1>3, OrderAlways, SendingAlways, PlacesAlways, UnpackingAlways, PTL
        DEF Spec

-----------------------------------------------------------------------------
(* Nothing is left out.                                                      *)

\* Packets not handed over yet: one at most is in the buffer, between push and pop, the
\* rest is on its way without a gap. A buffer of no size drops everything.
LosslessInv ==
  /\ client = "idle"
  /\ \A i \in 1 .. Len(network) : network[i] = Len(sent) - Len(network) + (i - 1)
  /\ \/ jitter_size = 0 /\ Buffer!Held = {} /\ delivered = <<>>
     \/ /\ jitter_size > 0
        /\ ~m_first_packet => NextSeq(m_last_popped_seq) = SeqNumber(Due)
        /\ \/ Buffer!Held = {} /\ Due = Len(sent) - Len(network)
           \/ /\ process = "pop" /\ Buffer!Held = {SeqNumber(Due)}
              /\ m_buffer[SeqNumber(Due)] = Due
              /\ Due + 1 = Len(sent) - Len(network)

\* What is sent joins the packets on their way.
LEMMA SendLeavesNoGap ==
  ASSUME Network = {}, SocketInv, SendingInv, PlacesInv, LosslessInv,
         CaptureThread, SendPacket
  PROVE  LosslessInv'
<1>1. UNCHANGED <<client, delivered, m_buffer, m_first_packet, m_last_popped_seq, process>>
  BY DEF CaptureThread, receiving, buffering
<1>2. Due' = Due /\ Buffer!Held' = Buffer!Held
  BY <1>1 DEF Due, Buffer!Held
<1>3. PICK n \in Nat, l \in Nat : n = Len(sent) /\ l = Len(network)
  <2>1. Len(sent) \in Nat
    BY LenProperties DEF SendingInv
  <2>2. Len(network) \in Nat
    BY LenProperties DEF PlacesInv
  <2> QED BY <2>1, <2>2
<1>4. Len(sent') = n + 1
  BY <1>3, SendKeepsNumbers
<1>5. network' = Append(network, n)
  <2>1. sender
    BY DEF SendPacket, SocketInv
  <2> QED BY <1>3, <2>1 DEF SendPacket, Travels
<1>6. /\ Len(network') = l + 1 /\ network'[l + 1] = n
      /\ \A i \in 1 .. l : network'[i] = network[i]
  <2>1. network \in Seq(Nat)
    BY SeqMonotonic DEF PlacesInv, Places
  <2> QED BY <1>3, <1>5, <2>1, AppendProperties
<1>7. ASSUME NEW i \in 1 .. l + 1
      PROVE  network'[i] = Len(sent') - Len(network') + (i - 1)
  <2>1. CASE i \in 1 .. l
    <3>1. network[i] = n - l + (i - 1)
      BY <1>3, <2>1 DEF LosslessInv
    <3> QED BY <1>4, <1>6, <2>1, <3>1
  <2>2. CASE i = l + 1
    BY <1>4, <1>6, <2>2
  <2> QED BY <2>1, <2>2
<1>8. Len(sent') - Len(network') = Len(sent) - Len(network)
  BY <1>3, <1>4, <1>6
<1> QED BY <1>1, <1>2, <1>6, <1>7, <1>8 DEF LosslessInv

\* The buffer, empty till then, takes the packet that is due.
LEMMA ReceiveLeavesNoGap ==
  ASSUME SendingInv, PlacesInv, LosslessInv, ProcessThread, ReceivePacket
  PROVE  LosslessInv'
<1>1. /\ UNCHANGED <<client, sent, delivered, m_first_packet, m_last_popped_seq>>
      /\ network # <<>> /\ network' = Tail(network) /\ Buffer!push(Head(network))
      /\ process = "receive" /\ process' = "pop"
  BY DEF ProcessThread, ReceivePacket, sending, Buffer!push
<1>2. PICK n \in Nat, l \in Nat : n = Len(sent) /\ l = Len(network) /\ l > 0
  <2>1. Len(sent) \in Nat
    BY LenProperties DEF SendingInv
  <2>2. Len(network) \in Nat /\ Len(network) # 0
    BY <1>1, LenProperties, EmptySeq DEF PlacesInv
  <2> QED BY <2>1, <2>2
<1>3. PICK p \in Places : p = Head(network) /\ p = network[1]
  BY <1>1, <1>2, HeadTailProperties DEF PlacesInv
<1>4. p \in Nat /\ p = n - l
  <2>1. 1 \in 1 .. l /\ network[1] = n - l + (1 - 1)
    BY <1>2 DEF LosslessInv
  <2> QED BY <1>2, <1>3, <2>1 DEF Places
<1>5. Len(network') = l - 1 /\ \A i \in 1 .. l - 1 : network'[i] = network[i + 1]
  BY <1>1, <1>2, HeadTailProperties DEF PlacesInv
<1>6. ASSUME NEW i \in 1 .. l - 1
      PROVE  network'[i] = Len(sent') - Len(network') + (i - 1)
  <2>1. i + 1 \in 1 .. l /\ network[i + 1] = n - l + ((i + 1) - 1)
    BY <1>2 DEF LosslessInv
  <2> QED BY <1>1, <1>2, <1>5, <2>1
<1>7. Due' = Due
  BY <1>1 DEF Due
<1>8. Buffer!Held = {} /\ (jitter_size > 0 => Due = p)
  BY <1>1, <1>2, <1>4 DEF LosslessInv
<1>9. PICK s : s = SeqNumber(p)
  OBVIOUS
<1>10. PICK b : b = Buffer!Insert(m_buffer, p)
  OBVIOUS
<1>11. DOMAIN b = {s} /\ b[s] = p
  BY <1>8, <1>9, <1>10, SameNumbers DEF Buffer!Insert, Buffer!Held
<1>12. Buffer!Overfull(DOMAIN b) <=> 1 > jitter_size
  BY <1>11, FS_Singleton, SameCardinality DEF Buffer!Overfull
<1>13. m_buffer' = IF 1 > jitter_size THEN Buffer!Erase(b, Buffer!Begin(DOMAIN b)) ELSE b
  BY <1>1, <1>3, <1>10, <1>12 DEF Buffer!push
<1>14. CASE jitter_size = 0
  <2>1. s \in Nat
    BY <1>4, <1>9, Numbers
  <2>2. Buffer!Begin({s}) = s
    BY <2>1, BeginIsKey
  <2>3. Buffer!Held' = {}
    BY <1>11, <1>13, <1>14, <2>2 DEF Buffer!Erase, Buffer!Held
  <2> QED BY <1>1, <1>5, <1>6, <1>14, <2>3 DEF LosslessInv
<1>15. CASE jitter_size > 0
  <2>1. m_buffer' = b
    BY <1>13, <1>15, JitterSizeAssumption
  <2>2. Buffer!Held' = {SeqNumber(Due)} /\ m_buffer'[SeqNumber(Due)] = Due
    BY <1>8, <1>9, <1>11, <1>15, <2>1 DEF Buffer!Held
  <2>3. Due + 1 = Len(sent') - Len(network')
    BY <1>1, <1>2, <1>4, <1>5, <1>8, <1>15
  <2> QED BY <1>1, <1>5, <1>6, <1>7, <1>15, <2>2, <2>3 DEF LosslessInv
<1> QED BY <1>14, <1>15, JitterSizeAssumption

\* What pop finds in the buffer is what it waits for.
LEMMA PopLeavesNothing ==
  ASSUME SendingInv, PlacesInv, LosslessInv, ProcessThread, PopAndProcess
  PROVE  /\ LosslessInv'
         /\ \/ delivered' = delivered
            \/ Due \in Places /\ delivered' = Append(delivered, Due)
<1>1. UNCHANGED <<client, sent, network>> /\ Buffer!pop
  BY DEF ProcessThread, PopAndProcess, sending
<1>2. Due \in Nat
  BY DueIsNext
<1>3. CASE Buffer!Held = {}
  <2>1. Buffer!PopNothing
    BY <1>1, <1>3 DEF Buffer!pop, Buffer!PopHead, Buffer!Ready
  <2>2. UNCHANGED <<m_buffer, m_first_packet, m_last_popped_seq, delivered>>
    BY <2>1 DEF Buffer!PopNothing, PopAndProcess
  <2>3. Buffer!Held' = {} /\ Due' = Due
    BY <1>3, <2>2 DEF Buffer!Held, Due
  <2>4. SeqNumber(Due) \in {SeqNumber(Due)}
    OBVIOUS
  <2> QED BY <1>1, <1>3, <2>2, <2>3, <2>4 DEF LosslessInv
<1>4. CASE Buffer!Held # {}
  <2>1. /\ jitter_size > 0
        /\ ~m_first_packet => NextSeq(m_last_popped_seq) = SeqNumber(Due)
        /\ Buffer!Held = {SeqNumber(Due)} /\ m_buffer[SeqNumber(Due)] = Due
        /\ Due + 1 = Len(sent) - Len(network)
    BY <1>4 DEF LosslessInv
  <2>2. PICK s : s = SeqNumber(Due) /\ s \in SeqNums /\ s \in Nat
    BY <1>2, Numbers
  <2>3. Buffer!Begin(Buffer!Held) = s
    <3>1. Buffer!Begin({s}) = s
      BY <2>2, BeginIsKey
    <3> QED BY <2>1, <2>2, <3>1
  <2>4. Buffer!Ready
    <3>1. Buffer!ExpectedSeq = s
      BY <2>1, <2>2, <2>3, SameNumbers DEF Buffer!ExpectedSeq, PlacesInv
    <3> QED BY <1>4, <2>3, <3>1 DEF Buffer!Ready
  <2>5. Buffer!PopHead
    BY <1>1, <2>4 DEF Buffer!pop, Buffer!PopNothing
  <2>6. /\ popped' = Due /\ m_last_popped_seq' = s /\ m_first_packet' = FALSE
        /\ Buffer!Held' = {}
    BY <2>1, <2>2, <2>3, <2>5 DEF Buffer!PopHead, Buffer!Erase, Buffer!Held
  <2>7. popped' # -1
    BY <1>2, <2>6
  <2>8. Due \in Places /\ delivered' = Append(delivered, Due)
    BY <2>6, <2>7, PopGives
  <2>9. PICK due : due = Due
    OBVIOUS
  <2>10. Due' = due + 1
    BY <2>8, <2>9, DueMoves
  <2>11. NextSeq(m_last_popped_seq') = SeqNumber(Due')
    BY <1>2, <2>2, <2>6, <2>9, <2>10, Numbers
  <2>12. Due' = Len(sent') - Len(network')
    BY <1>1, <2>1, <2>9, <2>10
  <2> QED BY <1>1, <2>1, <2>6, <2>8, <2>11, <2>12 DEF LosslessInv
<1> QED BY <1>3, <1>4

\* LosslessInv is preserved by every step but a stop, and every step is one of the
\* channel that leaves nothing out, or none.
LEMMA LosslessStep ==
  ASSUME Network = {}, SocketInv, SendingInv, PlacesInv, LosslessInv,
         [Next /\ client' = "idle"]_vars
  PROVE  LosslessInv' /\ [LosslessChannel!Next]_(LosslessChannel!vars)
<1>1. ASSUME UNCHANGED <<sent, delivered>>
      PROVE  [LosslessChannel!Next]_(LosslessChannel!vars)
  BY <1>1 DEF LosslessChannel!vars
<1>2. ASSUME UNCHANGED <<sent, network, delivered, buffering>>, client' = "idle",
             process # "pop" \/ process' = "pop"
      PROVE  LosslessInv'
  BY <1>2 DEF LosslessInv, Due, Buffer!Held, buffering
<1>3. client = "idle"
  BY DEF LosslessInv
<1>4. CASE start /\ client' = "idle"
  <2>1. UNCHANGED <<sent, network, delivered, buffering>>
    BY <1>4 DEF start, sending, receiving
  <2>2. process # "pop" \/ process' = "pop"
    BY <1>4 DEF start, StartSucceeds, SocketInv
  <2> QED BY <1>1, <1>2, <1>4, <2>1, <2>2
<1>5. CASE StopBegins /\ client' = "idle"
  <2>1. UNCHANGED <<sent, network, delivered, buffering, process>>
    BY <1>5 DEF StopBegins, sending, receiving
  <2> QED BY <1>1, <1>2, <1>5, <2>1
<1>6. CASE StopEnds
  BY <1>3, <1>6 DEF StopEnds
<1>7. CASE CaptureThread /\ (CaptureChecks \/ FrameSent)
  <2>1. UNCHANGED <<sent, network, delivered, buffering, process, client>>
    BY <1>7 DEF CaptureThread, CaptureChecks, FrameSent, Encode, RoundEnds, sending, receiving
  <2> QED BY <1>1, <1>2, <1>3, <2>1
<1>8. CASE CaptureThread /\ SendPacket
  <2>1. UNCHANGED delivered /\ Len(sent') = Len(sent) + 1
    BY <1>8, SendKeepsNumbers DEF CaptureThread, receiving
  <2>2. LosslessChannel!Send
    BY <2>1 DEF LosslessChannel!Send
  <2> QED BY <1>8, <2>2, SendLeavesNoGap DEF LosslessChannel!Next
<1>9. CASE ProcessThread /\ (ProcessChecks \/ ReceiveNothing)
  <2>1. UNCHANGED <<sent, network, delivered, buffering, client>> /\ process # "pop"
    BY <1>9 DEF ProcessThread, ProcessChecks, ReceiveNothing, sending, receiving
  <2> QED BY <1>1, <1>2, <1>3, <2>1
<1>10. CASE ProcessThread /\ ReceivePacket
  <2>1. UNCHANGED <<sent, delivered>>
    BY <1>10 DEF ProcessThread, ReceivePacket, sending
  <2> QED BY <1>1, <1>10, <2>1, ReceiveLeavesNoGap
<1>11. CASE ProcessThread /\ PopAndProcess
  <2>1. UNCHANGED sent
    BY <1>11 DEF ProcessThread, sending
  <2>2. ASSUME Due \in Places, delivered' = Append(delivered, Due)
        PROVE  LosslessChannel!Deliver
    <3>1. Due \in Nat /\ Due < Len(sent)
      BY <2>2, DueIsNext, LenProperties DEF Places, SendingInv
    <3> QED BY <2>1, <2>2, <3>1, DueIsNext DEF LosslessChannel!Deliver
  <2> QED BY <1>1, <1>11, <2>1, <2>2, PopLeavesNothing DEF LosslessChannel!Next
<1>12. CASE UNCHANGED vars
  <2>1. UNCHANGED <<sent, network, delivered, buffering, process, client>>
    BY <1>12 DEF vars, control, sending, receiving
  <2> QED BY <1>1, <1>2, <1>3, <2>1
<1> QED BY <1>4, <1>5, <1>6, <1>7, <1>8, <1>9, <1>10, <1>11, <1>12
        DEF Next, Client, CaptureThread, ProcessThread

LEMMA LosslessStarts == Init => LosslessInv
<1> SUFFICES ASSUME Init PROVE LosslessInv
  OBVIOUS
<1>1. /\ sent = <<>> /\ network = <<>> /\ delivered = <<>> /\ Buffer!Held = {}
      /\ client = "idle" /\ m_first_packet = TRUE
  BY DEF Init, Buffer!Init, Buffer!Held
<1>2. Len(sent) = 0 /\ Len(network) = 0 /\ Due = 0
  BY <1>1, EmptySeq DEF Due
<1> QED BY <1>1, <1>2, JitterSizeAssumption DEF LosslessInv

\* Over a network without loss, and while nobody stops the pipeline, it is a channel
\* that hands over every packet in turn, whatever the size of the buffer and over any
\* number of laps of the numbers (pipeline.ixx:112-161, jitter_buffer.cpp:20-74).
THEOREM NothingIsLeftOut ==
  ASSUME Network = {}
  PROVE  Unstopped => NoneLeftOut
<1>1. Init => LosslessInv
  BY LosslessStarts
<1>2. SocketInv /\ SendingInv /\ PlacesInv /\ LosslessInv /\ [Next /\ client' = "idle"]_vars
        => LosslessInv' /\ [LosslessChannel!Next]_(LosslessChannel!vars)
  BY LosslessStep
<1>3. Init => LosslessChannel!Init
  BY OrderStarts
<1>4. [Next /\ client' = "idle"]_vars => [Next]_vars
  OBVIOUS
<1> QED BY <1>1, <1>2, <1>3, <1>4, SocketsAlways, SendingAlways, PlacesAlways, PTL
        DEF Spec, Unstopped, NoneLeftOut, LosslessChannel!Spec

-----------------------------------------------------------------------------
(* Nothing is missed where nothing is missing.                               *)

\* Nothing was missing, and the packet that is due is the one expected.
QuietInv ==
  /\ m_expected_sequence = SeqNumber(Due)
  /\ m_lost_packets = 0 /\ m_reordered_packets = 0
  /\ Due = Len(delivered)

\* A packet that is due leaves the counters as they are, also if its number has wrapped.
LEMMA DueIsQuiet ==
  ASSUME PlacesInv, QuietInv, Due \in Places, delivered' = Append(delivered, Due),
         Depacketizer!update_statistics(SeqNumber(Due))
  PROVE  QuietInv'
<1>1. Due \in Nat /\ Len(delivered) \in Nat
  BY DueIsNext
<1>2. PICK due \in Nat : due = Due
  BY <1>1
<1>3. PICK s \in SeqNums : s = SeqNumber(due)
  BY <1>2, Numbers
<1>4. Depacketizer!SeqDistance(s, s) = 0
  BY <1>3, SeqSpaceAssumption DEF Depacketizer!SeqDistance, SeqNums
<1>5. /\ m_lost_packets' = 0 /\ m_reordered_packets' = 0
      /\ m_expected_sequence' = Depacketizer!NextSeq(s)
  BY <1>2, <1>3, <1>4 DEF QuietInv, Depacketizer!update_statistics, Depacketizer!LostIn
<1>6. Due' = due + 1 /\ Len(delivered') = Len(delivered) + 1
  BY <1>2, DueMoves
<1>7. m_expected_sequence' = SeqNumber(due + 1)
  BY <1>2, <1>3, <1>5, Numbers, SameNumbers
<1> QED BY <1>2, <1>5, <1>6, <1>7 DEF QuietInv

LEMMA QuietStep ==
  ASSUME SendingInv, PlacesInv, UnpackingInv, LosslessInv, QuietInv, [Next]_vars
  PROVE  QuietInv'
<1>1. ASSUME UNCHANGED <<delivered, unpacking>> PROVE QuietInv'
  BY <1>1 DEF QuietInv, Due, unpacking
<1>2. CASE ProcessThread /\ PopAndProcess
  <2>1. CASE popped' = -1
    <3>1. UNCHANGED <<delivered, unpacking>>
      BY <1>2, <2>1 DEF PopAndProcess, Buffer!NoPacket
    <3> QED BY <1>1, <3>1
  <2>2. CASE popped' # -1
    <3>1. PICK pkt \in Processed :
            /\ popped' \in Places /\ delivered' = Append(delivered, popped')
            /\ pkt.seq = SeqNumber(popped') /\ Depacketizer!process_packet(pkt)
      BY <1>2, <2>2, PopGives
    <3>2. PICK p \in Places : p = popped'
      BY <3>1
    <3>3. Due \in Places /\ delivered' = Append(delivered, Due)
      <4>1. Len(delivered') = Len(delivered) + 1 /\ Len(delivered) \in Nat
        BY <3>1, <3>2, DueMoves, DueIsNext
      <4>2. delivered' # delivered
        BY <4>1
      <4> QED BY <1>2, <4>2, PopLeavesNothing
    <3>4. p = Due
      <4>1. delivered \in Seq(Places)
        BY DEF PlacesInv
      <4>2. Append(delivered, p)[Len(delivered) + 1] = p
        BY <4>1, AppendProperties
      <4>3. Append(delivered, Due)[Len(delivered) + 1] = Due
        BY <3>3, <4>1, AppendProperties
      <4> QED BY <3>1, <3>2, <3>3, <4>2, <4>3
    <3>5. Depacketizer!update_statistics(SeqNumber(Due))
      BY <3>1, <3>2, <3>4, ProcessKeepsTypes
    <3> QED BY <3>3, <3>5, DueIsQuiet
  <2> QED BY <2>1, <2>2
<1>3. CASE start \/ StopBegins \/ StopEnds \/ CaptureThread
  BY <1>1, <1>3 DEF start, StopBegins, StopEnds, CaptureThread, receiving
<1>4. CASE ProcessChecks \/ ReceivePacket \/ ReceiveNothing
  BY <1>1, <1>4 DEF ProcessChecks, ReceivePacket, ReceiveNothing, receiving
<1>5. CASE UNCHANGED vars
  BY <1>1, <1>5 DEF vars, receiving
<1> QED BY <1>2, <1>3, <1>4, <1>5 DEF Next, Client, ProcessThread

\* Over a network without loss, and while nobody stops the pipeline, the counters stay 0
\* over any number of laps of the numbers (h264_depacketizer.cpp:133-148).
THEOREM NoFalseAlarm ==
  ASSUME Network = {}
  PROVE  Unstopped => []LossIsNoticed
<1>1. Init => LosslessInv
  BY LosslessStarts
<1>2. SocketInv /\ SendingInv /\ PlacesInv /\ LosslessInv /\ [Next /\ client' = "idle"]_vars
        => LosslessInv'
  BY LosslessStep
<1>3. Init => QuietInv
  <2> SUFFICES ASSUME Init PROVE QuietInv
    OBVIOUS
  <2>1. m_expected_sequence = 0 /\ m_lost_packets = 0 /\ m_reordered_packets = 0
    BY DEF Init, Depacketizer!Init
  <2>2. Due = 0 /\ Len(delivered) = 0
    BY EmptySeq DEF Init, Due
  <2>3. SeqNumber(0) = 0
    BY Numbers
  <2> QED BY <2>1, <2>2, <2>3 DEF QuietInv
<1>4. [Next /\ client' = "idle"]_vars => [Next]_vars
  OBVIOUS
<1>5. SendingInv /\ PlacesInv /\ UnpackingInv /\ LosslessInv /\ QuietInv /\ [Next]_vars
        => QuietInv'
  BY QuietStep
<1>6. PlacesInv /\ QuietInv => LossIsNoticed
  <2> SUFFICES ASSUME PlacesInv, QuietInv PROVE LossIsNoticed
    OBVIOUS
  <2>1. Missing = 0
    <3>1. Missing = Due - Len(delivered) /\ Len(delivered) \in Nat
      BY MissingIsBehind, DueIsNext
    <3> QED BY <3>1 DEF QuietInv
  <2> QED BY <2>1 DEF QuietInv, LossIsNoticed
<1> QED BY <1>1, <1>2, <1>3, <1>4, <1>5, <1>6, SocketsAlways, SendingAlways, PlacesAlways,
           UnpackingAlways, PTL DEF Spec, Unstopped
=============================================================================
