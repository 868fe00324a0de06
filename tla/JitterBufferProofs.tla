------------------------- MODULE JitterBufferProofs -------------------------
(* Proofs about JitterBuffer for every capacity, modulus and set of packets. *)
EXTENDS JitterBufferProps, FiniteSetTheorems, WellFoundedInduction, TLAPS

-----------------------------------------------------------------------------
(* The key a std::map orders first.                                          *)

\* The order of the naturals as a well-founded relation, in the form the
\* library's minimum theorem takes.
LEMMA NatOrder ==
  \E R : IsWellFoundedOn(R, Nat) /\ \A m, n \in Nat : <<n, m>> \in R <=> n < m
<1> DEFINE R == OpToRel(<, Nat)
<1>1. IsWellFoundedOn(R, Nat)
  BY NatLessThanWellFounded
<1>2. \A m, n \in Nat : <<n, m>> \in R <=> n < m
  BY DEF OpToRel
<1> HIDE DEF R
<1> QED BY <1>1, <1>2

\* A nonempty set of naturals has a least element.
LEMMA LeastExists ==
  ASSUME NEW S \in SUBSET Nat, S # {}
  PROVE  \E m \in S : \A n \in S : m <= n
<1>1. PICK R : IsWellFoundedOn(R, Nat)
               /\ \A m, n \in Nat : <<n, m>> \in R <=> n < m
  BY NatOrder
<1>2. PICK m \in S : \A n \in S : ~ (<<n, m>> \in R)
  BY <1>1, WFMin
<1>3. ASSUME NEW n \in S PROVE m <= n
  <2>1. n \in Nat /\ m \in Nat
    OBVIOUS
  <2>2. n < m => <<n, m>> \in R
    BY <1>1, <2>1
  <2>3. ~ (n < m)
    BY <1>2, <2>2
  <2> QED BY <2>1, <2>3
<1> QED BY <1>3

\* begin() of a nonempty map is one of its keys, and the smallest.
LEMMA BeginIsLeast ==
  ASSUME NEW S \in SUBSET Nat, S # {}
  PROVE  Begin(S) \in S /\ \A t \in S : Begin(S) <= t
BY LeastExists DEF Begin

-----------------------------------------------------------------------------
(* Sequence numbers and the two updates of the map.                          *)

\* A sequence number is one of the modulus.
LEMMA SeqOfType ==
  ASSUME NEW p \in Nat
  PROVE  SeqNumber(p) \in SeqNums
BY SeqSpaceAssumption DEF SeqNumber, SeqNums

\* A set of sequence numbers is a finite set of naturals.
LEMMA FiniteNumbers ==
  ASSUME NEW S \in SUBSET SeqNums
  PROVE  /\ IsFiniteSet(S)
         /\ Cardinality(S) \in Nat
         /\ S \in SUBSET Nat
<1>1. IsFiniteSet(SeqNums)
  BY FS_Interval, SeqSpaceAssumption DEF SeqNums
<1>2. IsFiniteSet(S)
  BY <1>1, FS_Subset
<1> QED BY <1>2, FS_CardinalityType DEF SeqNums

\* Adding a key to, or removing one from, a set of 16-bit numbers.
LEMMA AddedKey ==
  ASSUME NEW S \in SUBSET SeqNums, NEW x
  PROVE  /\ Cardinality(S \cup {x}) \in Nat
         /\ Cardinality(S \cup {x}) <= Cardinality(S) + 1
<1>1. IsFiniteSet(S) /\ Cardinality(S) \in Nat
  BY FiniteNumbers
<1>2. Cardinality(S \cup {x}) = IF x \in S THEN Cardinality(S) ELSE Cardinality(S) + 1
  BY <1>1, FS_AddElement
<1> QED BY <1>1, <1>2

LEMMA RemovedKey ==
  ASSUME NEW S \in SUBSET SeqNums, NEW x \in S
  PROVE  Cardinality(S \ {x}) = Cardinality(S) - 1
<1>1. IsFiniteSet(S)
  BY FiniteNumbers
<1> QED BY <1>1, FS_RemoveElement

\* m_buffer[seq] = packet adds the key and keeps the map a map to packets.
LEMMA InsertType ==
  ASSUME NEW D \in SUBSET SeqNums, NEW b \in [D -> Packets], NEW p \in Packets
  PROVE  /\ DOMAIN Insert(b, p) = D \cup {SeqNumber(p)}
         /\ D \cup {SeqNumber(p)} \subseteq SeqNums
         /\ Insert(b, p) \in [D \cup {SeqNumber(p)} -> Packets]
BY SeqOfType, PacketsAssumption DEF Insert

\* erase(begin()) removes the key and nothing else.
LEMMA EraseType ==
  ASSUME NEW D \in SUBSET SeqNums, NEW b \in [D -> Packets], NEW s
  PROVE  /\ DOMAIN Erase(b, s) = D \ {s}
         /\ Erase(b, s) \in [D \ {s} -> Packets]
BY DEF Erase

-----------------------------------------------------------------------------
(* Types.                                                                    *)

\* Every value the buffer's variables take, whatever the callers do, is a map
\* from 16-bit numbers to pushed packets, a 16-bit number and a Boolean.
THEOREM TypeCorrect == Spec => []TypeOK
<1>1. Init => TypeOK
  BY SeqSpaceAssumption DEF Init, TypeOK, Held, SeqNums
<1>2. TypeOK /\ [Next]_vars => TypeOK'
  <2> SUFFICES ASSUME TypeOK, [Next]_vars PROVE TypeOK'
    OBVIOUS
  <2>1. ASSUME NEW p \in Packets, push(p) PROVE TypeOK'
    <3> DEFINE b == Insert(m_buffer, p)
    <3>0. Held \in SUBSET SeqNums /\ m_buffer \in [Held -> Packets]
      BY DEF TypeOK
    <3>1. DOMAIN b \in SUBSET SeqNums /\ b \in [DOMAIN b -> Packets]
      <4>1. /\ DOMAIN b = Held \cup {SeqNumber(p)}
            /\ Held \cup {SeqNumber(p)} \subseteq SeqNums
            /\ b \in [Held \cup {SeqNumber(p)} -> Packets]
        BY <3>0, InsertType
      <4> HIDE DEF b
      <4> QED BY <4>1
    <3>2. Held' \subseteq SeqNums /\ m_buffer' \in [Held' -> Packets]
      <4>1. CASE Cardinality(DOMAIN b) > m_max_packets
        <5>1. m_buffer' = Erase(b, Begin(DOMAIN b))
          BY <2>1, <4>1 DEF push, Overfull
        <5> HIDE DEF b
        <5>2. /\ DOMAIN m_buffer' = (DOMAIN b) \ {Begin(DOMAIN b)}
              /\ m_buffer' \in [(DOMAIN b) \ {Begin(DOMAIN b)} -> Packets]
          BY <5>1, <3>1, EraseType
        <5> QED BY <5>2, <3>1 DEF Held
      <4>2. CASE ~ (Cardinality(DOMAIN b) > m_max_packets)
        <5>1. m_buffer' = b
          BY <2>1, <4>2 DEF push, Overfull
        <5> QED BY <5>1, <3>1 DEF Held
      <4> QED BY <4>1, <4>2
    <3> QED BY <2>1, <3>2 DEF push, Overfull, TypeOK
  <2>2. ASSUME PopHead PROVE TypeOK'
    <3>0. Held \in SUBSET SeqNums /\ m_buffer \in [Held -> Packets] /\ Held # {}
      BY <2>2 DEF TypeOK, PopHead, Ready
    <3>1. Begin(Held) \in Held
      BY <3>0, BeginIsLeast, FiniteNumbers
    <3>2. Held' \subseteq SeqNums /\ m_buffer' \in [Held' -> Packets]
      <4>1. m_buffer' = Erase(m_buffer, Begin(Held))
        BY <2>2 DEF PopHead
      <4>2. /\ DOMAIN m_buffer' = Held \ {Begin(Held)}
            /\ m_buffer' \in [Held \ {Begin(Held)} -> Packets]
        BY <4>1, <3>0, EraseType
      <4> QED BY <4>2, <3>0 DEF Held
    <3>3. /\ popped' \in Packets
          /\ m_last_popped_seq' \in SeqNums
          /\ m_first_packet' \in BOOLEAN
      BY <2>2, <3>0, <3>1 DEF PopHead
    <3> QED BY <3>2, <3>3 DEF TypeOK
  <2>3. ASSUME PopNothing PROVE TypeOK'
    BY <2>3 DEF PopNothing, TypeOK, Held
  <2>4. ASSUME reset PROVE TypeOK'
    BY <2>4 DEF reset, TypeOK, Held
  <2>5. CASE UNCHANGED vars
    BY <2>5 DEF vars, TypeOK, Held
  <2> QED BY <2>1, <2>2, <2>3, <2>4, <2>5 DEF Next, pop
<1> QED BY <1>1, <1>2, PTL DEF Spec

-----------------------------------------------------------------------------
(* Capacity.                                                                 *)

\* One step of the capacity argument, for any caller that satisfies TypeOK:
\* push adds at most one key and, above the capacity, removes one.
LEMMA PushKeepsCapacity ==
  ASSUME TypeOK, WithinCapacity, NEW p \in Packets, push(p)
  PROVE  WithinCapacity'
<1> DEFINE b == Insert(m_buffer, p)
           D == Held \cup {SeqNumber(p)}
<1>1. DOMAIN b = D /\ D \subseteq SeqNums /\ b \in [D -> Packets]
  BY InsertType DEF TypeOK
<1>2. Cardinality(D) \in Nat /\ Cardinality(D) <= Cardinality(Held) + 1
  BY AddedKey DEF TypeOK
<1>3. m_max_packets \in Nat
  BY CapacityAssumption
<1>4. CASE Cardinality(D) > m_max_packets
  <2>1. Cardinality(D) <= m_max_packets + 1
    BY <1>2, <1>3, FiniteNumbers DEF WithinCapacity, TypeOK
  <2>2. Begin(D) \in D
    BY <1>1, BeginIsLeast, FiniteNumbers
  <2>3. Held' = D \ {Begin(D)}
    <3>1. m_buffer' = Erase(b, Begin(D))
      BY <1>1, <1>4 DEF push, Overfull
    <3> QED BY <1>1, <3>1, EraseType DEF Held
  <2>4. Cardinality(Held') = Cardinality(D) - 1
    BY <1>1, <2>2, <2>3, RemovedKey
  <2> QED BY <1>2, <1>3, <2>1, <2>4 DEF WithinCapacity
<1>5. CASE ~ (Cardinality(D) > m_max_packets)
  <2>1. Held' = D
    BY <1>1, <1>5 DEF push, Overfull, Held
  <2> QED BY <1>2, <1>3, <1>5, <2>1 DEF WithinCapacity
<1> QED BY <1>4, <1>5

\* pop never adds a key.
LEMMA PopKeepsCapacity ==
  ASSUME TypeOK, WithinCapacity, pop
  PROVE  WithinCapacity'
<1>1. CASE PopHead
  <2>1. Held' = Held \ {Begin(Held)}
    BY <1>1, EraseType DEF PopHead, TypeOK, Held
  <2>2. IsFiniteSet(Held) /\ Cardinality(Held) \in Nat
    BY FiniteNumbers DEF TypeOK
  <2>3. Cardinality(Held') <= Cardinality(Held) /\ Cardinality(Held') \in Nat
    <3>1. Held' \in SUBSET Held
      BY <2>1
    <3> QED BY <2>2, <3>1, FS_Subset, FS_CardinalityType
  <2> QED BY <2>2, <2>3, CapacityAssumption DEF WithinCapacity
<1>2. CASE PopNothing
  BY <1>2 DEF PopNothing, WithinCapacity, Held
<1> QED BY <1>1, <1>2 DEF pop

\* The map never holds more than m_max_packets packets.
THEOREM CapacityRespected == Spec => []WithinCapacity
<1>1. Init => WithinCapacity
  <2> SUFFICES ASSUME Init PROVE WithinCapacity
    OBVIOUS
  <2>1. Held = {}
    BY DEF Init, Held
  <2> QED BY <2>1, FS_EmptySet, CapacityAssumption DEF WithinCapacity
<1>2. TypeOK /\ WithinCapacity /\ [Next]_vars => WithinCapacity'
  <2> SUFFICES ASSUME TypeOK, WithinCapacity, [Next]_vars PROVE WithinCapacity'
    OBVIOUS
  <2>1. ASSUME NEW p \in Packets, push(p) PROVE WithinCapacity'
    BY <2>1, PushKeepsCapacity
  <2>2. CASE pop
    BY <2>2, PopKeepsCapacity
  <2>3. CASE reset
    <3>1. Held' = {}
      BY <2>3 DEF reset, Held
    <3> QED BY <3>1, FS_EmptySet, CapacityAssumption DEF WithinCapacity
  <2>4. CASE UNCHANGED vars
    BY <2>4 DEF vars, WithinCapacity, Held
  <2> QED BY <2>1, <2>2, <2>3, <2>4 DEF Next
<1> QED BY <1>1, <1>2, TypeCorrect, PTL DEF Spec

-----------------------------------------------------------------------------
(* Away from the wrap the buffer plays by position.                          *)

\* No two packets share a number, and after the last of them the number to
\* expect does not wrap to one of them.
Unwrapped == Packets \subseteq 0 .. SeqSpace - 2

\* Then the map is the identity on the positions it holds.
PositionInv ==
  /\ TypeOK
  /\ Held \subseteq Packets
  /\ \A s \in Held : m_buffer[s] = s
  /\ m_first_packet \/ m_last_popped_seq \in Packets

\* Without wrap a packet's number is its position.
LEMMA SeqIsPosition ==
  ASSUME Unwrapped, NEW p \in Packets
  PROVE  SeqNumber(p) = p /\ NextSeq(p) = p + 1
BY SeqSpaceAssumption DEF Unwrapped, SeqNumber, NextSeq

\* Without wrap the keys of the map are the positions of what it holds.
LEMMA HeldIsPositions ==
  ASSUME PositionInv
  PROVE  {m_buffer[s] : s \in Held} = Held
BY DEF PositionInv

\* The abstract buffer's oldest packet is the map's begin().
LEMMA OldestIsBegin ==
  ASSUME NEW S
  PROVE  Playout!Oldest(S) = Begin(S)
BY DEF Playout!Oldest, Begin

\* The instance has its own copy of the library's Cardinality.
LEMMA SameCardinality ==
  ASSUME NEW S
  PROVE  Playout!Cardinality(S) = Cardinality(S)
BY DEF Cardinality, Playout!Cardinality, IsFiniteSet, Playout!IsFiniteSet

\* PositionInv is inductive.
LEMMA PositionInvStep ==
  ASSUME Unwrapped, PositionInv, TypeOK', Next
  PROVE  PositionInv'
<1>1. ASSUME NEW p \in Packets, push(p) PROVE PositionInv'
  <2> DEFINE b == Insert(m_buffer, p)
  <2>1. SeqNumber(p) = p
    BY SeqIsPosition
  <2>2. DOMAIN b = Held \cup {p} /\ \A s \in DOMAIN b : b[s] = s
    BY <2>1 DEF Insert, PositionInv, Held
  <2> HIDE DEF b
  <2>3. \A s \in Held' : s \in DOMAIN b /\ m_buffer'[s] = b[s]
    <3>1. m_buffer' = b \/ m_buffer' = Erase(b, Begin(DOMAIN b))
      BY <1>1 DEF push, Overfull, b
    <3> QED BY <3>1 DEF Held, Erase
  <2>4. UNCHANGED <<m_first_packet, m_last_popped_seq>>
    BY <1>1 DEF push, Overfull
  <2> QED BY <2>2, <2>3, <2>4 DEF PositionInv
<1>2. ASSUME PopHead PROVE PositionInv'
  <2>1. Begin(Held) \in Held
    <3>1. Held \in SUBSET SeqNums /\ Held # {}
      BY <1>2 DEF PositionInv, TypeOK, PopHead, Ready
    <3> QED BY <3>1, BeginIsLeast, FiniteNumbers
  <2>2. \A s \in Held' : s \in Held /\ m_buffer'[s] = m_buffer[s]
    BY <1>2 DEF PopHead, Erase, Held
  <2>3. m_last_popped_seq' \in Packets
    BY <1>2, <2>1 DEF PopHead, PositionInv
  <2> QED BY <2>2, <2>3 DEF PositionInv
<1>3. ASSUME PopNothing PROVE PositionInv'
  BY <1>3 DEF PopNothing, PositionInv, Held
<1>4. ASSUME reset PROVE PositionInv'
  BY <1>4 DEF reset, PositionInv, Held
<1> QED BY <1>1, <1>2, <1>3, <1>4 DEF Next, pop

\* Each action of the buffer is the abstract action of the same purpose.
LEMMA PushIsArrive ==
  ASSUME Unwrapped, PositionInv, PositionInv', NEW p \in Packets, push(p)
  PROVE  Playout!Arrive(p)
<1> DEFINE b == Insert(m_buffer, p)
           all == Held \cup {p}
<1>1. DOMAIN b = all
  BY SeqIsPosition DEF Insert, Held
<1>2. Held' = IF Cardinality(all) > m_max_packets THEN all \ {Begin(all)} ELSE all
  BY <1>1 DEF push, Overfull, Held, Erase
<1>3. /\ {m_buffer[s] : s \in Held} = Held
      /\ {m_buffer[s] : s \in Held}' = Held'
  BY HeldIsPositions DEF PositionInv, Held, TypeOK
<1>4. UNCHANGED <<m_first_packet, m_last_popped_seq, popped>>
  BY DEF push, Overfull
<1> QED BY <1>2, <1>3, <1>4, OldestIsBegin, SameCardinality DEF Playout!Arrive

\* pop is ready exactly when the oldest packet is due.
LEMMA ReadyIsDue ==
  ASSUME Unwrapped, PositionInv
  PROVE  Ready <=> Playout!Due
<1>1. {m_buffer[s] : s \in Held} = Held
  BY HeldIsPositions
<1>2. CASE m_first_packet
  BY <1>1, <1>2 DEF Ready, ExpectedSeq, Playout!Due, NoPacket, Playout!Nothing
<1>3. CASE ~ m_first_packet
  <2>1. m_last_popped_seq \in Packets /\ m_last_popped_seq \in Nat
    BY <1>3, PacketsAssumption DEF PositionInv
  <2>2. ExpectedSeq = m_last_popped_seq + 1
    BY <1>3, <2>1, SeqIsPosition DEF ExpectedSeq
  <2>3. m_last_popped_seq + 1 # -1
    BY <2>1
  <2> QED BY <1>1, <1>3, <2>2, <2>3, OldestIsBegin, SameCardinality
          DEF Ready, HalfFull, Playout!Due, Playout!Nothing
<1> QED BY <1>2, <1>3

\* pop is the abstract Play when a packet is due, the abstract Wait otherwise.
LEMMA PopIsPlayOrWait ==
  ASSUME Unwrapped, PositionInv, PositionInv', pop
  PROVE  Playout!Play \/ Playout!Wait
<1>1. /\ {m_buffer[s] : s \in Held} = Held
      /\ {m_buffer[s] : s \in Held}' = Held'
  BY HeldIsPositions DEF PositionInv, Held, TypeOK
<1>2. CASE PopHead
  <2>1. Playout!Due
    BY <1>2, ReadyIsDue DEF PopHead
  <2>2. Begin(Held) \in Held
    <3>1. Held \in SUBSET SeqNums /\ Held # {}
      BY <1>2 DEF PositionInv, TypeOK, PopHead, Ready
    <3> QED BY <3>1, BeginIsLeast, FiniteNumbers
  <2>3. popped' = Begin(Held)
    BY <1>2, <2>2 DEF PopHead, PositionInv
  <2>4. Held' = Held \ {Begin(Held)}
    BY <1>2 DEF PopHead, Erase, Held
  <2>5. m_last_popped_seq' = Begin(Held) /\ ~ m_first_packet'
    BY <1>2 DEF PopHead
  <2> QED BY <1>1, <2>1, <2>3, <2>4, <2>5, OldestIsBegin DEF Playout!Play
<1>3. CASE PopNothing
  <2>1. ~ Playout!Due
    BY <1>3, ReadyIsDue DEF PopNothing
  <2> QED BY <1>3, <2>1 DEF PopNothing, Playout!Wait, Held, NoPacket, Playout!Nothing
<1> QED BY <1>2, <1>3 DEF pop

\* reset is the abstract Restart.
LEMMA ResetIsRestart ==
  ASSUME reset
  PROVE  Playout!Restart
BY DEF reset, Playout!Restart, Held, NoPacket, Playout!Nothing

\* While the numbers of the packets pushed do not wrap, every behaviour of the
\* buffer is one of the buffer that knows positions: it plays the oldest packet
\* it holds, waits for a missing one until it is more than half full, and drops
\* the oldest when it is full.
THEOREM PlaysByPositionUnwrapped ==
  ASSUME Unwrapped
  PROVE  Spec => PlaysByPosition
<1>1. Init => PositionInv
  <2>1. Init => Held = {}
    BY DEF Init, Held
  <2> QED BY <2>1, SeqSpaceAssumption DEF Init, PositionInv, TypeOK, SeqNums
<1>2. TypeOK' /\ PositionInv /\ [Next]_vars => PositionInv'
  <2>1. CASE Next
    BY <2>1, PositionInvStep
  <2>2. CASE UNCHANGED vars
    BY <2>2 DEF vars, PositionInv, Held
  <2> QED BY <2>1, <2>2
<1>3. Init => Playout!Init
  BY DEF Init, Playout!Init, Held, NoPacket, Playout!Nothing
<1>4. PositionInv /\ PositionInv' /\ [Next]_vars => [Playout!Next]_(Playout!vars)
  <2> SUFFICES ASSUME PositionInv, PositionInv', [Next]_vars
               PROVE  [Playout!Next]_(Playout!vars)
    OBVIOUS
  <2>1. ASSUME NEW p \in Packets, push(p) PROVE Playout!Next
    BY <2>1, PushIsArrive DEF Playout!Next
  <2>2. CASE pop
    BY <2>2, PopIsPlayOrWait DEF Playout!Next
  <2>3. CASE reset
    BY <2>3, ResetIsRestart DEF Playout!Next
  <2>4. CASE UNCHANGED vars
    BY <2>4 DEF vars, Playout!vars, Held
  <2> QED BY <2>1, <2>2, <2>3, <2>4 DEF Next
<1> QED BY <1>1, <1>2, <1>3, <1>4, TypeCorrect, PTL
        DEF Spec, PlaysByPosition, Playout!Spec
=============================================================================
