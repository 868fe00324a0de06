---------------------------- MODULE JitterBuffer ----------------------------
(***************************************************************************)
(* core/video/jitter/jitter_buffer.cpp: packets that arrived, kept in a    *)
(* std::map ordered by their 16-bit sequence number.  Every operation runs *)
(* under m_mutex, so each is one action; Next lets the callers interleave  *)
(* them in any order (the pusher and the popper may be two threads).       *)
(***************************************************************************)
EXTENDS RtpSequence, FiniteSets

CONSTANTS
  Packets,      \* the packets callers may push, as positions in the stream
  m_max_packets \* capacity, 50 by default

ASSUME PacketsAssumption == Packets \subseteq Nat
ASSUME CapacityAssumption == m_max_packets \in Nat

NoPacket == -1  \* pop returned false

VARIABLES
  m_buffer,          \* sequence number -> packet, a partial function
  m_last_popped_seq,
  m_first_packet,
  popped             \* what the last pop gave its caller, NoPacket for false

vars == <<m_buffer, m_last_popped_seq, m_first_packet, popped>>

Held == DOMAIN m_buffer

HalfFull == m_max_packets \div 2

\* m_buffer.begin(): the key the map orders first
Begin(keys) == CHOOSE s \in keys : \A t \in keys : s <= t

Insert(b, p) ==
  [s \in DOMAIN b \cup {SeqNumber(p)} |-> IF s = SeqNumber(p) THEN p ELSE b[s]]

EraseKeepsKey(b, s) == [b EXCEPT ![s] = NoPacket] \* mutant: moved out, not erased
Erase(b, s) == [t \in DOMAIN b \ {s} |-> b[t]]

TypeOK ==
  /\ Held \subseteq SeqNums
  /\ m_buffer \in [Held -> Packets]
  /\ m_last_popped_seq \in SeqNums
  /\ m_first_packet \in BOOLEAN
  /\ popped \in Packets \cup {NoPacket}

Init ==
  /\ m_buffer = [s \in {} |-> NoPacket]
  /\ m_last_popped_seq = 0
  /\ m_first_packet = TRUE
  /\ popped = NoPacket

-----------------------------------------------------------------------------
OverfullLate(keys) == Cardinality(keys) > m_max_packets + 1 \* mutant
Overfull(keys) == Cardinality(keys) > m_max_packets

\* A packet replaces the one with its number; a full buffer gives up begin().
push(p) ==
  LET b == Insert(m_buffer, p)
  IN  /\ m_buffer' = IF Overfull(DOMAIN b)
                     THEN Erase(b, Begin(DOMAIN b))
                     ELSE b
      /\ UNCHANGED <<m_last_popped_seq, m_first_packet, popped>>

\* The number pop waits for; the first pop takes whatever begin() is.
ExpectedAgain == m_last_popped_seq \* mutant: neither + 1 nor the first packet
ExpectedSeq ==
  IF m_first_packet THEN Begin(Held) ELSE NextSeq(m_last_popped_seq)

ReadyInOrder == Held # {} /\ Begin(Held) = ExpectedSeq \* mutant: no force pop
ReadyWhenHalfFull == Cardinality(Held) > HalfFull      \* mutant: only force pop
Ready ==
  /\ Held # {}
  /\ \/ Begin(Held) = ExpectedSeq
     \/ Cardinality(Held) > HalfFull \* "force pop": give up on what is missing

PopKeepsHead == \* mutant: begin() is copied, not erased
  /\ Ready
  /\ popped' = m_buffer[Begin(Held)]
  /\ m_last_popped_seq' = Begin(Held)
  /\ m_first_packet' = FALSE
  /\ UNCHANGED m_buffer

PopHead ==
  /\ Ready
  /\ popped' = m_buffer[Begin(Held)]
  /\ m_buffer' = Erase(m_buffer, Begin(Held))
  /\ m_last_popped_seq' = Begin(Held)
  /\ m_first_packet' = FALSE

PopNothing ==
  /\ ~Ready
  /\ popped' = NoPacket
  /\ UNCHANGED <<m_buffer, m_last_popped_seq, m_first_packet>>

pop == PopHead \/ PopNothing

\* m_last_popped_seq keeps its value: the first pop after reset ignores it
reset ==
  /\ m_buffer' = [s \in {} |-> NoPacket]
  /\ m_first_packet' = TRUE
  /\ UNCHANGED <<m_last_popped_seq, popped>>

Next ==
  \/ \E p \in Packets : push(p)
  \/ pop
  \/ reset

Spec == Init /\ [][Next]_vars
=============================================================================
