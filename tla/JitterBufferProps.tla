-------------------------- MODULE JitterBufferProps --------------------------
(* What JitterBuffer promises its callers, for any interleaving of calls.   *)
EXTENDS JitterBuffer

\* push never leaves more packets than the capacity, whatever was forced out,
\* overwritten or reset before (jitter_buffer.cpp:26-29).
WithinCapacity == Cardinality(Held) <= m_max_packets

\* As long as no two packets share a number and none has the last number,
\* the map keyed by 16-bit numbers plays exactly what a buffer ordered by
\* position in the stream plays, duplicates and late packets included.
Playout == INSTANCE PlayoutBuffer WITH
  Capacity <- m_max_packets,
  held <- {m_buffer[s] : s \in Held},
  next <- IF m_first_packet THEN NoPacket ELSE m_last_popped_seq + 1,
  played <- popped

PlaysByPosition == Playout!Spec

\* jitter_buffer.cpp:26, "Drop oldest if buffer full": a packet leaves without
\* being popped only if every packet that stays is later in the stream.
Positions == {m_buffer[s] : s \in Held}

DropsOldest ==
  [][\A p \in Packets : push(p) =>
       \A q \in (Positions \cup {p}) \ Positions' :
         SeqNumber(q) \in DOMAIN m_buffer' \/ \A r \in Positions' : q < r]_vars
=============================================================================
