---------------------------- MODULE PipelineProps ----------------------------
(* What Pipeline promises the application that starts and stops it.         *)
EXTENDS Pipeline

\* The shape of the state.
TypeOK ==
  /\ {m_running, sender, same_ms} \subseteq BOOLEAN
  /\ client \in {"idle", "joining"}
  /\ result \in {"none", "started", "refused", "failed", "stopped", "threw"}
  /\ capture \in {"off", "check", "send"}
  /\ process \in {"off", "check", "receive", "pop"}
  /\ receiver \in {"closed", "open", "bound"}
  /\ ToSet(network) \cup received \cup ToSet(delivered) \subseteq 0 .. Len(sent) - 1
  /\ Buffer!TypeOK
  /\ Depacketizer!TypeOK

\* A thread never outlives the socket it uses, stop and restart included: the
\* sockets are closed only after the joins (pipeline.ixx:95-99), and two runs
\* of a loop never overlap.
ThreadsOwnTheirSockets ==
  /\ capture # "off" => sender
  /\ process # "off" => receiver = "bound"
  /\ ~m_running /\ client = "idle" => capture = "off" /\ process = "off"

\* process_loop pops once for each packet it pushes, and pop gives up waiting at
\* half the size: one more than half of jitter_size is all that is ever held,
\* whatever the network does, so that push never has to drop one
\* (pipeline.ixx:142-151, jitter_buffer.cpp:27-28, 54).
HalfIsEnough ==
  Cardinality(Buffer!Held) <= Buffer!HalfFull + (IF process = "pop" THEN 1 ELSE 0)

\* On a network that keeps the order the packets come out in order, each once,
\* over losses, restarts and packets left over from the run before.
Channel == INSTANCE MediaChannel WITH Lossy <- TRUE, sent <- Len(sent)

InOrder == Channel!Spec

\* The client never stops a pipeline that runs.
Unstopped == Init /\ [][Next /\ client' = "idle"]_vars

\* ... and without loss, and while nobody stops the pipeline, none is left out, the
\* wrap of the numbers included.
LosslessChannel == INSTANCE MediaChannel WITH Lossy <- FALSE, sent <- Len(sent)

NoneLeftOut == LosslessChannel!Spec

\* The counters tell of every loss and of nothing else, over gaps one after another,
\* restarts and the wrap of the numbers: while nothing is missing both are 0; lost packets
\* are never more than are missing, and fewer by no more than the packets found out of
\* order. They are fewer: "Check for packet loss" takes a gap of n for n - 1
\* (h264_depacketizer.cpp:133-148).
Missing == IF delivered = <<>> THEN 0 ELSE Last(delivered) + 1 - Len(delivered)

LossIsNoticed ==
  /\ m_lost_packets <= Missing /\ Missing <= m_lost_packets + m_reordered_packets
  /\ Missing = 0 => m_lost_packets = 0 /\ m_reordered_packets = 0

\* stop ends, whatever the threads were doing when it was called: no loop waits
\* for anything but the clock (pipeline.ixx:117-136, 140-160).
StopCompletes == client = "joining" ~> client = "idle"

\* Without loss, and while nobody stops the pipeline, every packet sent is handed
\* over: none waits in the buffer for a packet that is not coming.
SentIsDelivered ==
  \A p \in 0 .. MaxSent - 1 : Len(sent) > p ~> p \in ToSet(delivered)
=============================================================================
