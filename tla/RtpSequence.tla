---------------------------- MODULE RtpSequence ----------------------------
(***************************************************************************)
(* The 16-bit sequence numbers of RTP as core/transport/rtp and            *)
(* core/video/jitter use them: unsigned integers that wrap (uint16_t).     *)
(*                                                                         *)
(* A packet is identified by its position in the sender's stream (0, 1,    *)
(* 2, ...), which does not wrap and which no program variable holds; the   *)
(* code sees only SeqNumber(position).                                  *)
(***************************************************************************)
EXTENDS Integers

CONSTANT SeqSpace  \* 2^16 in the code; small in the models, so that wrap happens

ASSUME SeqSpaceAssumption == SeqSpace \in Nat /\ SeqSpace > 1

SeqNums == 0 .. SeqSpace - 1

SeqNumberUnwrapped(position) == position \* mutant: too wide an integer
SeqNumber(position) == position % SeqSpace

NextSeqUnwrapped(s) == s + 1 \* mutant: promoted to int

\* static_cast<uint16_t>(s + 1)
NextSeq(s) == (s + 1) % SeqSpace

\* static_cast<uint16_t>(s - 1)
PrevSeq(s) == (s + SeqSpace - 1) % SeqSpace

\* static_cast<uint16_t>(to - from): how far to is ahead of from
SeqDistance(from, to) == (to + SeqSpace - from) % SeqSpace
=============================================================================
