------------------------------- MODULE AnnexB -------------------------------
(***************************************************************************)
(* H264Packetizer::extract_nalus (core/transport/rtp/h264_packetizer.cpp): *)
(* the NAL units in an encoded frame, which start codes set apart.  Bytes  *)
(* are numbers, a frame is a function from offsets (0, 1, ...) to bytes,   *)
(* and a unit is the range of offsets it occupies.                         *)
(***************************************************************************)
EXTENDS Integers, Sequences

Matches(bytes, size, i, code) ==
  /\ i + Len(code) <= size
  /\ \A k \in 1 .. Len(code) : bytes[i + k - 1] = code[k]

ShortOnly(bytes, size, i) == IF Matches(bytes, size, i, <<0, 0, 1>>) THEN 3 ELSE 0 \* mutant

\* Size of the start code at offset i, 0 if there is none
StartCodeSize(bytes, size, i) ==
  IF Matches(bytes, size, i, <<0, 0, 0, 1>>) THEN 4
  ELSE IF Matches(bytes, size, i, <<0, 0, 1>>) THEN 3
  ELSE 0

\* The inner loop: the next start code at or after i, or the end of the frame
NextStartCode(bytes, size, i) ==
  CHOOSE j \in i .. size :
    /\ j = size \/ StartCodeSize(bytes, size, j) > 0
    /\ \A k \in i .. j - 1 : StartCodeSize(bytes, size, k) = 0

\* The outer loop stops where no start code is: a frame that does not begin with
\* one yields nothing.
extract_nalus(bytes, size) ==
  LET From[i \in 0 .. size] ==
        LET code == StartCodeSize(bytes, size, i)
            end  == NextStartCode(bytes, size, i + code)
        IN  IF code = 0 THEN <<>>
            ELSE IF end > i + code THEN << [from |-> i + code, to |-> end - 1] >> \o From[end]
            ELSE From[end]
  IN  IF size < 4 THEN <<>> ELSE From[0]

-----------------------------------------------------------------------------
\* The format itself: a unit is what lies between two places where 0, 0, 1 ends,
\* less the start code of the next one.
Codes(bytes, size) == {i \in 0 .. size - 3 : Matches(bytes, size, i, <<0, 0, 1>>)}

\* Whether offset i belongs to a start code: to the three bytes of one, or is the
\* zero before them that makes it a long one.
InStartCode(bytes, size, i) ==
  \E c \in Codes(bytes, size) : i \in c .. c + 2 \/ (i = c - 1 /\ bytes[i] = 0)

\* A frame that begins with a start code is divided without loss: every byte is in
\* a start code or in exactly one unit, units are in order, and none holds or
\* runs into a start code, however codes, zeros and the end of the frame meet
\* (h264_packetizer.cpp:109-161).
DividesFrame(bytes, size, units) ==
  LET Within(i, u) == i \in units[u].from .. units[u].to
  IN  /\ \A i \in 0 .. size - 1 :
           InStartCode(bytes, size, i) <=> ~\E u \in DOMAIN units : Within(i, u)
      /\ \A u \in DOMAIN units :
           /\ units[u].from <= units[u].to
           /\ InStartCode(bytes, size, units[u].from - 1)
           /\ u > 1 => units[u - 1].to < units[u].from
=============================================================================
