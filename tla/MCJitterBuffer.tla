--------------------------- MODULE MCJitterBuffer ---------------------------
EXTENDS JitterBufferProps

\* A window of SeqSpace - 1 packets around the first wrap: no two share a
\* number, and those after the wrap have the smaller numbers.
MCAroundWrap == SeqSpace - 3 .. 2 * SeqSpace - 5
=============================================================================
