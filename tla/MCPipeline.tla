----------------------------- MODULE MCPipeline -----------------------------
EXTENDS PipelineProps

\* A unit that fits a packet, and one of two fragments.
MCFrames == {<<1>>, <<MaxPayload + 1>>}

\* A pipeline that runs is not stopped, and its threads get their turns.
NoStop == Unstopped /\ Fairness
=============================================================================
