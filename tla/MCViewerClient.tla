-------------------------- MODULE MCViewerClient --------------------------
EXTENDS ViewerClientProps, TLC

Packet(kind, size) == [kind |-> kind, size |-> size]

\* A unit in three packets, one in two, and one in a packet of its own
MCMedia == << Packet("fu_start", 5), Packet("fu_middle", 8), Packet("fu_end", 4),
              Packet("fu_start", 8), Packet("fu_end", 4), Packet("single", 4) >>

\* A '$' in the middle piece that reaches into the next one and passes for a
\* piece of a unit, and one in the second start that reaches to its unit's end
MCLookAlikes ==
  <<2, 5>> :> Packet("fu_middle", 6) @@ <<4, 5>> :> Packet("unknown", 8)

NoLookAlikes == <<>>
=============================================================================
