------------------------- MODULE ViewerClientProps -------------------------
(***************************************************************************)
(* What apps/rtsp/viewer_client.cpp guarantees of the packets it is sent,  *)
(* and of stop.                                                            *)
(***************************************************************************)
EXTENDS ViewerClient

Starts == {<<p, 1>> : p \in DOMAIN Media} \cup DOMAIN LookAlikes

TypeOK ==
  /\ main \in {"new", "running", "joining", "over"} /\ m_running \in BOOLEAN
  /\ thread \in {"off", "connect", "ask", "answer", "check", "recv"}
  /\ m_socket \in {"none", "open", "stale"}
  /\ requests \in 0 .. Requests /\ responses \in 0 .. requests
  /\ playing \in BOOLEAN /\ hungup \in BOOLEAN /\ sent \in 0 .. Len(Media)
  /\ \A i \in DOMAIN wire : wire[i] \in (0 .. sent) \X Nat
  /\ m_tcp_buffer = <<>>
  /\ fu_buffer \in Seq(Starts) /\ nals \in Seq(Seq(Starts))
  /\ parsed \in Seq(Starts)
  /\ cut \subseteq 1 .. sent /\ missed \subseteq 1 .. sent

\* The packets of which the packet loop was given every byte
Given == ((1 .. sent) \ PacketsIn(wire)) \ missed

Lost == {p \in Given : <<p, 1>> \notin ToSet(parsed)}

\* process_tcp_data loses a packet it was given only if two reads divided it,
\* or if the packet before it was lost too and has a look-alike, or was lost
\* because of one: the loop finds its way back to the packets by itself.
LossBeginsWithACut ==
  \A p \in Lost \ cut :
    /\ p - 1 \in Lost \cup missed
    /\ \E b \in DOMAIN LookAlikes : b[1] < p /\ b[1] \in Lost \cup missed

\* Whatever is cut, no packet is given to the assembler twice or out of order.
ParsedInOrder ==
  \A i, j \in DOMAIN parsed :
    i < j => \/ parsed[i][1] < parsed[j][1]
             \/ parsed[i][1] = parsed[j][1] /\ parsed[i][2] < parsed[j][2]

\* The units of the stream: the first and the last packet of each
Units ==
  { u \in (DOMAIN Media) \X (DOMAIN Media) :
      /\ u[1] <= u[2]
      /\ \/ u[1] = u[2] /\ Media[u[1]].kind = "single"
         \/ /\ Media[u[1]].kind = "fu_start" /\ Media[u[2]].kind = "fu_end"
            /\ \A p \in u[1] + 1 .. u[2] - 1 : Media[p].kind = "fu_middle" }

\* A unit whose packets all reach the assembler comes out of it, made of these
\* and nothing else, whatever was left in fu_buffer by units that did not.
UnitsAreWhole ==
  \A u \in Units :
    (\A p \in u[1] .. u[2] : <<p, 1>> \in ToSet(parsed)) =>
      [i \in 1 .. u[2] - u[1] + 1 |-> <<u[1] + i - 1, 1>>] \in ToSet(nals)

\* stop joins the thread before it closes the socket: only the server's
\* giving up brings a thread in recv back, and then stop returns.
StopCompletes == main = "joining" ~> main = "over"

-----------------------------------------------------------------------------
\* viewer_client.cpp:195 and 197, "Append to buffer", "Process complete packets":
\* a packet given to process_tcp_data in two pieces is parsed when it is complete.
CompletePacketsAreParsed == LookAlikes = <<>> => Lost = {}
=============================================================================
