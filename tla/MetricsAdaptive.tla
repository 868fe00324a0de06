--------------------------- MODULE MetricsAdaptive --------------------------
(***************************************************************************)
(* apps/exp/metrics_adaptive.cpp: monitoring_loop measures, adaptive_loop  *)
(* adjusts the target, both under one lock, while main waits and a         *)
(* detached thread of main's reports packets.                              *)
(***************************************************************************)
EXTENDS BitrateControl

CONSTANTS
  target_bitrates,     \* targets the command line may set
  measurement_window,  \* seconds
  keyframe_interval,
  ReportInterval,      \* updates from one report to the next
  MaxUpdates,          \* updates the simulation makes
  Updates              \* records of bytes, packets, lost

VARIABLES
  metrics_running, target_bitrate, m_metrics,
  monitoring, adaptive,  \* "off", "check", "sleep"
  simulation,            \* "none", "ready", "report" or "done"
  starter                \* main: "idle", "running", where stop is, "done", "crashed"

control == <<metrics_running, monitoring, adaptive>>
vars == <<control, target_bitrate, m_metrics, simulation, starter>>

Init ==
  /\ metrics_running = FALSE
  /\ target_bitrate \in target_bitrates
  /\ m_metrics = [total_bytes |-> 0, total_packets |-> 0, lost_packets |-> 0,
                  current_bitrate |-> 0, frame_count |-> 0, keyframe_count |-> 0]
  /\ monitoring = "off" /\ adaptive = "off"
  /\ simulation = "none" /\ starter = "idle"

Alive == starter \notin {"done", "crashed"}

-----------------------------------------------------------------------------
start ==
  /\ starter = "idle" /\ starter' = "running"
  /\ metrics_running' = TRUE
  /\ monitoring' = "check" /\ adaptive' = "check"
  /\ simulation' = "ready"
  /\ UNCHANGED <<target_bitrate, m_metrics>>

\* generate_metrics_report divides by the number of key frames: with none yet the
\* processor ends the program, or gives 0 and nothing happens.
ReportCrashes ==
  /\ m_metrics.frame_count > 0 /\ m_metrics.keyframe_count = 0
  /\ starter' = "crashed"

StopBegins ==
  /\ starter = "running"
  /\ \/ starter' = "join_monitoring" /\ metrics_running' = FALSE
     \/ ReportCrashes /\ UNCHANGED metrics_running
  /\ UNCHANGED <<monitoring, adaptive>>

StopJoins ==
  /\ \/ starter = "join_monitoring" /\ monitoring = "off" /\ starter' = "join_adaptive"
     \/ starter = "join_adaptive" /\ adaptive = "off" /\ starter' = "done"
  /\ UNCHANGED control

stop == (StopBegins \/ StopJoins) /\ UNCHANGED <<target_bitrate, m_metrics, simulation>>

-----------------------------------------------------------------------------
NeverEnds(pc) == pc = "check" /\ pc' = "sleep" \* mutant: the flag is not looked at
Checks(pc) == pc = "check" /\ pc' = IF metrics_running THEN "sleep" ELSE "off"

\* All bytes there have ever been, in kilobits per window. The average is only shown.
update_bitrate_measurement ==
  m_metrics' = [m_metrics EXCEPT !.current_bitrate =
    IF m_metrics.total_packets > 0
    THEN (8 * m_metrics.total_bytes) \div (1000 * measurement_window) ELSE @]

\* It wakes every second; a window may have gone by.
monitoring_loop ==
  /\ Alive
  /\ \/ Checks(monitoring) /\ UNCHANGED m_metrics
     \/ /\ monitoring = "sleep" /\ monitoring' = "check"
        /\ update_bitrate_measurement \/ UNCHANGED m_metrics
  /\ UNCHANGED <<metrics_running, adaptive, target_bitrate, simulation, starter>>

adaptive_loop ==
  /\ Alive
  /\ \/ Checks(adaptive) /\ UNCHANGED target_bitrate
     \/ /\ adaptive = "sleep" /\ adaptive' = "check"
        /\ target_bitrate' = apply_adaptive_adjustments(target_bitrate,
             m_metrics.current_bitrate, m_metrics.lost_packets, m_metrics.total_packets)
  /\ UNCHANGED <<metrics_running, monitoring, m_metrics, simulation, starter>>

update_packet_stats(u) ==
  LET frames == m_metrics.frame_count + 1
  IN  m_metrics' = [m_metrics EXCEPT
        !.total_bytes = @ + u.bytes, !.total_packets = @ + u.packets,
        !.lost_packets = @ + u.lost, !.frame_count = frames,
        !.keyframe_count = IF frames % keyframe_interval = 0 THEN @ + 1 ELSE @]

\* main's detached thread; it ends with the process, wherever it is.
Simulate ==
  /\ Alive
  /\ \/ /\ simulation = "ready"
        /\ \/ /\ m_metrics.frame_count < MaxUpdates
              /\ \E u \in Updates : update_packet_stats(u)
              /\ simulation' = IF m_metrics.frame_count % ReportInterval = 0
                               THEN "report" ELSE "ready"
           \/ /\ m_metrics.frame_count = MaxUpdates
              /\ simulation' = "done"
              /\ UNCHANGED m_metrics
        /\ UNCHANGED starter
     \/ /\ simulation = "report" /\ simulation' = "ready"
        /\ ReportCrashes \/ UNCHANGED starter
        /\ UNCHANGED m_metrics
  /\ UNCHANGED <<control, target_bitrate>>

Next == start \/ stop \/ monitoring_loop \/ adaptive_loop \/ Simulate

\* Threads run and sleeps end; nobody need press the key that stops the program.
Fairness ==
  /\ WF_vars(starter # "running" /\ stop)
  /\ WF_vars(monitoring_loop)
  /\ WF_vars(adaptive_loop)
  /\ WF_vars(Simulate)

Spec == Init /\ [][Next]_vars /\ Fairness

-----------------------------------------------------------------------------
\* The shape of the state.
TypeOK ==
  /\ metrics_running \in BOOLEAN
  /\ target_bitrate \in Nat
  /\ \A k \in DOMAIN m_metrics : m_metrics[k] \in Nat
  /\ monitoring \in {"off", "check", "sleep"} /\ adaptive \in {"off", "check", "sleep"}
  /\ simulation \in {"none", "ready", "report", "done"}
  /\ starter \in {"idle", "running", "join_monitoring", "join_adaptive", "done", "crashed"}

\* Where the target comes to rest: between the bounds, with losses at the minimum,
\* without at the maximum, each but for a change too small to make; from 10 kbit/s
\* down every change but one into the bounds is too small.
Settled ==
  LET lost == m_metrics.lost_packets
      packets == m_metrics.total_packets
  IN  /\ target_bitrate + 1000 >= min_bitrate /\ target_bitrate <= max_bitrate + 1000
      /\ HighLoss(lost, packets) /\ target_bitrate > 10000
           => target_bitrate <= min_bitrate + 1000
      /\ LowLoss(lost, packets) /\ m_metrics.current_bitrate < target_bitrate
           => target_bitrate <= 10000 \/ target_bitrate >= max_bitrate - 1000

\* In a program that goes on running the target comes to rest there, wherever the
\* command line set it, whatever was lost and when the loops ran (metrics_adaptive.cpp:81-134, 160-190).
Settles == []<>(starter = "running") => <>[]Settled

\* stop ends: both loops look at the flag again after at most one sleep
\* (metrics_adaptive.cpp:233-245).
StopCompletes == starter \in {"join_monitoring", "join_adaptive"} ~> ~Alive
=============================================================================
