--------------------------- MODULE PlayoutBuffer ---------------------------
(***************************************************************************)
(* What the README and the comments of core/video/jitter promise of a      *)
(* jitter buffer, with no sequence numbers in it: packets are held as      *)
(* positions in the sender's stream, the oldest one is played when it is   *)
(* the next one or when more than half of the capacity is held, and it is  *)
(* the oldest one that goes when there is no room.                         *)
(***************************************************************************)
EXTENDS Integers, FiniteSets

CONSTANTS Packets, Capacity

Nothing == -1

VARIABLES
  held,   \* the positions held
  next,   \* the position due, or Nothing while no packet was played
  played  \* the answer to the last Play

vars == <<held, next, played>>

Oldest(ps) == CHOOSE p \in ps : \A q \in ps : p <= q

Init == held = {} /\ next = Nothing /\ played = Nothing

Arrive(p) ==
  LET all == held \cup {p}
  IN  /\ held' = IF Cardinality(all) > Capacity THEN all \ {Oldest(all)} ELSE all
      /\ UNCHANGED <<next, played>>

Due ==
  /\ held # {}
  /\ \/ next = Nothing
     \/ Oldest(held) = next
     \/ Cardinality(held) > Capacity \div 2

Play ==
  /\ Due
  /\ played' = Oldest(held)
  /\ held' = held \ {Oldest(held)}
  /\ next' = Oldest(held) + 1

Wait ==
  /\ ~Due
  /\ played' = Nothing
  /\ UNCHANGED <<held, next>>

Restart == held' = {} /\ next' = Nothing /\ UNCHANGED played

Next == (\E p \in Packets : Arrive(p)) \/ Play \/ Wait \/ Restart

Spec == Init /\ [][Next]_vars
=============================================================================
