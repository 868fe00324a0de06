---------------------------- MODULE MediaChannel ----------------------------
(***************************************************************************)
(* What the pipeline is for, with no threads, numbers or buffers: packets  *)
(* are sent one after another and handed over in the order in which they   *)
(* were sent, each at most once.                                           *)
(***************************************************************************)
EXTENDS Integers, Sequences

CONSTANT Lossy \* may a packet never be handed over?

VARIABLES
  sent,     \* how many packets were sent
  delivered \* the positions handed over

vars == <<sent, delivered>>

Due == IF delivered = <<>> THEN 0 ELSE delivered[Len(delivered)] + 1

Init == sent = 0 /\ delivered = <<>>

Send == sent' = sent + 1 /\ UNCHANGED delivered

Deliver ==
  /\ \E p \in Due .. (IF Lossy THEN sent - 1 ELSE Due) :
       /\ p < sent
       /\ delivered' = Append(delivered, p)
  /\ UNCHANGED sent

Next == Send \/ Deliver

Spec == Init /\ [][Next]_vars
=============================================================================
