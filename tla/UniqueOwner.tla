----------------------------- MODULE UniqueOwner ----------------------------
(* What a class that owns a handle promises: a handle is made for one owner, *)
(* changes hands whole, and is given back exactly once.                      *)

CONSTANTS Owners, Handles, None

VARIABLES
  owned,  \* owner -> its handle, or None
  live    \* the handles made and not given back

Init == owned = [o \in Owners |-> None] /\ live = {}

Acquire(o) ==
  /\ owned[o] = None
  /\ \E h \in Handles \ live :
       owned' = [owned EXCEPT ![o] = h] /\ live' = live \cup {h}

Release(o) ==
  /\ owned[o] # None
  /\ owned' = [owned EXCEPT ![o] = None]
  /\ live' = live \ {owned[o]}

\* to gives back what it had.
Transfer(from, to) ==
  /\ from # to
  /\ owned' = [owned EXCEPT ![from] = None, ![to] = owned[from]]
  /\ live' = live \ {owned[to]}

Next ==
  \/ \E o \in Owners : Acquire(o) \/ Release(o)
  \/ \E from, to \in Owners : Transfer(from, to)

Spec == Init /\ [][Next]_<<owned, live>>

\* No two owners have one handle, and every live handle, and no other, has an owner.
ExactlyOneOwner ==
  /\ \A o, p \in Owners : owned[o] = owned[p] /\ owned[o] # None => o = p
  /\ live = {owned[o] : o \in Owners} \ {None}
=============================================================================
