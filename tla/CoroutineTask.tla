--------------------------- MODULE CoroutineTask ----------------------------
(***************************************************************************)
(* Task of core/async/coroutine_types.ixx: an object that owns the frame   *)
(* of a coroutine, which runs when its result is asked for.                *)
(***************************************************************************)
CONSTANTS
  Tasks,   \* objects of class Task
  Frames,  \* coroutine frames
  NoFrame  \* coro_ when it is empty

VARIABLES
  coro_,    \* object -> frame or NoFrame; an object not constructed has none
  frames,   \* the frames allocated
  progress, \* frame -> "suspended", "thrown" or "moved_from"
  answer    \* of the last get: "none", "value", "moved_from" or "exception"

vars == <<coro_, frames, progress, answer>>

Init ==
  /\ coro_ = [t \in Tasks |-> NoFrame]
  /\ frames = {}
  /\ progress = [f \in Frames |-> "suspended"]
  /\ answer = "none"

-----------------------------------------------------------------------------
\* Calling the coroutine: a frame that is suspended at once.
get_return_object(t) ==
  /\ coro_[t] = NoFrame
  /\ \E f \in Frames \ frames :
       /\ coro_' = [coro_ EXCEPT ![t] = f]
       /\ frames' = frames \cup {f}
       /\ progress' = [progress EXCEPT ![f] = "suspended"]
  /\ UNCHANGED answer

destroy(t) ==
  /\ coro_' = [coro_ EXCEPT ![t] = NoFrame]
  /\ frames' = frames \ {coro_[t]}
  /\ UNCHANGED <<progress, answer>>

MoveConstruct(t, other) ==
  /\ coro_[t] = NoFrame /\ t # other
  /\ coro_' = [coro_ EXCEPT ![other] = NoFrame, ![t] = coro_[other]]
  /\ UNCHANGED <<frames, progress, answer>>

MoveUnguarded(t, other) == \* mutant: a task assigned to itself loses its frame
  /\ frames' = frames \ {coro_[t]}
  /\ coro_' = [coro_ EXCEPT ![t] = coro_[other], ![other] = NoFrame]
  /\ UNCHANGED <<progress, answer>>
MoveAssign(t, other) ==
  /\ IF t = other THEN UNCHANGED <<coro_, frames>>
     ELSE /\ frames' = frames \ {coro_[t]}
          /\ coro_' = [coro_ EXCEPT ![other] = NoFrame, ![t] = coro_[other]]
  /\ UNCHANGED <<progress, answer>>

\* The coroutine is resumed until it is done; the value is moved out, so that it can
\* be had once, an exception each time.
get(t) ==
  /\ UNCHANGED <<coro_, frames>>
  /\ \/ coro_[t] = NoFrame /\ answer' = "exception" /\ UNCHANGED progress
     \/ /\ coro_[t] # NoFrame
        /\ \E done \in IF progress[coro_[t]] = "suspended"
                       THEN {"value", "thrown"} ELSE {progress[coro_[t]]} :
             /\ answer' = IF done = "thrown" THEN "exception" ELSE done
             /\ progress' = [progress EXCEPT
                  ![coro_[t]] = IF done = "thrown" THEN done ELSE "moved_from"]

Next ==
  \/ \E t \in Tasks : get_return_object(t) \/ destroy(t) \/ get(t)
  \/ \E t, other \in Tasks : MoveConstruct(t, other) \/ MoveAssign(t, other)

Spec == Init /\ [][Next]_vars

-----------------------------------------------------------------------------
Owner == INSTANCE UniqueOwner
  WITH Owners <- Tasks, Handles <- Frames, None <- NoFrame, owned <- coro_, live <- frames

\* Whatever is called, moved, assigned to itself and destroyed, a coroutine's frame
\* has one owner and is destroyed once (coroutine_types.ixx:20-59).
OwnsUniquely == Owner!Spec

\* The shape of the state.
TypeOK ==
  /\ coro_ \in [Tasks -> Frames \cup {NoFrame}] /\ frames \subseteq Frames
  /\ progress \in [Frames -> {"suspended", "thrown", "moved_from"}]
  /\ answer \in {"none", "value", "moved_from", "exception"}
=============================================================================
