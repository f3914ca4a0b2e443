----------------------------- MODULE EventFeed ------------------------------
(***************************************************************************)
(* What a handler may rely on: of each object it is told versions that     *)
(* exist and never go back, until the feed starts over, when every object  *)
(* that there is may be told of again.                                     *)
(***************************************************************************)
EXTENDS Integers

CONSTANT Objects

VARIABLES
  version, \* of each object, 0 before it is created
  gone,    \* the objects that were deleted
  seen     \* the version of each that was last told of, 0 if none

vars == <<version, gone, seen>>

Init ==
  /\ version \in [Objects -> Nat]
  /\ gone = {}
  /\ seen = [b \in Objects |-> 0]

Change(b) ==
  /\ b \notin gone
  /\ version' = [version EXCEPT ![b] = @ + 1]
  /\ UNCHANGED <<gone, seen>>

Delete(b) ==
  /\ gone' = gone \cup {b}
  /\ UNCHANGED <<version, seen>>

Tell(b) ==
  /\ \E v \in 1 .. version[b] : v >= seen[b] /\ seen' = [seen EXCEPT ![b] = v]
  /\ UNCHANGED <<version, gone>>

StartOver ==
  /\ seen' = [b \in Objects |-> 0]
  /\ UNCHANGED <<version, gone>>

Next ==
  \/ StartOver
  \/ \E b \in Objects : Change(b) \/ Delete(b) \/ Tell(b)

Spec == Init /\ [][Next]_vars
=============================================================================
