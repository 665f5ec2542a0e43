-------------------------- MODULE ImmutableSnapshot --------------------------
(***************************************************************************)
(* What a snapshot store promises of one snapshot id, abstractly: the      *)
(* snapshot is published at once and whole, then it does not change, and   *)
(* every reader gets the bars that are published at the moment it answers. *)
(* A power failure may take the snapshot as a whole.                       *)
(***************************************************************************)
CONSTANTS Runs,      \* processes that publish or read
          Bars,      \* the bars a snapshot may hold
          None       \* no bars; not one of Bars

VARIABLES stored,    \* the published bars
          answers    \* run -> the bars it was given

Init == stored = None /\ answers = [r \in Runs |-> None]

Publish == stored = None /\ stored' \in Bars /\ UNCHANGED answers

Lose == stored' = None /\ UNCHANGED answers

Answer(r) ==
    /\ stored # None
    /\ answers' = [answers EXCEPT ![r] = stored]
    /\ UNCHANGED stored

Next == Publish \/ Lose \/ \E r \in Runs : Answer(r)

Spec == Init /\ [][Next]_<<stored, answers>>
=============================================================================
