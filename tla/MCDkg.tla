------------------------------- MODULE MCDkg -------------------------------
(***************************************************************************)
(* Two participants, of one build or of two.                               *)
(***************************************************************************)
EXTENDS Dkg

CONSTANTS p1, p2

TwoParticipants == {p1, p2}

SameBuild == {[p \in {p1, p2} |-> 2]}

AnyBuilds == SameBuild \cup {[p \in {p1, p2} |-> IF p = p1 THEN 1 ELSE 2]}
=============================================================================
