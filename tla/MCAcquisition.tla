---------------------------- MODULE MCAcquisition ----------------------------
(* Instances of Acquisition for TLC. *)
EXTENDS Acquisition, TLC

CONSTANTS r1, r2, x, y, t

\* Windows that leave message 1 older than all of them. The window of r1 closes
\* before message 4 can appear, any other one after it.
StartOf == [r \in Run |-> 2]
EndOf   == [r \in Run |-> IF r = r1 THEN 4 ELSE 5]

\* Overlapping windows over three messages: 1..2 and 2..3.
StartOverlap == [r \in Run |-> IF r = r1 THEN 1 ELSE 2]
EndOverlap   == [r \in Run |-> IF r = r1 THEN 3 ELSE 4]

BodySymmetry == Permutations(Body)
=============================================================================
