----------------------------- MODULE MCRetention -----------------------------
(* Instances of Retention for TLC. *)
EXTENDS Retention, TLC

CONSTANTS r1, r2

\* Two windows that share a message.
Starts == r1 :> 1 @@ r2 :> 2
Ends   == r1 :> 3 @@ r2 :> 4
=============================================================================
