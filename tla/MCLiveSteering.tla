--------------------------- MODULE MCLiveSteering ---------------------------
(* Live commands to one actor; the instances differ in their bounds.       *)
EXTENDS LiveSteering
=============================================================================
