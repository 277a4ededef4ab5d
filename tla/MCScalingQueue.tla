--------------------------- MODULE MCScalingQueue ---------------------------
(* Instances of ScalingQueue for TLC. *)
EXTENDS ScalingQueue

CONSTANTS m1, m2, e1

MCOrigin == [e \in Execs |-> m1]

=============================================================================
