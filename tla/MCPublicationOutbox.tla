-------------------------- MODULE MCPublicationOutbox --------------------------
(***************************************************************************)
(* Two mains that lead in turn and one workflow.                           *)
(***************************************************************************)
EXTENDS PublicationOutbox

CONSTANTS m1, m2, w1
MCHosts == {m1, m2}
MCWorkflows == {w1}

=============================================================================
