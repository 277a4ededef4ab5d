------------------------ MODULE MCLeaderWaitTracking ------------------------
(***************************************************************************)
(* Two mains and one execution that waits.                                 *)
(***************************************************************************)
EXTENDS LeaderWaitTracking

CONSTANTS m1, m2, w1
MCHosts == {m1, m2}
MCExecs == {w1}

=============================================================================
