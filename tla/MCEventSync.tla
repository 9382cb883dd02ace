----------------------------- MODULE MCEventSync -----------------------------
(* Instances of EventSync for TLC.                                            *)
EXTENDS EventSync

CONSTANTS u1, u2, s1, s2
=============================================================================
