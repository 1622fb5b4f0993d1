------------------------------ MODULE MCNudge ------------------------------
(* Small instances of Nudge for TLC.                                       *)
EXTENDS Nudge, TLC

CONSTANTS s1, s2, m1, m2, m3, m4, w1, w2, b1, b2

=============================================================================
