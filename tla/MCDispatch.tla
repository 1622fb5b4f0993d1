----------------------------- MODULE MCDispatch -----------------------------
(* Instances of Dispatch for TLC *)
EXTENDS Dispatch

CONSTANTS d1, d2, d3, m1, m2

ThreeDeliveries == {d1, d2, d3}
TwoMessages     == {m1, m2}
=============================================================================
