---------------------------- MODULE MCOnboarding ----------------------------
(* Instances of Onboarding for TLC *)
EXTENDS Onboarding

CONSTANTS d1

OneDoc == {d1}
=============================================================================
