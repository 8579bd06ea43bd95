---------------------------- MODULE MCOnboarding ----------------------------
(***************************************************************************)
(* One call at a time, no death and no status set by hand: the onboarding  *)
(* of an expert who never accepted an invitation.                          *)
(***************************************************************************)
EXTENDS Onboarding

=============================================================================
