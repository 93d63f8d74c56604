----------------------------- MODULE MCHwrCount -----------------------------
(* HwrCount for TLC. *)
EXTENDS HwrCount
=============================================================================
