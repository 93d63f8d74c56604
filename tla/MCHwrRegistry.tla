---------------------------- MODULE MCHwrRegistry ----------------------------
(* HwrRegistry for TLC: every step of init may fail, registers lie in a      *)
(* window that is mapped and in one that is not.                             *)
EXTENDS HwrRegistry
===============================================================================
