------------------------------- MODULE MCIoReg -------------------------------
(* IoReg for TLC: a register of one 4-byte word and a neighbour behind it.  *)
EXTENDS IoReg, TLC
==============================================================================
