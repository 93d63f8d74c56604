------------------------------ MODULE FpgaLease ------------------------------
(***************************************************************************)
(* What BORPH promises about the FPGA, with nothing said about counters,   *)
(* queues or memory: the device is leased to one task at a time, for the   *)
(* time from the start of the load of its BOF file to its exit.            *)
(*                                                                         *)
(*   free     nobody has it                                                *)
(*   loading  bkexecd is configuring it for the owner                      *)
(*   ready    the owner's design runs on it                                *)
(***************************************************************************)
CONSTANTS Tasks, NULL

VARIABLES owner, stage

leaseVars == <<owner, stage>>

Init == owner = NULL /\ stage = "free"

(* A free device is given to a task.                                       *)
Grant(t) ==
  /\ stage = "free"
  /\ owner' = t
  /\ stage' = "loading"

(* The load succeeds: the owner is unchanged.                              *)
Ready ==
  /\ stage = "loading"
  /\ stage' = "ready"
  /\ UNCHANGED owner

(* A failed load, or the exit of the owner, makes the device free.         *)
Return ==
  /\ stage # "free"
  /\ owner' = NULL
  /\ stage' = "free"

Next == (\E t \in Tasks : Grant(t)) \/ Ready \/ Return

Spec == Init /\ [][Next]_leaseVars

(* A load does not stay unfinished.                                        *)
LiveSpec == Spec /\ WF_leaseVars(stage = "loading" /\ (Ready \/ Return))

==============================================================================
