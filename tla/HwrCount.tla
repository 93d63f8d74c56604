------------------------------ MODULE HwrCount ------------------------------
(***************************************************************************)
(* The use-count protocol of one hardware region (struct phyhwr), at the   *)
(* grain of its atomic operations: rhino_reserve_hwr and rhino_release_hwr *)
(* (kernel/hwr/hwrtype_rhino.c), get_hwr, put_hwr, hwr_activate and        *)
(* hwr_deactivate (kernel/hwr/common.c), driven the way bkexecd and        *)
(* borph_exit_fpga drive them.  RHINO has one region (num_devs: 1).        *)
(*                                                                         *)
(* The kernel thread bkexecd is the only caller of reserve_hwr; a region   *)
(* is released by the exiting task that owns it, or by bkexecd when a load *)
(* fails.  rhino_defconfig is a uniprocessor CONFIG_PREEMPT_NONE kernel:   *)
(* a thread keeps the processor until it sleeps.  Preempt = TRUE is the    *)
(* same code in a preemptible kernel, where any two atomic operations can  *)
(* be interleaved.                                                         *)
(***************************************************************************)
EXTENDS Integers

CONSTANTS
  Tasks,    \* user tasks that exec BOF files
  Bk,       \* the kernel thread bkexecd
  NULL,     \* the null task pointer
  Preempt   \* TRUE: the kernel is preemptible

ASSUME HwrCountAssumption ==
  /\ Bk \notin Tasks
  /\ NULL \notin Tasks
  /\ Preempt \in BOOLEAN

VARIABLES
  count,    \* phyhwr.count: -1 when free, otherwise a use count
  active,   \* phyhwr.active
  hwtask,   \* phyhwr.task
  loadfor,  \* execq_item->task: whose BOF file bkexecd is loading
  pc        \* where each thread is

vars == <<count, active, hwtask, loadfor, pc>>

Threads == Tasks \cup {Bk}

-----------------------------------------------------------------------------
(* Program points, each named for the operation that comes next.  "out": a *)
(* task without a region, or bkexecd waiting for work; "run": a task that  *)
(* owns the region; "load": bkexecd, asleep in kernel_read or in the       *)
(* configuration of the FPGA.                                              *)

ExitLabels == {"exit_get", "exit_set", "exit_put",
               "exit_rel", "exit_clr", "exit_end"}

TaskLabels == {"out", "run"} \cup ExitLabels

BkLabels == {"out", "rsv_test", "rsv_back", "rsv_own", "settask", "load",
             "act_get", "act_set", "act_put"} \cup ExitLabels

Parked == {"out", "run", "load"}

(* A non-preemptible kernel runs a thread only while no other one is in    *)
(* the middle of its code.                                                 *)
MayRun(a) == Preempt \/ \A b \in Threads \ {a} : pc[b] \in Parked

At(a, label) == pc[a] = label /\ MayRun(a)
Goto(a, label) == pc' = [pc EXCEPT ![a] = label]

-----------------------------------------------------------------------------
(* hwrtype_rhino_init sets the count to -1.  kmalloc leaves task and       *)
(* active undefined; a load writes both before anything reads them, so     *)
(* they start at NULL and 0 here.                                          *)
Init ==
  /\ count = -1
  /\ active = 0
  /\ hwtask = NULL
  /\ loadfor = NULL
  /\ pc = [a \in Threads |-> "out"]

(* bkexecd takes the BOF file of a task without hardware off its queue and *)
(* calls reserve_hwr.                                                      *)
LoadBegin(t) ==
  /\ At(Bk, "out")
  /\ pc[t] = "out"
  /\ loadfor' = t
  /\ Goto(Bk, "rsv_test")
  /\ UNCHANGED <<count, active, hwtask>>

(* Mutant: the test accepts every count that is not negative.              *)
ReserveTestSigned ==
  /\ At(Bk, "rsv_test")
  /\ count' = count + 1
  /\ Goto(Bk, IF count' >= 0 THEN "rsv_own" ELSE "rsv_back")
  /\ UNCHANGED <<active, hwtask, loadfor>>

(* atomic_inc_and_test(&ret->count): the region was free iff it is now 0.  *)
ReserveTest ==
  /\ At(Bk, "rsv_test")
  /\ count' = count + 1
  /\ Goto(Bk, IF count' = 0 THEN "rsv_own" ELSE "rsv_back")
  /\ UNCHANGED <<active, hwtask, loadfor>>

(* Mutant: the failed reservation is not taken back.                       *)
ReserveBackNoDec ==
  /\ At(Bk, "rsv_back")
  /\ Goto(Bk, "out")
  /\ loadfor' = NULL
  /\ UNCHANGED <<count, active, hwtask>>

(* Mutant: the early return after a failed reservation is missing.         *)
ReserveBackGoesOn ==
  /\ At(Bk, "rsv_back")
  /\ count' = count - 1
  /\ Goto(Bk, "settask")
  /\ UNCHANGED <<active, hwtask, loadfor>>

(* "was being used": atomic_dec, return NULL, and the load ends in -EBUSY  *)
(* with no region to give back.                                            *)
ReserveBack ==
  /\ At(Bk, "rsv_back")
  /\ count' = count - 1
  /\ Goto(Bk, "out")
  /\ loadfor' = NULL
  /\ UNCHANGED <<active, hwtask>>

(* atomic_inc: "count is now a usage count".                               *)
ReserveOwn ==
  /\ At(Bk, "rsv_own")
  /\ count' = count + 1
  /\ Goto(Bk, "settask")
  /\ UNCHANGED <<active, hwtask, loadfor>>

(* Mutant: the owner is not recorded.                                      *)
SetTaskForgotten ==
  /\ At(Bk, "settask")
  /\ Goto(Bk, "load")
  /\ UNCHANGED <<count, active, hwtask, loadfor>>

(* hwr->task = execq_item->task, then the load sleeps.                     *)
SetTask ==
  /\ At(Bk, "settask")
  /\ hwtask' = loadfor
  /\ Goto(Bk, "load")
  /\ UNCHANGED <<count, active, loadfor>>

(* The load ends in hwr_activate, or in borph_exit_fpga for the task.  The *)
(* region is on the task's list by then; a load that fails before that     *)
(* never calls release_hwr, which is a matter of BofExec.                  *)
LoadEnd(ok) ==
  /\ At(Bk, "load")
  /\ Goto(Bk, IF ok THEN "act_get" ELSE "exit_get")
  /\ UNCHANGED <<count, active, hwtask, loadfor>>

-----------------------------------------------------------------------------
(* get_hwr: one more use.                                                  *)
GetHwr(a, from, to) ==
  /\ At(a, from)
  /\ count' = count + 1
  /\ Goto(a, to)
  /\ UNCHANGED <<active, hwtask, loadfor>>

(* put_hwr: one use less; the last one frees the region.  Its callers here *)
(* hold the region themselves, so the freeing branch never runs and is not *)
(* split into its three operations.                                        *)
PutHwr ==
  IF count = 1
    THEN count' = -1 /\ hwtask' = NULL
    ELSE count' = count - 1 /\ UNCHANGED hwtask

ActivateGet == GetHwr(Bk, "act_get", "act_set")

ActivateSet ==
  /\ At(Bk, "act_set")
  /\ active' = 1
  /\ Goto(Bk, "act_put")
  /\ UNCHANGED <<count, hwtask, loadfor>>

(* put_hwr ends hwr_activate; the task wakes up with its region.           *)
ActivatePut ==
  /\ At(Bk, "act_put")
  /\ PutHwr
  /\ pc' = [pc EXCEPT ![Bk] = "out", ![loadfor] = "run"]
  /\ loadfor' = NULL
  /\ UNCHANGED active

-----------------------------------------------------------------------------
(* borph_exit_fpga: hwr_deactivate, then (after unconfigure) release_hwr;  *)
(* run by the exiting owner, or by bkexecd when a load fails.              *)
ExitBegin(t) ==
  /\ At(t, "run")
  /\ Goto(t, "exit_get")
  /\ UNCHANGED <<count, active, hwtask, loadfor>>

ExitGet(a) == GetHwr(a, "exit_get", "exit_set")

ExitSet(a) ==
  /\ At(a, "exit_set")
  /\ active' = 0
  /\ Goto(a, "exit_put")
  /\ UNCHANGED <<count, hwtask, loadfor>>

ExitPut(a) ==
  /\ At(a, "exit_put")
  /\ PutHwr
  /\ Goto(a, "exit_rel")
  /\ UNCHANGED <<active, loadfor>>

(* The end of borph_exit_fpga.                                             *)
ExitDone(a) ==
  /\ Goto(a, "out")
  /\ loadfor' = IF a = Bk THEN NULL ELSE loadfor

(* rhino_release_hwr: atomic_dec_and_test; only the last user goes on.     *)
ReleaseDec(a) ==
  /\ At(a, "exit_rel")
  /\ count' = count - 1
  /\ IF count' = 0
       THEN Goto(a, "exit_clr") /\ UNCHANGED loadfor
       ELSE ExitDone(a)
  /\ UNCHANGED <<active, hwtask>>

ReleaseClearTask(a) ==
  /\ At(a, "exit_clr")
  /\ hwtask' = NULL
  /\ Goto(a, "exit_end")
  /\ UNCHANGED <<count, active, loadfor>>

(* Mutant: the count is left at 0.                                         *)
ReleaseFreeNot(a) ==
  /\ At(a, "exit_end")
  /\ ExitDone(a)
  /\ UNCHANGED <<count, active, hwtask>>

ReleaseFree(a) ==
  /\ At(a, "exit_end")
  /\ count' = -1
  /\ ExitDone(a)
  /\ UNCHANGED <<active, hwtask>>

-----------------------------------------------------------------------------
BkLoad ==
  \/ ReserveTest \/ ReserveBack \/ ReserveOwn \/ SetTask
  \/ \E ok \in BOOLEAN : LoadEnd(ok)
  \/ ActivateGet \/ ActivateSet \/ ActivatePut

ExitNext(a) ==
  \/ ExitGet(a) \/ ExitSet(a) \/ ExitPut(a)
  \/ ReleaseDec(a) \/ ReleaseClearTask(a) \/ ReleaseFree(a)

Next ==
  \/ \E t \in Tasks : LoadBegin(t) \/ ExitBegin(t)
  \/ BkLoad
  \/ \E a \in Threads : ExitNext(a)

Spec == Init /\ [][Next]_vars

(* Threads inside the code run on; nothing forces a task to exec or a      *)
(* loaded program to exit.                                                 *)
FairSpec ==
  /\ Spec
  /\ WF_vars(BkLoad)
  /\ \A a \in Threads : WF_vars(ExitNext(a))

-----------------------------------------------------------------------------
(* Properties.                                                             *)

TypeOK ==
  /\ count \in Int
  /\ active \in {0, 1}
  /\ hwtask \in Tasks \cup {NULL}
  /\ loadfor \in Tasks \cup {NULL}
  /\ pc \in [Threads -> TaskLabels \cup BkLabels]
  /\ pc[Bk] \in BkLabels
  /\ \A t \in Tasks : pc[t] \in TaskLabels

(* The threads between a successful reserve_hwr and the operation that     *)
(* gives the region back.                                                  *)
HoldLabels == {"run", "rsv_own", "settask", "load",
               "act_get", "act_set", "act_put",
               "exit_get", "exit_set", "exit_put", "exit_rel"}
Holds(a) == pc[a] \in HoldLabels
NotHeld == \A a \in Threads : ~Holds(a)

(* Two threads never hold the region at once, however their reserve_hwr,   *)
(* release_hwr, get_hwr and put_hwr calls interleave: no two FPGA programs *)
(* share the device.                                                       *)
Exclusive ==
  \A a, b \in Threads : Holds(a) /\ Holds(b) => a = b

(* While a program runs, the region names its task (phyhwr.task, "task     *)
(* that uses this hwr") and is active, whatever failed reservations of     *)
(* other tasks and the tail of the previous owner's release do meanwhile.  *)
OwnerRecorded ==
  \A t \in Tasks : pc[t] = "run" => hwtask = t /\ active = 1 /\ count >= 1

(* A region nobody holds, with nobody inside reserve or release, is free   *)
(* again: its count is back at -1, so the next reserve_hwr succeeds.  What *)
(* reserve_hwr took is what release_hwr and put_hwr give back.             *)
NotLost ==
  (\A a \in Threads : pc[a] = "out") => count = -1 /\ hwtask = NULL

(* reserve_hwr "is like an atomic version of test and get_hwr" (common.c): *)
(* it returns NULL only while another thread still has the region.         *)
FailsOnlyIfHeld ==
  [][pc[Bk] = "rsv_test" /\ pc'[Bk] = "rsv_back"
       => \E t \in Tasks : pc[t] \in HoldLabels \cup ExitLabels]_vars

(* The lease that HwrCount implements: it starts when reserve_hwr finds    *)
(* the region free and ends with the decrement in release_hwr.             *)
Owner ==
  IF Holds(Bk) THEN loadfor
  ELSE IF NotHeld THEN NULL
  ELSE CHOOSE t \in Tasks : Holds(t)

Stage == IF Holds(Bk) THEN "loading" ELSE IF NotHeld THEN "free" ELSE "ready"

Lease == INSTANCE FpgaLease WITH owner <- Owner, stage <- Stage

(* The atomic operations on the count implement the lease of the FPGA:     *)
(* a grant only of a free region, no change of owner before it is          *)
(* returned, in a preemptible kernel as well.                              *)
LeaseSafe == Lease!Spec

(* The same, and a load that has its region goes on to its end.            *)
LeaseLive == Lease!LiveSpec

=============================================================================
