------------------------------- MODULE BofExec -------------------------------
(***************************************************************************)
(* The life of BORPH processes: exec of a BOF file (fs/binfmt_bof.c and    *)
(* the retry loop of search_binary_handler in fs/exec.c), the loader       *)
(* thread bkexecd (kernel/bkexecd.c), borph_exit_fpga (kernel/borph.c) as  *)
(* called by do_exit, and the copy of task_struct.borph_info by fork.      *)
(*                                                                         *)
(* One step is the code a thread runs between two points where it can      *)
(* sleep (kernel_read, kmalloc, schedule, the configuration of the FPGA),  *)
(* as in the non-preemptible uniprocessor kernel of rhino_defconfig.       *)
(* Preempt adds the one preemption that a CONFIG_PREEMPT kernel makes      *)
(* possible and that matters here: between wake_up(&more_exec) and         *)
(* set_current_state(TASK_INTERRUPTIBLE) in load_bof_binary.               *)
(*                                                                         *)
(* reserve_hwr and release_hwr are single steps here; module HwrCount      *)
(* looks inside them.  rhino_configure is a step that begins and one that  *)
(* ends with an outcome.  A use of freed memory has no defined outcome:    *)
(* it sets uaf, and the behaviour ends there.                              *)
(***************************************************************************)
EXTENDS Integers, Sequences, FiniteSets

CONSTANTS
  Tasks,     \* task_structs
  Infos,     \* addresses of struct borph_info
  NULL,      \* the null pointer
  Files,     \* BOF files that may be exec-ed
  Env,       \* what the environment does, see EnvEvents
  MaxQueue,  \* bound: no new exec while the queue is this long
  Preempt    \* TRUE: CONFIG_PREEMPT

(* A BOF file: b_numchip; the hwrhdr chain, whose end is next_hwr = 0;     *)
(* whether the embedded ELF image is one; load_err as stored in the file.  *)
(* Of a hwrhdr: is its class HAC_RHINO, is HFG_PLACED set, the address, is *)
(* its string table usable (not empty with symbols, kmalloc succeeds).     *)
HwrHdr == [rhino : BOOLEAN, placed : BOOLEAN, addr : Nat, strtab : BOOLEAN]
BofFile == [numchip : Nat, hwr : Seq(HwrHdr), elf : BOOLEAN, err : Int]

EnvEvents == {
  "hdr_err",     \* kernel_read of a hwrhdr fails
  "strtab_err",  \* kernel_read of a string table fails
  "ioreg_err",   \* kernel_read of an ioreg fails
  "elf_err",     \* kernel_read of the ELF header fails
  "badbits",     \* rhino_configure returns a positive number: CRC or DONE
  "signal",      \* a task asleep in exec gets a signal
  "fork",        \* a task with hardware forks
  "reexec",      \* a task with hardware execs a BOF file
  "kill"}        \* bkexecd gets SIGKILL or SIGSTOP

ASSUME BofExecAssumption ==
  /\ NULL \notin Tasks \cup Infos
  /\ Files \subseteq BofFile
  /\ Env \subseteq EnvEvents
  /\ MaxQueue \in Nat
  /\ Preempt \in BOOLEAN

(* errno.h *)
EIO == 5
ENOEXEC == 8
EBUSY == 16

VARIABLES
  \* tasks
  pc,        \* see TaskLabels
  prog,      \* "hw" if the task's image came from a BOF file with hardware
  tinfo,     \* task_struct.borph_info
  file,      \* bprm->file of the exec in progress, NULL outside one
  loaderr,   \* load_err in bprm->buf
  try,       \* try in search_binary_handler
  \* bkexecd
  execq,     \* bked_info.execq_list: the task of each item, or NULL when
             \* the exec that queued it is over and its bprm is freed
  bpc,       \* see BkLabels
  item,      \* the execq_item being loaded, written the same way
  binfo,     \* bi in borph_load_hw
  chip,      \* hardware regions done
  retval,    \* retval in borph_load_hw
  \* struct borph_info
  live,      \* allocated
  listed,    \* hw_region holds the region
  ready,     \* status & 1
  \* the region and the device
  count,     \* phyhwr.count
  active,    \* phyhwr.active
  hwtask,    \* phyhwr.task
  power,     \* the FPGA supplies
  design,    \* whose design is configured
  uaf        \* freed memory was used

taskVars == <<pc, prog, tinfo, file, loaderr, try>>
execVars == <<prog, file, try>>
bkRest == <<bpc, binfo, chip, retval>>
bkVars == <<bkRest, item>>
infoVars == <<live, listed, ready>>
hwVars == <<count, active, hwtask, power, design>>
vars == <<taskVars, execq, bkVars, infoVars, hwVars, uaf>>

(* "none": no such process; "user": in user space; "queued": item queued,  *)
(* not yet asleep; "asleep": in schedule(); "woken": past it; "readelf":   *)
(* in kernel_read of the ELF header.                                       *)
TaskLabels == {"none", "user", "queued", "asleep", "woken", "readelf"}

BkLabels == {"idle", "alloc", "head", "readhdr", "strtab", "ioreg",
             "config", "dead"}

(* After boot; phyhwr.task and .active as in HwrCount.                      *)
Init ==
  /\ pc = [t \in Tasks |-> "none"]
  /\ prog = [t \in Tasks |-> "sw"]
  /\ tinfo = [t \in Tasks |-> NULL]
  /\ file = [t \in Tasks |-> NULL]
  /\ loaderr = [t \in Tasks |-> 0]
  /\ try = [t \in Tasks |-> 0]
  /\ execq = <<>>
  /\ bpc = "idle" /\ item = NULL /\ binfo = NULL /\ chip = 0 /\ retval = 0
  /\ live = {} /\ listed = {} /\ ready = {}
  /\ count = -1 /\ active = 0 /\ hwtask = NULL
  /\ power = FALSE /\ design = NULL
  /\ uaf = FALSE

-----------------------------------------------------------------------------
(* borph_exit_fpga(t): deactivate, unconfigure and release every region on *)
(* the list, free the borph_info and clear the pointer.                    *)

ReleaseHwr ==
  IF count = 1
    THEN count' = -1 /\ hwtask' = NULL
    ELSE count' = count - 1 /\ UNCHANGED hwtask

(* Mutant: the region is not released.                                     *)
DropRegionsKept(i) ==
  IF i \in listed
    THEN /\ active' = 0
         /\ power' = FALSE
         /\ design' = NULL
         /\ UNCHANGED <<count, hwtask>>
    ELSE UNCHANGED hwVars

(* Mutant: the FPGA is switched off for a task that has no region, too.    *)
DropRegionsAlways(i) ==
  /\ active' = 0
  /\ power' = FALSE
  /\ design' = NULL
  /\ IF i \in listed THEN ReleaseHwr ELSE UNCHANGED <<count, hwtask>>

DropRegions(i) ==
  IF i \in listed
    THEN /\ active' = 0
         /\ power' = FALSE
         /\ design' = NULL
         /\ ReleaseHwr
    ELSE UNCHANGED hwVars

(* Mutant: the pointer to the freed borph_info is kept.                    *)
ExitFpgaNoNull(t) ==
  LET i == tinfo[t] IN
  IF i = NULL
    THEN UNCHANGED <<tinfo, infoVars, hwVars, uaf>>
    ELSE /\ uaf' = (i \notin live)
         /\ DropRegions(i)
         /\ live' = live \ {i}
         /\ listed' = listed \ {i}
         /\ ready' = ready \ {i}
         /\ UNCHANGED tinfo

ExitFpga(t) ==
  LET i == tinfo[t] IN
  IF i = NULL
    THEN UNCHANGED <<tinfo, infoVars, hwVars, uaf>>
    ELSE /\ uaf' = (i \notin live)
         /\ DropRegions(i)
         /\ live' = live \ {i}
         /\ listed' = listed \ {i}
         /\ ready' = ready \ {i}
         /\ tinfo' = [tinfo EXCEPT ![t] = NULL]

-----------------------------------------------------------------------------
(* Processes.                                                              *)

At(t, label) == pc[t] = label /\ ~uaf

(* A process without hardware comes to be, say the child of a shell.       *)
Spawn(t) ==
  /\ At(t, "none")
  /\ pc' = [pc EXCEPT ![t] = "user"]
  /\ UNCHANGED <<execVars, tinfo, loaderr, execq, bkVars, infoVars, hwVars, uaf>>

(* dup_task_struct copies the whole task_struct (kernel/fork.c:240, Linux  *)
(* code that BORPH left as it was); nothing in copy_process               *)
(* resets borph_info.  The child counts as software: what it runs is a     *)
(* copy of the parent's program, and the parent is the one to keep the     *)
(* FPGA.                                                                   *)
Fork(t, c) ==
  /\ "fork" \in Env
  /\ At(t, "user") /\ tinfo[t] # NULL
  /\ At(c, "none")
  /\ pc' = [pc EXCEPT ![c] = "user"]
  /\ tinfo' = [tinfo EXCEPT ![c] = tinfo[t]]
  /\ UNCHANGED <<execVars, loaderr, execq, bkVars, infoVars, hwVars, uaf>>

(* do_exit (kernel/exit.c:987) calls borph_exit_fpga.                      *)
Exit(t) ==
  /\ At(t, "user")
  /\ ExitFpga(t)
  /\ pc' = [pc EXCEPT ![t] = "none"]
  /\ prog' = [prog EXCEPT ![t] = "sw"]
  /\ UNCHANGED <<file, loaderr, try, execq, bkVars>>

-----------------------------------------------------------------------------
(* load_bof_binary.                                                        *)

(* From the header checks to schedule().                                   *)
Enter(t, f) ==
  IF f.numchip > 0
    THEN /\ execq' = Append(execq, t)
         /\ pc' = [pc EXCEPT ![t] = IF Preempt THEN "queued" ELSE "asleep"]
    ELSE /\ pc' = [pc EXCEPT ![t] = "woken"]
         /\ UNCHANGED execq

LoadBof(t, f) ==
  /\ At(t, "user")
  /\ tinfo[t] = NULL \/ "reexec" \in Env
  /\ Len(execq) < MaxQueue
  /\ Enter(t, f)
  /\ file' = [file EXCEPT ![t] = f]
  /\ loaderr' = [loaderr EXCEPT ![t] = f.err]
  /\ try' = [try EXCEPT ![t] = 0]
  /\ UNCHANGED <<prog, tinfo, bkVars, infoVars, hwVars, uaf>>

(* set_current_state and schedule() of a task that was preempted before.   *)
GoToSleep(t) ==
  /\ At(t, "queued")
  /\ pc' = [pc EXCEPT ![t] = "asleep"]
  /\ UNCHANGED <<execVars, tinfo, loaderr, execq, bkVars, infoVars, hwVars, uaf>>

(* TASK_INTERRUPTIBLE: any signal ends the sleep.                          *)
Signal(t) ==
  /\ "signal" \in Env
  /\ At(t, "asleep")
  /\ pc' = [pc EXCEPT ![t] = "woken"]
  /\ UNCHANGED <<execVars, tinfo, loaderr, execq, bkVars, infoVars, hwVars, uaf>>

(* The exec is over, with or without a new image.  The bprm is freed: an   *)
(* item that is still queued or being loaded points to nothing from now on.*)
EndExec(t) ==
  /\ pc' = [pc EXCEPT ![t] = "user"]
  /\ file' = [file EXCEPT ![t] = NULL]
  /\ execq' = [k \in DOMAIN execq |-> IF execq[k] = t THEN NULL ELSE execq[k]]
  /\ item' = IF item = t THEN NULL ELSE item
  /\ try' = [try EXCEPT ![t] = 0]
  /\ loaderr' = [loaderr EXCEPT ![t] = 0]

(* load_bof_binary returns an error to search_binary_handler, which makes  *)
(* a second round of all formats after -ENOEXEC (fs/exec.c:1316, 1354).    *)
ExecFails(t, e) ==
  IF e = -ENOEXEC /\ try[t] = 0
    THEN /\ try' = [try EXCEPT ![t] = 1]
         /\ Enter(t, file[t])
         /\ UNCHANGED <<file, loaderr, item>>
    ELSE EndExec(t)

(* Mutant: load_err is not looked at.                                      *)
ResumeUnchecked(t) ==
  /\ At(t, "woken")
  /\ pc' = [pc EXCEPT ![t] = "readelf"]
  /\ UNCHANGED <<file, try, loaderr, execq, item>>
  /\ UNCHANGED <<prog, tinfo, bkRest, infoVars, hwVars, uaf>>

(* "hw should have been loaded by now": look at load_err.                  *)
Resume(t) ==
  /\ At(t, "woken")
  /\ IF loaderr[t] = 0
       THEN /\ pc' = [pc EXCEPT ![t] = "readelf"]
            /\ UNCHANGED <<file, try, loaderr, execq, item>>
       ELSE ExecFails(t, loaderr[t])
  /\ UNCHANGED <<prog, tinfo, bkRest, infoVars, hwVars, uaf>>

(* "make it looks like an ELF and start over".                             *)
ReadElf(t) ==
  /\ At(t, "readelf")
  /\ EndExec(t)
  /\ prog' = IF file[t].elf
               THEN [prog EXCEPT ![t] = IF file[t].numchip > 0
                                          THEN "hw" ELSE "sw"]
               ELSE prog
  /\ UNCHANGED <<tinfo, bkRest, infoVars, hwVars, uaf>>

ReadElfFails(t) ==
  /\ "elf_err" \in Env
  /\ At(t, "readelf")
  /\ ExecFails(t, -ENOEXEC)
  /\ UNCHANGED <<prog, tinfo, bkRest, infoVars, hwVars, uaf>>

-----------------------------------------------------------------------------
(* bkexecd: run_execq and borph_load_hw.                                   *)

BkFile == file[item]
Hdr == BkFile.hwr[chip + 1]

(* The exec that queued the item is still waiting for it: its task, its    *)
(* bprm and its borph_info are there to be used.                           *)
ItemValid ==
  /\ item # NULL
  /\ bpc # "alloc" => tinfo[item] = binfo /\ binfo \in live

BkAt(label) == bpc = label /\ ItemValid /\ ~uaf

(* Mutant: wake_up_process is missing.                                     *)
FinishNoWake(r) ==
  /\ loaderr' = [loaderr EXCEPT ![item] = r]
  /\ bpc' = "idle" /\ item' = NULL /\ binfo' = NULL
  /\ chip' = 0 /\ retval' = 0
  /\ UNCHANGED <<pc, execVars, execq>>

(* load_err = retval and wake_up_process, which does nothing to a task     *)
(* that is not asleep; then back to the queue.                             *)
Finish(r) ==
  /\ loaderr' = [loaderr EXCEPT ![item] = r]
  /\ pc' = [pc EXCEPT ![item] = IF @ = "asleep" THEN "woken" ELSE @]
  /\ bpc' = "idle" /\ item' = NULL /\ binfo' = NULL
  /\ chip' = 0 /\ retval' = 0
  /\ UNCHANGED <<execVars, execq>>

(* out_delregion.                                                          *)
Fail(r) == ExitFpga(item) /\ Finish(r)

Dequeue ==
  /\ bpc = "idle" /\ execq # <<>> /\ ~uaf
  /\ item' = Head(execq)
  /\ execq' = Tail(execq)
  /\ bpc' = "alloc"
  /\ UNCHANGED <<taskVars, binfo, chip, retval, infoVars, hwVars, uaf>>

(* The signal is seen at the top of the loop; the queue is left as it is.  *)
BkKilled ==
  /\ "kill" \in Env
  /\ bpc = "idle" /\ ~uaf
  /\ bpc' = "dead"
  /\ UNCHANGED <<taskVars, execq, item, binfo, chip, retval, infoVars, hwVars, uaf>>

(* A new borph_info replaces whatever the task had.  The address is one    *)
(* that no pointer holds, so that a stale pointer is always seen as such.  *)
AllocInfo ==
  /\ BkAt("alloc")
  /\ \E i \in Infos :
       /\ i \notin live /\ \A t \in Tasks : tinfo[t] # i
       /\ live' = live \cup {i}
       /\ tinfo' = [tinfo EXCEPT ![item] = i]
       /\ binfo' = i
  /\ bpc' = "head"
  /\ chip' = 0
  /\ retval' = -EIO
  /\ UNCHANGED <<pc, execVars, loaderr, execq, item, listed, ready, hwVars, uaf>>

(* while (bofhdr.b_numchip--): done, an "invalid bof file", or a region.   *)
LoadDone ==
  /\ BkAt("head") /\ chip = BkFile.numchip
  /\ ready' = ready \cup {binfo}
  /\ Finish(0)
  /\ UNCHANGED <<tinfo, live, listed, hwVars, uaf>>

InvalidBof ==
  /\ BkAt("head") /\ chip < BkFile.numchip /\ chip >= Len(BkFile.hwr)
  /\ Fail(retval)

NextRegion ==
  /\ BkAt("head") /\ chip < BkFile.numchip /\ chip < Len(BkFile.hwr)
  /\ bpc' = "readhdr"
  /\ UNCHANGED <<taskVars, execq, item, binfo, chip, retval, infoVars, hwVars, uaf>>

ReadHdrFails ==
  /\ "hdr_err" \in Env
  /\ BkAt("readhdr")
  /\ Fail(-EIO)

(* Mutant: a region in use is not refused.                                 *)
CanReserveInUse ==
  /\ Hdr.rhino
  /\ Hdr.placed => Hdr.addr = 0

(* reserve_hwr, or bpr_nextfree which tries the addresses 0 to 3: RHINO    *)
(* has only region 0, and only if its count says it is free.               *)
CanReserve ==
  /\ count = -1
  /\ Hdr.rhino
  /\ Hdr.placed => Hdr.addr = 0

ReserveFails ==
  /\ BkAt("readhdr")
  /\ ~CanReserve
  /\ Fail(-EBUSY)

(* Mutant: hwr->task is not set.                                           *)
ReserveNoTask ==
  /\ BkAt("readhdr")
  /\ CanReserve
  /\ count' = 1
  /\ bpc' = "strtab"
  /\ UNCHANGED <<taskVars, execq, item, binfo, chip, retval, infoVars,
                 hwtask, active, power, design, uaf>>

Reserve ==
  /\ BkAt("readhdr")
  /\ CanReserve
  /\ count' = 1
  /\ hwtask' = item
  /\ bpc' = "strtab"
  /\ UNCHANGED <<taskVars, execq, item, binfo, chip, retval, infoVars,
                 active, power, design, uaf>>

(* The region is reserved but not on the list yet.                         *)
StrtabBad ==
  /\ BkAt("strtab") /\ ~Hdr.strtab
  /\ Fail(-ENOEXEC)

ReadStrtabFails ==
  /\ "strtab_err" \in Env
  /\ BkAt("strtab") /\ Hdr.strtab
  /\ Fail(-EIO)

ListRegion ==
  /\ BkAt("strtab") /\ Hdr.strtab
  /\ listed' = listed \cup {binfo}
  /\ bpc' = "ioreg"
  /\ UNCHANGED <<taskVars, execq, item, binfo, chip, retval, live, ready,
                 hwVars, uaf>>

ReadIoregFails ==
  /\ "ioreg_err" \in Env
  /\ BkAt("ioreg")
  /\ Fail(-EIO)

(* The registers are read; rhino_configure powers the FPGA and clears its  *)
(* configuration memory.                                                   *)
Configure ==
  /\ BkAt("ioreg")
  /\ power' = TRUE
  /\ design' = NULL
  /\ bpc' = "config"
  /\ UNCHANGED <<taskVars, execq, item, binfo, chip, retval, infoVars,
                 count, active, hwtask, uaf>>

ConfigureFails ==
  /\ BkAt("config")
  /\ Fail(-EIO)

(* rhino_configure returned r >= 0: hwr_activate, and on to the next hwr.  *)
Activate(r) ==
  /\ BkAt("config")
  /\ active' = 1
  /\ retval' = r
  /\ chip' = chip + 1
  /\ bpc' = "head"
  /\ UNCHANGED <<taskVars, execq, item, binfo, infoVars, count, hwtask,
                 power, uaf>>

Configured == Activate(0) /\ design' = binfo

ConfigureFailsPositive ==
  /\ "badbits" \in Env
  /\ Activate(1)
  /\ UNCHANGED design

(* bkexecd goes on after a sleep in which the exec that queued the item    *)
(* ended: its bprm, its task or its borph_info is no longer there.         *)
BkUsesFreed ==
  /\ bpc \notin {"idle", "dead"} /\ ~ItemValid /\ ~uaf
  /\ uaf' = TRUE
  /\ UNCHANGED <<taskVars, execq, bkVars, infoVars, hwVars>>

-----------------------------------------------------------------------------
ExecStep(t) ==
  \/ GoToSleep(t) \/ Resume(t) \/ ReadElf(t) \/ ReadElfFails(t)

TaskStep(t) ==
  \/ Spawn(t) \/ Exit(t) \/ Signal(t) \/ ExecStep(t)
  \/ \E c \in Tasks : Fork(t, c)
  \/ \E f \in Files : LoadBof(t, f)

BkLoad ==
  \/ Dequeue \/ AllocInfo \/ LoadDone \/ InvalidBof \/ NextRegion
  \/ ReadHdrFails \/ ReserveFails \/ Reserve
  \/ StrtabBad \/ ReadStrtabFails \/ ListRegion
  \/ ReadIoregFails \/ Configure
  \/ ConfigureFails \/ Configured \/ ConfigureFailsPositive
  \/ BkUsesFreed

Next ==
  \/ \E t \in Tasks : TaskStep(t)
  \/ BkLoad
  \/ BkKilled

Spec == Init /\ [][Next]_vars

(* The scheduler runs every runnable thread: an exec that is not asleep    *)
(* and a load go on.  Nothing forces a process to exec, to fork, to exit   *)
(* or to get a signal.                                                     *)
FairSpec ==
  /\ Spec
  /\ WF_vars(BkLoad)
  /\ \A t \in Tasks : WF_vars(ExecStep(t))

-----------------------------------------------------------------------------
(* Properties.                                                             *)

TypeOK ==
  /\ pc \in [Tasks -> TaskLabels]
  /\ prog \in [Tasks -> {"sw", "hw"}]
  /\ tinfo \in [Tasks -> Infos \cup {NULL}]
  /\ file \in [Tasks -> Files \cup {NULL}]
  /\ loaderr \in [Tasks -> Int]
  /\ try \in [Tasks -> {0, 1}]
  /\ execq \in Seq(Tasks \cup {NULL})
  /\ bpc \in BkLabels
  /\ item \in Tasks \cup {NULL}
  /\ binfo \in Infos \cup {NULL}
  /\ chip \in Nat
  /\ retval \in Int
  /\ live \subseteq Infos /\ listed \subseteq live /\ ready \subseteq live
  /\ count \in Int
  /\ active \in {0, 1}
  /\ hwtask \in Tasks \cup {NULL}
  /\ power \in BOOLEAN
  /\ design \in Infos \cup {NULL}
  /\ uaf \in BOOLEAN

(* The item of a task is queued, or bkexecd works on it.                   *)
Pending(t) == item = t \/ \E k \in DOMAIN execq : execq[k] = t

(* At most one borph_info has the region on its list, and while one has,   *)
(* the region's use count says "in use", so reserve_hwr refuses everybody  *)
(* else: this must survive every order of exec, signal, fork, failed load  *)
(* and exit that does not touch freed memory.                              *)
Exclusive ==
  /\ \A i, j \in listed : i = j
  /\ listed # {} => count = 1

(* A task whose program came with hardware has it until the task itself    *)
(* exits: its borph_info is there, complete and holds the region, and the  *)
(* FPGA is powered, active and carries the task's own design.  Loads that  *)
(* fail for other tasks leave all of this alone.                           *)
RunningKeepsFpga ==
  \A t \in Tasks : prog[t] = "hw" =>
    /\ tinfo[t] \in listed \cap ready
    /\ hwtask = t /\ active = 1
    /\ power /\ design = tinfo[t]

(* The region is reserved only while somebody will give it back: a task    *)
(* that holds it on the list of its borph_info, or bkexecd, on its way to  *)
(* the list.  Every failure path of borph_load_hw and every exit releases. *)
ReservedIsOwned ==
  count # -1 => \/ \E t \in Tasks : tinfo[t] \in listed
                \/ bpc = "strtab"

(* load_bof_binary: "hw should have been loaded by now".  A task that goes *)
(* on to the ELF image is no longer on bkexecd's hands, and has its        *)
(* hardware if its file has any.                                           *)
HwLoadedBeforeElf ==
  \A t \in Tasks : pc[t] = "readelf" =>
    /\ ~Pending(t)
    /\ file[t].numchip > 0 => tinfo[t] \in listed \cap ready

(* Neither bkexecd nor borph_exit_fpga touches a bprm, a task or a         *)
(* borph_info that is already freed.                                       *)
NoUseAfterFree == ~uaf

(* "Sleep till our fpga partner is done": every exec of a BOF file gets    *)
(* its answer, no wake_up_process being lost or left out.                  *)
ExecEnds ==
  \A t \in Tasks : (pc[t] \notin {"none", "user"}) ~> (pc[t] = "user")

(* What the processes see is a lease of the FPGA: FpgaLease.               *)
Lease == INSTANCE FpgaLease WITH
  owner <- hwtask,
  stage <- IF count = -1 THEN "free" ELSE IF active = 1 THEN "ready" ELSE "loading"

(* Exec, loads, exits and failures implement the lease: a grant only when  *)
(* free, no change of owner before the return, no return of anything but   *)
(* the owner's device, and no load that stays unfinished.                  *)
LeaseLive == Lease!LiveSpec

==============================================================================
