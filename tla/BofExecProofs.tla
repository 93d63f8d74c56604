---------------------------- MODULE BofExecProofs ----------------------------
(***************************************************************************)
(* Proofs about BofExec, for any set of tasks and BOF files.  Exclusion,   *)
(* bkexecd's view and the lease hold whatever the environment does         *)
(* (signals, forks, failing reads, a killed bkexecd).  The other theorems  *)
(* name the events that the code does not withstand, and allow the rest.   *)
(***************************************************************************)
EXTENDS BofExec, TLAPS

(* Between reserve_hwr and list_add, the region is counted but on nobody's *)
(* list.                                                                   *)
StrtabInv == bpc = "strtab" => listed = {} /\ count = 1

(* The inductive invariant behind Exclusive.                               *)
ExecInv == TypeOK /\ Exclusive /\ StrtabInv

USE BofExecAssumption

(* No process has hardware at first.                                       *)
LEMMA ExecInit == Init => ExecInv
<1>. SUFFICES ASSUME Init PROVE ExecInv
  OBVIOUS
<1>. USE DEF Init
<1>1. execq \in Seq(Tasks \cup {NULL})
  OBVIOUS
<1>2. power \in BOOLEAN /\ uaf \in BOOLEAN
  OBVIOUS
<1>3. TypeOK
  BY <1>1, <1>2 DEF TypeOK, TaskLabels, BkLabels
<1>4. Exclusive /\ StrtabInv
  BY DEF Exclusive, StrtabInv
<1>. QED
  BY <1>3, <1>4 DEF ExecInv

(* borph_exit_fpga keeps the types, and what Exclusive says of the lists   *)
(* and the count.                                                          *)
LEMMA ExitFpgaInv ==
  ASSUME ExecInv, NEW t \in Tasks, ExitFpga(t)
  PROVE  /\ tinfo' \in [Tasks -> Infos \cup {NULL}]
         /\ live' \subseteq Infos /\ listed' \subseteq live' /\ ready' \subseteq live'
         /\ count' \in Int /\ active' \in {0, 1}
         /\ hwtask' \in Tasks \cup {NULL}
         /\ power' \in BOOLEAN /\ design' \in Infos \cup {NULL}
         /\ uaf' \in BOOLEAN
         /\ Exclusive'
         /\ listed = {} => listed' = {} /\ count' = count
<1>. DEFINE i == tinfo[t]
<1>. USE DEF ExecInv, TypeOK, Exclusive
<1>1. CASE i = NULL
  BY <1>1 DEF ExitFpga, infoVars, hwVars
<1>2. CASE i # NULL
  <2>0. /\ uaf' = (i \notin live)
        /\ DropRegions(i)
        /\ live' = live \ {i} /\ listed' = listed \ {i} /\ ready' = ready \ {i}
        /\ tinfo' = [tinfo EXCEPT ![t] = NULL]
    BY <1>2, Zenon DEF ExitFpga
  <2>1. uaf' \in BOOLEAN
    BY <2>0, Zenon
  <2>2. CASE i \in listed
    <3>1. /\ active' = 0 /\ power' = FALSE /\ design' = NULL
          /\ ReleaseHwr
      BY <2>0, <2>2, Zenon DEF DropRegions
    <3>2. count = 1 /\ listed' = {}
      BY <2>0, <2>2
    <3>3. count' = -1 /\ hwtask' = NULL
      BY <3>1, <3>2 DEF ReleaseHwr
    <3>4. tinfo' \in [Tasks -> Infos \cup {NULL}] /\ power' \in BOOLEAN
      BY <2>0, <3>1
    <3>5. live' \subseteq Infos /\ ready' \subseteq live'
      BY <2>0
    <3>. QED
      BY <2>1, <2>2, <3>1, <3>2, <3>3, <3>4, <3>5
  <2>3. CASE i \notin listed
    <3>1. /\ count' = count /\ active' = active /\ hwtask' = hwtask
          /\ power' = power /\ design' = design
      BY <2>0, <2>3, Zenon DEF DropRegions, hwVars
    <3>2. listed' = listed
      BY <2>0, <2>3
    <3>. QED
      BY <2>0, <2>1, <3>1, <3>2
  <2>. QED
    BY <2>2, <2>3
<1>. QED
  BY <1>1, <1>2

(* The end of a load keeps the types.                                      *)
LEMMA FinishInv ==
  ASSUME ExecInv, item \in Tasks, NEW r \in Int, Finish(r)
  PROVE  /\ pc' \in [Tasks -> TaskLabels]
         /\ prog' = prog /\ file' = file /\ try' = try /\ execq' = execq
         /\ loaderr' \in [Tasks -> Int]
         /\ bpc' = "idle" /\ item' = NULL /\ binfo' = NULL
         /\ chip' = 0 /\ retval' = 0
BY DEF ExecInv, TypeOK, Finish, execVars, TaskLabels

(* A load that fails keeps the invariant.                                  *)
LEMMA FailInv ==
  ASSUME ExecInv, item \in Tasks, NEW r \in Int, Fail(r)
  PROVE  ExecInv'
<1>1. ExitFpga(item) /\ Finish(r)
  BY DEF Fail
<1>2. TypeOK'
  BY <1>1, ExitFpgaInv, FinishInv DEF ExecInv, TypeOK, BkLabels
<1>3. Exclusive'
  BY <1>1, ExitFpgaInv
<1>4. StrtabInv'
  BY <1>1, FinishInv DEF StrtabInv
<1>. QED
  BY <1>2, <1>3, <1>4 DEF ExecInv

(* Queueing an item, or not, keeps the types.                              *)
LEMMA EnterInv ==
  ASSUME ExecInv, NEW t \in Tasks, NEW f, Enter(t, f)
  PROVE  /\ pc' \in [Tasks -> TaskLabels]
         /\ execq' \in Seq(Tasks \cup {NULL})
<1>. USE DEF ExecInv, TypeOK, TaskLabels
<1>1. CASE f.numchip > 0
  <2>1. execq' = Append(execq, t)
    BY <1>1 DEF Enter
  <2>2. execq' \in Seq(Tasks \cup {NULL})
    BY <2>1
  <2>3. pc' = [pc EXCEPT ![t] = "queued"] \/ pc' = [pc EXCEPT ![t] = "asleep"]
    BY <1>1 DEF Enter
  <2>. QED
    BY <2>2, <2>3
<1>2. CASE ~(f.numchip > 0)
  BY <1>2 DEF Enter
<1>. QED
  BY <1>1, <1>2

(* So does the end of an exec.                                             *)
LEMMA EndExecInv ==
  ASSUME ExecInv, NEW t \in Tasks, EndExec(t)
  PROVE  /\ pc' \in [Tasks -> TaskLabels]
         /\ file' \in [Tasks -> Files \cup {NULL}]
         /\ execq' \in Seq(Tasks \cup {NULL})
         /\ item' \in Tasks \cup {NULL}
         /\ try' \in [Tasks -> {0, 1}]
         /\ loaderr' \in [Tasks -> Int]
<1>. USE DEF ExecInv, TypeOK
<1>1. execq' \in Seq(Tasks \cup {NULL})
  <2>1. execq' = [k \in DOMAIN execq |-> IF execq[k] = t THEN NULL ELSE execq[k]]
    BY DEF EndExec
  <2>2. /\ Len(execq) \in Nat /\ DOMAIN execq = 1 .. Len(execq)
        /\ \A k \in DOMAIN execq : execq[k] \in Tasks \cup {NULL}
    OBVIOUS
  <2>. QED
    BY <2>1, <2>2
<1>2. pc' \in [Tasks -> TaskLabels]
  BY DEF EndExec, TaskLabels
<1>. QED
  BY <1>1, <1>2 DEF EndExec

(* And so does an exec that fails.                                         *)
LEMMA ExecFailsInv ==
  ASSUME ExecInv, NEW t \in Tasks, NEW e \in Int, ExecFails(t, e)
  PROVE  /\ pc' \in [Tasks -> TaskLabels]
         /\ file' \in [Tasks -> Files \cup {NULL}]
         /\ execq' \in Seq(Tasks \cup {NULL})
         /\ item' \in Tasks \cup {NULL}
         /\ try' \in [Tasks -> {0, 1}]
         /\ loaderr' \in [Tasks -> Int]
<1>1. CASE e = -ENOEXEC /\ try[t] = 0
  BY <1>1, EnterInv DEF ExecFails, ExecInv, TypeOK
<1>2. CASE ~(e = -ENOEXEC /\ try[t] = 0)
  BY <1>2, EndExecInv DEF ExecFails
<1>. QED
  BY <1>1, <1>2

(* Every step keeps the invariant.                                         *)
LEMMA ExecStepInv == ExecInv /\ [Next]_vars => ExecInv'
<1>. SUFFICES ASSUME ExecInv, [Next]_vars PROVE ExecInv'
  OBVIOUS
<1>. USE DEF ExecInv
<1>. DEFINE Rest == UNCHANGED <<infoVars, hwVars, uaf>>
(* A step that leaves lists, count and device alone needs only types.      *)
<1>0. ASSUME Rest, bpc' = "strtab" => bpc = "strtab",
             pc' \in [Tasks -> TaskLabels], prog' \in [Tasks -> {"sw", "hw"}],
             tinfo' \in [Tasks -> Infos \cup {NULL}],
             file' \in [Tasks -> Files \cup {NULL}],
             loaderr' \in [Tasks -> Int], try' \in [Tasks -> {0, 1}],
             execq' \in Seq(Tasks \cup {NULL}),
             bpc' \in BkLabels, item' \in Tasks \cup {NULL},
             binfo' \in Infos \cup {NULL}, chip' \in Nat, retval' \in Int
      PROVE  ExecInv'
  <2>1. /\ live' = live /\ listed' = listed /\ ready' = ready
        /\ count' = count /\ active' = active /\ hwtask' = hwtask
        /\ power' = power /\ design' = design /\ uaf' = uaf
    BY <1>0, Zenon DEF infoVars, hwVars
  <2>2. TypeOK'
    BY <1>0, <2>1 DEF TypeOK
  <2>3. Exclusive' /\ StrtabInv'
    BY <1>0, <2>1 DEF Exclusive, StrtabInv
  <2>. QED
    BY <2>2, <2>3
<1>1. ASSUME NEW t \in Tasks, Spawn(t) PROVE ExecInv'
  BY <1>1, <1>0 DEF Spawn, At, execVars, bkVars, bkRest, TypeOK, TaskLabels
<1>2. ASSUME NEW t \in Tasks, NEW c \in Tasks, Fork(t, c) PROVE ExecInv'
  BY <1>2, <1>0 DEF Fork, At, execVars, bkVars, bkRest, TypeOK, TaskLabels
<1>3. ASSUME NEW t \in Tasks, Exit(t) PROVE ExecInv'
  <2>1. TypeOK'
    BY <1>3, ExitFpgaInv DEF Exit, TypeOK, TaskLabels, bkVars, bkRest
  <2>2. Exclusive' /\ StrtabInv'
    BY <1>3, ExitFpgaInv DEF Exit, StrtabInv, bkVars, bkRest
  <2>. QED
    BY <2>1, <2>2
<1>4. ASSUME NEW t \in Tasks, NEW f \in Files, LoadBof(t, f) PROVE ExecInv'
  <2>1. f.err \in Int
    BY DEF BofFile
  <2>2. Enter(t, f)
    BY <1>4 DEF LoadBof
  <2>3. loaderr' \in [Tasks -> Int]
    BY <1>4, <2>1 DEF LoadBof, TypeOK
  <2>. QED
    BY <1>4, <2>2, <2>3, EnterInv, <1>0 DEF LoadBof, bkVars, bkRest, TypeOK
<1>5. ASSUME NEW t \in Tasks, GoToSleep(t) PROVE ExecInv'
  BY <1>5, <1>0 DEF GoToSleep, execVars, bkVars, bkRest, TypeOK, TaskLabels
<1>6. ASSUME NEW t \in Tasks, Signal(t) PROVE ExecInv'
  BY <1>6, <1>0 DEF Signal, execVars, bkVars, bkRest, TypeOK, TaskLabels
<1>7. ASSUME NEW t \in Tasks, Resume(t) PROVE ExecInv'
  <2>1. CASE loaderr[t] = 0
    BY <1>7, <2>1, <1>0 DEF Resume, bkRest, TypeOK, TaskLabels
  <2>2. CASE loaderr[t] # 0
    <3>1. ExecFails(t, loaderr[t]) /\ loaderr[t] \in Int
      BY <1>7, <2>2 DEF Resume, TypeOK
    <3>. QED
      BY <1>7, <3>1, ExecFailsInv, <1>0 DEF Resume, bkRest, TypeOK
  <2>. QED
    BY <2>1, <2>2
<1>8. ASSUME NEW t \in Tasks, ReadElf(t) PROVE ExecInv'
  <2>1. EndExec(t)
    BY <1>8 DEF ReadElf
  <2>2. prog' \in [Tasks -> {"sw", "hw"}]
    BY <1>8 DEF ReadElf, TypeOK
  <2>. QED
    BY <1>8, <2>1, <2>2, EndExecInv, <1>0 DEF ReadElf, bkRest, TypeOK
<1>9. ASSUME NEW t \in Tasks, ReadElfFails(t) PROVE ExecInv'
  <2>1. ExecFails(t, -ENOEXEC) /\ -ENOEXEC \in Int
    BY <1>9 DEF ReadElfFails, ENOEXEC
  <2>. QED
    BY <1>9, <2>1, ExecFailsInv, <1>0 DEF ReadElfFails, bkRest, TypeOK
<1>10. CASE Dequeue
  <2>1. Head(execq) \in Tasks \cup {NULL} /\ Tail(execq) \in Seq(Tasks \cup {NULL})
    BY <1>10 DEF Dequeue, TypeOK
  <2>. QED
    BY <1>10, <2>1, <1>0 DEF Dequeue, taskVars, TypeOK, BkLabels
<1>11. CASE BkKilled
  BY <1>11, <1>0 DEF BkKilled, taskVars, TypeOK, BkLabels
<1>i. ASSUME NEW l, BkAt(l) PROVE item \in Tasks
  BY <1>i DEF BkAt, ItemValid, TypeOK
<1>12. CASE AllocInfo
  <2>1. item \in Tasks
    BY <1>12, <1>i DEF AllocInfo
  <2>2. PICK i \in Infos : /\ live' = live \cup {i}
                           /\ tinfo' = [tinfo EXCEPT ![item] = i]
                           /\ binfo' = i
    BY <1>12 DEF AllocInfo
  <2>3. TypeOK'
    BY <1>12, <2>1, <2>2 DEF AllocInfo, TypeOK, execVars, hwVars, BkLabels, EIO
  <2>4. Exclusive' /\ StrtabInv'
    BY <1>12 DEF AllocInfo, Exclusive, StrtabInv, hwVars
  <2>. QED
    BY <2>3, <2>4
<1>13. CASE LoadDone
  <2>1. item \in Tasks /\ binfo \in live /\ Finish(0)
    BY <1>13, <1>i DEF LoadDone, BkAt, ItemValid
  <2>2. TypeOK'
    BY <1>13, <2>1, FinishInv DEF LoadDone, TypeOK, hwVars, BkLabels
  <2>3. Exclusive' /\ StrtabInv'
    BY <1>13, <2>1, FinishInv DEF LoadDone, Exclusive, StrtabInv, hwVars
  <2>. QED
    BY <2>2, <2>3
<1>14. CASE InvalidBof
  BY <1>14, <1>i, FailInv DEF InvalidBof, TypeOK
<1>15. CASE NextRegion
  BY <1>15, <1>0 DEF NextRegion, taskVars, TypeOK, BkLabels
<1>16. CASE ReadHdrFails
  BY <1>16, <1>i, FailInv DEF ReadHdrFails, EIO
<1>17. CASE ReserveFails
  BY <1>17, <1>i, FailInv DEF ReserveFails, EBUSY
<1>18. CASE Reserve
  <2>1. item \in Tasks /\ count = -1
    BY <1>18, <1>i DEF Reserve, CanReserve
  <2>2. TypeOK'
    BY <1>18, <2>1 DEF Reserve, TypeOK, taskVars, infoVars, BkLabels
  <2>3. listed = {}
    BY <2>1 DEF Exclusive
  <2>4. Exclusive' /\ StrtabInv'
    BY <1>18, <2>3 DEF Reserve, Exclusive, StrtabInv, infoVars
  <2>. QED
    BY <2>2, <2>4
<1>19. CASE StrtabBad
  BY <1>19, <1>i, FailInv DEF StrtabBad, ENOEXEC
<1>20. CASE ReadStrtabFails
  BY <1>20, <1>i, FailInv DEF ReadStrtabFails, EIO
<1>21. CASE ListRegion
  <2>1. binfo \in live /\ listed = {} /\ count = 1
    BY <1>21 DEF ListRegion, BkAt, ItemValid, StrtabInv
  <2>2. TypeOK'
    BY <1>21, <2>1 DEF ListRegion, TypeOK, taskVars, hwVars, BkLabels
  <2>3. Exclusive' /\ StrtabInv'
    BY <1>21, <2>1 DEF ListRegion, Exclusive, StrtabInv, hwVars
  <2>. QED
    BY <2>2, <2>3
<1>22. CASE ReadIoregFails
  BY <1>22, <1>i, FailInv DEF ReadIoregFails, EIO
<1>23. CASE Configure
  <2>1. TypeOK'
    BY <1>23 DEF Configure, TypeOK, taskVars, infoVars, BkLabels
  <2>2. Exclusive' /\ StrtabInv'
    BY <1>23 DEF Configure, Exclusive, StrtabInv, infoVars
  <2>. QED
    BY <2>1, <2>2
<1>24. CASE ConfigureFails
  BY <1>24, <1>i, FailInv DEF ConfigureFails, EIO
<1>25. ASSUME NEW r \in Int, Activate(r), design' \in Infos \cup {NULL}
       PROVE  ExecInv'
  <2>1. TypeOK'
    BY <1>25 DEF Activate, TypeOK, taskVars, infoVars, BkLabels
  <2>2. Exclusive' /\ StrtabInv'
    BY <1>25 DEF Activate, Exclusive, StrtabInv, infoVars
  <2>. QED
    BY <2>1, <2>2
<1>26. CASE Configured
  BY <1>26, <1>25, SMTT(30) DEF Configured, TypeOK
<1>27. CASE ConfigureFailsPositive
  BY <1>27, <1>25 DEF ConfigureFailsPositive, TypeOK
<1>28. CASE BkUsesFreed
  <2>1. TypeOK'
    BY <1>28 DEF BkUsesFreed, TypeOK, taskVars, bkVars, bkRest, infoVars, hwVars
  <2>2. Exclusive' /\ StrtabInv'
    BY <1>28 DEF BkUsesFreed, Exclusive, StrtabInv, bkVars, bkRest, infoVars, hwVars
  <2>. QED
    BY <2>1, <2>2
<1>29. CASE UNCHANGED vars
  BY <1>29, <1>0 DEF vars, taskVars, bkVars, bkRest, TypeOK
<1>30. ASSUME NEW t \in Tasks, TaskStep(t) PROVE ExecInv'
  BY <1>1, <1>2, <1>3, <1>4, <1>5, <1>6, <1>7, <1>8, <1>9, <1>30
  DEF TaskStep, ExecStep
<1>31. CASE BkLoad
  BY <1>10, <1>12, <1>13, <1>14, <1>15, <1>16, <1>17, <1>18, <1>19, <1>20,
     <1>21, <1>22, <1>23, <1>24, <1>26, <1>27, <1>28, <1>31
  DEF BkLoad
<1>. QED
  BY <1>11, <1>29, <1>30, <1>31 DEF Next

(* Types, lists and count are right in every reachable state.              *)
THEOREM ExecCorrect == Spec => []ExecInv
BY ExecInit, ExecStepInv, PTL DEF Spec

(* Two borph_infos never both have the region, and the count of a region   *)
(* on a list is 1: for every set of tasks and BOF files, whatever signals, *)
(* forks, failed reads and failed configurations come, up to the first use *)
(* of freed memory.                                                        *)
THEOREM ExclusiveCorrect == Spec => []Exclusive
<1>1. ExecInv => Exclusive
  BY DEF ExecInv
<1>. QED
  BY <1>1, ExecCorrect, PTL

(* All pointers, lists and counters of BofExec keep their types.           *)
THEOREM TypeCorrect == Spec => []TypeOK
<1>1. ExecInv => TypeOK
  BY DEF ExecInv
<1>. QED
  BY <1>1, ExecCorrect, PTL

-----------------------------------------------------------------------------
(* What steps do to the variables, in the form the later proofs need.      *)

(* borph_exit_fpga: the borph_info goes, and the region with it if it is   *)
(* on the list.                                                            *)
LEMMA ExitFpgaEffect ==
  ASSUME ExecInv, NEW t \in Tasks, ExitFpga(t)
  PROVE  /\ tinfo' = [tinfo EXCEPT ![t] = NULL]
         /\ live' = live \ {tinfo[t]}
         /\ listed' = listed \ {tinfo[t]}
         /\ ready' = ready \ {tinfo[t]}
         /\ tinfo[t] = NULL => uaf' = uaf
         /\ tinfo[t] \in live => uaf' = FALSE
         /\ tinfo[t] \in listed =>
              /\ count = 1 /\ count' = -1 /\ hwtask' = NULL
              /\ active' = 0 /\ power' = FALSE /\ design' = NULL
         /\ tinfo[t] \notin listed =>
              /\ count' = count /\ hwtask' = hwtask /\ active' = active
              /\ power' = power /\ design' = design
<1>. USE DEF ExecInv, TypeOK, Exclusive
<1>1. CASE tinfo[t] = NULL
  <2>1. /\ tinfo' = tinfo /\ live' = live /\ listed' = listed /\ ready' = ready
        /\ count' = count /\ active' = active /\ hwtask' = hwtask
        /\ power' = power /\ design' = design /\ uaf' = uaf
    BY <1>1, Zenon DEF ExitFpga, infoVars, hwVars
  <2>2. tinfo[t] \notin live
    BY <1>1
  <2>3. tinfo = [tinfo EXCEPT ![t] = NULL]
    BY <1>1
  <2>4. live \ {tinfo[t]} = live /\ listed \ {tinfo[t]} = listed /\ ready \ {tinfo[t]} = ready
    BY <2>2
  <2>. QED
    BY <2>1, <2>2, <2>3, <2>4
<1>2. CASE tinfo[t] # NULL
  <2>1. /\ uaf' = (tinfo[t] \notin live)
        /\ DropRegions(tinfo[t])
        /\ live' = live \ {tinfo[t]}
        /\ listed' = listed \ {tinfo[t]}
        /\ ready' = ready \ {tinfo[t]}
        /\ tinfo' = [tinfo EXCEPT ![t] = NULL]
    BY <1>2, Zenon DEF ExitFpga
  <2>2. tinfo[t] \in live => uaf' = FALSE
    BY <2>1, Zenon
  <2>3. CASE tinfo[t] \in listed
    <3>1. count = 1
      BY <2>3
    <3>2. active' = 0 /\ power' = FALSE /\ design' = NULL /\ ReleaseHwr
      BY <2>1, <2>3, Zenon DEF DropRegions
    <3>3. count' = -1 /\ hwtask' = NULL
      BY <3>1, <3>2 DEF ReleaseHwr
    <3>. QED
      BY <1>2, <2>1, <2>2, <2>3, <3>1, <3>2, <3>3, Zenon
  <2>4. CASE tinfo[t] \notin listed
    <3>1. /\ count' = count /\ active' = active /\ hwtask' = hwtask
          /\ power' = power /\ design' = design
      BY <2>1, <2>4, Zenon DEF DropRegions, hwVars
    <3>. QED
      BY <1>2, <2>1, <2>2, <2>4, <3>1, Zenon
  <2>. QED
    BY <2>3, <2>4
<1>. QED
  BY <1>1, <1>2

(* The end of a load.                                                      *)
LEMMA FinishEffect ==
  ASSUME ExecInv, item \in Tasks, NEW r \in Int, Finish(r)
  PROVE  /\ loaderr' = [loaderr EXCEPT ![item] = r]
         /\ pc' = [pc EXCEPT ![item] = IF pc[item] = "asleep" THEN "woken" ELSE pc[item]]
         /\ prog' = prog /\ file' = file /\ try' = try /\ execq' = execq
         /\ bpc' = "idle" /\ item' = NULL /\ binfo' = NULL
         /\ chip' = 0 /\ retval' = 0
         /\ \A u \in Tasks : Pending(u)' => Pending(u)
BY DEF ExecInv, TypeOK, Finish, execVars, Pending

(* The end of an exec: no item of the task is left.                        *)
LEMMA EndExecEffect ==
  ASSUME ExecInv, NEW t \in Tasks, EndExec(t)
  PROVE  /\ pc' = [pc EXCEPT ![t] = "user"]
         /\ file' = [file EXCEPT ![t] = NULL]
         /\ try' = [try EXCEPT ![t] = 0]
         /\ loaderr' = [loaderr EXCEPT ![t] = 0]
         /\ item' = IF item = t THEN NULL ELSE item
         /\ \A u \in Tasks : Pending(u)' <=> Pending(u) /\ u # t
<1>1. ASSUME NEW u \in Tasks PROVE Pending(u)' <=> Pending(u) /\ u # t
  <2>1. execq' = [k \in DOMAIN execq |-> IF execq[k] = t THEN NULL ELSE execq[k]]
    BY DEF EndExec
  <2>2. DOMAIN execq' = DOMAIN execq
    BY <2>1
  <2>3. \A k \in DOMAIN execq : execq'[k] = u <=> execq[k] = u /\ u # t
    BY <2>1
  <2>. QED
    BY <2>2, <2>3 DEF EndExec, Pending
<1>. QED
  BY <1>1 DEF EndExec

(* load_bof_binary up to its sleep: an item of the task is queued if the   *)
(* file has hardware.                                                      *)
LEMMA EnterEffect ==
  ASSUME ExecInv, NEW t \in Tasks, NEW f \in Files, Enter(t, f), item' = item
  PROVE  /\ f.numchip > 0 =>
              pc' \in {[pc EXCEPT ![t] = "queued"], [pc EXCEPT ![t] = "asleep"]}
         /\ ~(f.numchip > 0) => pc' = [pc EXCEPT ![t] = "woken"]
         /\ \A u \in Tasks : Pending(u)' <=> Pending(u) \/ (u = t /\ f.numchip > 0)
<1>1. CASE f.numchip > 0
  <2>1. execq' = Append(execq, t)
    BY <1>1 DEF Enter
  <2>2. execq \in Seq(Tasks \cup {NULL})
    BY DEF ExecInv, TypeOK
  <2>3. /\ DOMAIN execq' = 1 .. (Len(execq) + 1) /\ DOMAIN execq = 1 .. Len(execq)
        /\ execq'[Len(execq) + 1] = t
        /\ \A k \in 1 .. Len(execq) : execq'[k] = execq[k]
        /\ Len(execq) \in Nat
    BY <2>1, <2>2
  <2>4. \A u \in Tasks : Pending(u)' <=> Pending(u) \/ u = t
    <3>. TAKE u \in Tasks
    <3>1. (\E k \in DOMAIN execq' : execq'[k] = u) <=>
             (\E k \in DOMAIN execq : execq[k] = u) \/ u = t
      BY <2>3
    <3>. QED
      BY <3>1 DEF Pending
  <2>5. pc' \in {[pc EXCEPT ![t] = "queued"], [pc EXCEPT ![t] = "asleep"]}
    BY <1>1 DEF Enter
  <2>. QED
    BY <1>1, <2>4, <2>5
<1>2. CASE ~(f.numchip > 0)
  BY <1>2 DEF Enter, Pending
<1>. QED
  BY <1>1, <1>2

(* An exec that fails goes in again or ends.                               *)
LEMMA ExecFailsEffect ==
  ASSUME ExecInv, NEW t \in Tasks, file[t] \in Files, NEW e \in Int, ExecFails(t, e)
  PROVE  \/ /\ file' = file /\ loaderr' = loaderr /\ item' = item
            /\ e = -ENOEXEC
            /\ Enter(t, file[t])
         \/ EndExec(t)
BY DEF ExecFails

(* A dequeued item was queued.                                             *)
LEMMA DequeueEffect ==
  ASSUME ExecInv, Dequeue
  PROVE  /\ item' = execq[1] /\ 1 \in DOMAIN execq
         /\ \A u \in Tasks : Pending(u)' => Pending(u)
<1>1. /\ execq \in Seq(Tasks \cup {NULL}) /\ execq # <<>>
      /\ item' = Head(execq) /\ execq' = Tail(execq)
  BY DEF ExecInv, TypeOK, Dequeue
<1>2. /\ item' = execq[1] /\ 1 \in DOMAIN execq
      /\ \A k \in DOMAIN execq' : k + 1 \in DOMAIN execq /\ execq'[k] = execq[k + 1]
  BY <1>1
<1>. QED
  BY <1>2 DEF Pending

-----------------------------------------------------------------------------
(* bkexecd and the task it works for, whatever the environment does.       *)

(* bkexecd has a borph_info in hand and the exec it is for is not over.    *)
Loading == item # NULL /\ bpc \notin {"idle", "dead", "alloc"}

(* The task of an item is in the middle of its exec.                       *)
BusyInv == \A t \in Tasks : Pending(t) => pc[t] \notin {"none", "user"}

(* An exec has a file, and bkexecd stays within its hwrhdr chain.          *)
FileInv ==
  /\ \A t \in Tasks : pc[t] \notin {"none", "user"} => file[t] \in Files
  /\ Loading => /\ chip <= Len(file[item].hwr)
                /\ bpc # "head" => chip < Len(file[item].hwr)

(* The borph_info in hand is allocated, and its only pointer is that of    *)
(* the task: a task in exec neither forks nor exits.                       *)
InfoInv == Loading =>
  /\ binfo \in live
  /\ \A t \in Tasks : (tinfo[t] = binfo) <=> (t = item)

(* From list_add on, the region is on the list of the borph_info in hand.  *)
ListInv ==
  Loading /\ (\/ bpc \in {"ioreg", "config"}
              \/ bpc \in {"head", "readhdr"} /\ chip > 0)
    => binfo \in listed

IdleInv == bpc \in {"idle", "dead"} => item = NULL

(* A free region belongs to nobody and is not active.                      *)
FreeInv ==
  /\ count \in {-1, 1}
  /\ count = -1 => hwtask = NULL /\ active = 0

BkInv == BusyInv /\ FileInv /\ InfoInv /\ ListInv /\ IdleInv /\ FreeInv

LEMMA BkInit == Init => BkInv
<1>. SUFFICES ASSUME Init PROVE BkInv
  OBVIOUS
<1>. USE DEF Init
<1>1. BusyInv
  BY DEF BusyInv, Pending
<1>2. FileInv /\ InfoInv /\ ListInv /\ IdleInv /\ FreeInv
  BY DEF FileInv, InfoInv, ListInv, IdleInv, FreeInv, Loading
<1>. QED
  BY <1>1, <1>2 DEF BkInv

(* A load that fails: nothing is loading after it.                         *)
LEMMA FailBk ==
  ASSUME ExecInv, BkInv, item \in Tasks, NEW r \in Int, Fail(r)
  PROVE  BkInv'
<1>. USE DEF BkInv
<1>1. ExitFpga(item) /\ Finish(r)
  BY DEF Fail
<1>2. BusyInv'
  BY <1>1, FinishEffect DEF BusyInv, ExecInv, TypeOK
<1>3. FileInv' /\ InfoInv' /\ ListInv' /\ IdleInv'
  BY <1>1, FinishEffect DEF FileInv, InfoInv, ListInv, IdleInv, Loading, ExecInv, TypeOK
<1>4. FreeInv'
  BY <1>1, ExitFpgaEffect DEF FreeInv
<1>. QED
  BY <1>2, <1>3, <1>4

(* A step of a task that leaves the regions and bkexecd alone.             *)
LEMMA TaskStepBk ==
  ASSUME ExecInv, BkInv, NEW t \in Tasks,
         UNCHANGED <<bkRest, infoVars, hwVars>>, BusyInv',
         \A u \in Tasks : u # t => pc'[u] = pc[u] /\ file'[u] = file[u]
                                   /\ tinfo'[u] = tinfo[u],
         pc'[t] \notin {"none", "user"} => file'[t] \in Files,
         \/ item' = NULL
         \/ /\ item' = item
            /\ item = t => file'[t] = file[t] /\ tinfo'[t] = tinfo[t]
            /\ Loading /\ item # t => tinfo'[t] # binfo,
         IdleInv'
  PROVE  BkInv'
<1>. USE DEF BkInv, Loading
<1>0. /\ bpc' = bpc /\ binfo' = binfo /\ chip' = chip /\ retval' = retval
      /\ live' = live /\ listed' = listed /\ ready' = ready
      /\ count' = count /\ active' = active /\ hwtask' = hwtask
  BY DEF bkRest, infoVars, hwVars
<1>1. item \in Tasks \cup {NULL} /\ NULL \notin Tasks
  BY DEF ExecInv, TypeOK
<1>2. FileInv'
  BY <1>0, <1>1 DEF FileInv
<1>3. InfoInv'
  BY <1>0, <1>1 DEF InfoInv
<1>4. ListInv'
  BY <1>0, <1>1 DEF ListInv
<1>5. FreeInv'
  BY <1>0 DEF FreeInv
<1>. QED
  BY <1>2, <1>3, <1>4, <1>5

(* An exec that ends or fails.                                             *)
LEMMA EndExecBk ==
  ASSUME ExecInv, BkInv, NEW t \in Tasks, EndExec(t),
         UNCHANGED <<tinfo, bkRest, infoVars, hwVars>>
  PROVE  BkInv'
<1>1. BusyInv' /\ IdleInv'
  BY EndExecEffect DEF BkInv, BusyInv, IdleInv, bkRest, ExecInv, TypeOK
<1>2. /\ \A u \in Tasks : u # t => pc'[u] = pc[u] /\ file'[u] = file[u]
      /\ pc'[t] = "user"
      /\ item' = NULL \/ (item' = item /\ item # t)
  BY EndExecEffect DEF ExecInv, TypeOK
<1>3. Loading /\ item # t => tinfo[t] # binfo
  BY DEF BkInv, InfoInv
<1>. QED
  BY <1>1, <1>2, <1>3, TaskStepBk

LEMMA ExecFailsBk ==
  ASSUME ExecInv, BkInv, NEW t \in Tasks, pc[t] \notin {"none", "user"},
         NEW e \in Int, ExecFails(t, e), UNCHANGED <<tinfo, bkRest, infoVars, hwVars>>
  PROVE  BkInv'
<1>1. file[t] \in Files
  BY DEF BkInv, FileInv
<1>2. CASE EndExec(t)
  BY <1>2, EndExecBk
<1>3. CASE /\ file' = file /\ loaderr' = loaderr /\ item' = item
           /\ Enter(t, file[t])
  <2>2. /\ \A u \in Tasks : u # t => pc'[u] = pc[u]
        /\ pc'[t] \notin {"none", "user"}
    BY <1>1, <1>3, EnterEffect DEF ExecInv, TypeOK
  <2>0. \A u \in Tasks : Pending(u)' => Pending(u) \/ u = t
    BY <1>1, <1>3, EnterEffect
  <2>1. BusyInv' /\ IdleInv'
    BY <1>3, <2>0, <2>2 DEF BkInv, BusyInv, IdleInv, bkRest
  <2>3. Loading /\ item # t => tinfo'[t] # binfo
    BY DEF BkInv, InfoInv
  <2>. QED
    BY <1>1, <1>3, <2>1, <2>2, <2>3, TaskStepBk
<1>. QED
  BY <1>1, <1>2, <1>3, ExecFailsEffect

(* A step of bkexecd that does not touch the tasks.                        *)
LEMMA LoadStepBk ==
  ASSUME ExecInv, BkInv, Loading, UNCHANGED <<taskVars, execq, item, binfo, live>>,
         listed \subseteq listed', bpc' \in BkLabels \ {"idle", "dead", "alloc"},
         chip' <= Len(file[item].hwr), bpc' # "head" => chip' < Len(file[item].hwr),
         bpc' \in {"ioreg", "config"} => binfo \in listed',
         bpc' \in {"head", "readhdr"} /\ chip' > 0 => binfo \in listed',
         FreeInv'
  PROVE  BkInv'
<1>. USE DEF BkInv, Loading, taskVars
<1>1. BusyInv'
  BY DEF BusyInv, Pending
<1>2. FileInv'
  BY DEF FileInv
<1>3. InfoInv'
  BY DEF InfoInv
<1>4. ListInv' /\ IdleInv'
  BY DEF ListInv, IdleInv
<1>. QED
  BY <1>1, <1>2, <1>3, <1>4

LEMMA BkStepInv == ExecInv /\ BkInv /\ [Next]_vars => BkInv'
<1>. SUFFICES ASSUME ExecInv, BkInv, [Next]_vars PROVE BkInv'
  OBVIOUS
<1>t. /\ pc \in [Tasks -> TaskLabels] /\ file \in [Tasks -> Files \cup {NULL}]
      /\ tinfo \in [Tasks -> Infos \cup {NULL}] /\ item \in Tasks \cup {NULL}
      /\ loaderr \in [Tasks -> Int] /\ chip \in Nat /\ retval \in Int
      /\ NULL \notin Tasks /\ NULL \notin Infos
  BY DEF ExecInv, TypeOK
<1>p. ASSUME NEW t \in Tasks, UNCHANGED <<execq, item, bpc>>, file' = file,
             tinfo' = tinfo, UNCHANGED <<bkVars, infoVars, hwVars>>,
             \A u \in Tasks : u # t => pc'[u] = pc[u],
             pc'[t] \notin {"none", "user"} => pc[t] \notin {"none", "user"},
             pc[t] \notin {"none", "user"} => pc'[t] \notin {"none", "user"}
      PROVE  BkInv'
  <2>1. BusyInv' /\ IdleInv'
    BY <1>p DEF BkInv, BusyInv, IdleInv, Pending
  <2>2. Loading /\ item # t => tinfo[t] # binfo
    BY DEF BkInv, InfoInv
  <2>3. pc'[t] \notin {"none", "user"} => file'[t] \in Files
    BY <1>p DEF BkInv, FileInv
  <2>. QED
    BY <1>p, <2>1, <2>2, <2>3, TaskStepBk DEF bkVars
<1>1. ASSUME NEW t \in Tasks, Spawn(t) PROVE BkInv'
  BY <1>1, <1>t, <1>p DEF Spawn, At, execVars, bkVars, bkRest
<1>2. ASSUME NEW t \in Tasks, NEW c \in Tasks, Fork(t, c) PROVE BkInv'
  <2>1. /\ pc[t] = "user" /\ pc[c] = "none"
        /\ pc' = [pc EXCEPT ![c] = "user"] /\ tinfo' = [tinfo EXCEPT ![c] = tinfo[t]]
        /\ file' = file /\ execq' = execq /\ item' = item /\ bpc' = bpc
        /\ UNCHANGED <<bkRest, infoVars, hwVars>>
    BY <1>2 DEF Fork, At, execVars, bkVars, bkRest
  <2>2. BusyInv' /\ IdleInv'
    BY <1>t, <2>1 DEF BkInv, BusyInv, IdleInv, Pending
  <2>3. item # c /\ item # t
    BY <2>1 DEF BkInv, BusyInv, Pending
  <2>4. Loading => tinfo'[c] # binfo
    BY <1>t, <2>1, <2>3 DEF BkInv, InfoInv
  <2>5. \A u \in Tasks : u # c => pc'[u] = pc[u] /\ tinfo'[u] = tinfo[u]
    BY <1>t, <2>1
  <2>6. pc'[c] = "user"
    BY <1>t, <2>1
  <2>. QED
    BY <2>1, <2>2, <2>3, <2>4, <2>5, <2>6, TaskStepBk
<1>3. ASSUME NEW t \in Tasks, Exit(t) PROVE BkInv'
  <2>1. /\ pc[t] = "user" /\ pc' = [pc EXCEPT ![t] = "none"]
        /\ file' = file /\ execq' = execq /\ item' = item /\ bpc' = bpc
        /\ binfo' = binfo /\ chip' = chip /\ ExitFpga(t)
    BY <1>3 DEF Exit, At, bkVars, bkRest
  <2>2. BusyInv' /\ IdleInv'
    BY <1>t, <2>1 DEF BkInv, BusyInv, IdleInv, Pending
  <2>3. item # t
    BY <2>1 DEF BkInv, BusyInv, Pending
  <2>4. FileInv'
    BY <1>t, <2>1 DEF BkInv, FileInv, Loading
  <2>5. Loading => tinfo[t] # binfo
    BY <2>3 DEF BkInv, InfoInv
  <2>6. Loading <=> Loading'
    BY <2>1 DEF Loading
  <2>e. /\ \A u \in Tasks : tinfo'[u] = IF u = t THEN NULL ELSE tinfo[u]
        /\ live' = live \ {tinfo[t]} /\ listed' = listed \ {tinfo[t]}
    <3>1. /\ tinfo' = [tinfo EXCEPT ![t] = NULL]
          /\ live' = live \ {tinfo[t]} /\ listed' = listed \ {tinfo[t]}
      BY <2>1, ExitFpgaEffect, Zenon
    <3>. QED
      BY <1>t, <3>1
  <2>7. InfoInv' /\ ListInv'
    <3>1. CASE Loading
      <4>1. binfo \in live /\ binfo \in Infos /\ binfo # NULL
        BY <1>t, <3>1 DEF BkInv, InfoInv, ExecInv, TypeOK
      <4>2. InfoInv'
        BY <1>t, <2>1, <2>3, <2>5, <2>6, <2>e, <3>1, <4>1 DEF BkInv, InfoInv
      <4>3. ListInv'
        BY <2>1, <2>5, <2>6, <2>e, <3>1 DEF BkInv, ListInv
      <4>. QED
        BY <4>2, <4>3
    <3>2. CASE ~Loading
      BY <2>6, <3>2 DEF InfoInv, ListInv
    <3>. QED
      BY <3>1, <3>2
  <2>8. FreeInv'
    BY <2>1, ExitFpgaEffect DEF BkInv, FreeInv
  <2>. QED
    BY <2>2, <2>4, <2>7, <2>8 DEF BkInv
<1>4. ASSUME NEW t \in Tasks, NEW f \in Files, LoadBof(t, f) PROVE BkInv'
  <2>1. /\ pc[t] = "user" /\ Enter(t, f) /\ file' = [file EXCEPT ![t] = f]
        /\ tinfo' = tinfo /\ item' = item /\ bpc' = bpc
        /\ UNCHANGED <<bkRest, infoVars, hwVars>>
    BY <1>4 DEF LoadBof, At, bkVars, bkRest
  <2>2. /\ \A u \in Tasks : u # t => pc'[u] = pc[u] /\ file'[u] = file[u]
        /\ pc'[t] \notin {"none", "user"} /\ file'[t] = f
    BY <1>t, <2>1, EnterEffect
  <2>3. \A u \in Tasks : Pending(u)' => Pending(u) \/ u = t
    BY <2>1, EnterEffect
  <2>4. BusyInv' /\ IdleInv'
    BY <2>1, <2>2, <2>3 DEF BkInv, BusyInv, IdleInv
  <2>5. item # t
    BY <2>1 DEF BkInv, BusyInv, Pending
  <2>6. Loading => tinfo[t] # binfo
    BY <2>5 DEF BkInv, InfoInv
  <2>. QED
    BY <2>1, <2>2, <2>4, <2>5, <2>6, TaskStepBk
<1>5. ASSUME NEW t \in Tasks, GoToSleep(t) PROVE BkInv'
  BY <1>5, <1>t, <1>p DEF GoToSleep, At, execVars, bkVars, bkRest
<1>6. ASSUME NEW t \in Tasks, Signal(t) PROVE BkInv'
  BY <1>6, <1>t, <1>p DEF Signal, At, execVars, bkVars, bkRest
<1>7. ASSUME NEW t \in Tasks, Resume(t) PROVE BkInv'
  <2>1. CASE loaderr[t] = 0
    BY <1>7, <2>1, <1>t, <1>p DEF Resume, At, bkRest, bkVars
  <2>2. CASE loaderr[t] # 0
    <3>1. /\ ExecFails(t, loaderr[t]) /\ loaderr[t] \in Int /\ pc[t] = "woken"
          /\ UNCHANGED <<tinfo, bkRest, infoVars, hwVars>>
      BY <1>7, <2>2, <1>t DEF Resume, At
    <3>. QED
      BY <3>1, ExecFailsBk
  <2>. QED
    BY <2>1, <2>2
<1>8. ASSUME NEW t \in Tasks, ReadElf(t) PROVE BkInv'
  BY <1>8, EndExecBk DEF ReadElf
<1>9. ASSUME NEW t \in Tasks, ReadElfFails(t) PROVE BkInv'
  <2>1. /\ ExecFails(t, -ENOEXEC) /\ -ENOEXEC \in Int /\ pc[t] = "readelf"
        /\ UNCHANGED <<tinfo, bkRest, infoVars, hwVars>>
    BY <1>9 DEF ReadElfFails, ENOEXEC, At
  <2>. QED
    BY <2>1, ExecFailsBk
<1>10. CASE Dequeue
  <2>1. /\ bpc = "idle" /\ bpc' = "alloc" /\ pc' = pc /\ file' = file
        /\ tinfo' = tinfo /\ UNCHANGED <<infoVars, hwVars>>
    BY <1>10 DEF Dequeue, taskVars
  <2>2. BusyInv'
    BY <1>10, <2>1, DequeueEffect DEF BkInv, BusyInv
  <2>3. FileInv' /\ InfoInv' /\ ListInv' /\ IdleInv' /\ FreeInv'
    BY <2>1 DEF BkInv, FileInv, InfoInv, ListInv, IdleInv, FreeInv, Loading, hwVars
  <2>. QED
    BY <2>2, <2>3 DEF BkInv
<1>11. CASE BkKilled
  BY <1>11 DEF BkKilled, BkInv, BusyInv, FileInv, InfoInv, ListInv, IdleInv,
               FreeInv, Loading, Pending, taskVars, hwVars
<1>l. ASSUME NEW l \in BkLabels \ {"idle", "dead", "alloc"}, BkAt(l)
      PROVE  Loading /\ bpc = l /\ item \in Tasks /\ file[item] \in Files
  <2>1. Loading /\ bpc = l /\ item \in Tasks
    BY <1>l, <1>t DEF BkAt, ItemValid, Loading
  <2>2. pc[item] \notin {"none", "user"}
    BY <2>1 DEF BkInv, BusyInv, Pending
  <2>. QED
    BY <2>1, <2>2 DEF BkInv, FileInv
<1>12. CASE AllocInfo
  <2>1. item \in Tasks /\ bpc = "alloc"
    BY <1>12, <1>t DEF AllocInfo, BkAt, ItemValid
  <2>2. PICK i \in Infos : /\ i \notin live /\ \A t \in Tasks : tinfo[t] # i
                           /\ live' = live \cup {i}
                           /\ tinfo' = [tinfo EXCEPT ![item] = i]
                           /\ binfo' = i
    BY <1>12 DEF AllocInfo
  <2>3. /\ pc' = pc /\ file' = file /\ item' = item /\ execq' = execq
        /\ bpc' = "head" /\ chip' = 0 /\ UNCHANGED hwVars
    BY <1>12 DEF AllocInfo, execVars
  <2>4. BusyInv'
    BY <2>3 DEF BkInv, BusyInv, Pending
  <2>5. file[item] \in Files
    BY <2>1 DEF BkInv, BusyInv, FileInv, Pending
  <2>6. FileInv'
    <3>1. Len(file[item].hwr) \in Nat
      BY <2>5 DEF BofFile
    <3>. QED
      BY <2>3, <3>1 DEF BkInv, FileInv
  <2>7. InfoInv'
    BY <1>t, <2>1, <2>2, <2>3 DEF InfoInv
  <2>8. ListInv' /\ IdleInv' /\ FreeInv'
    BY <2>3 DEF BkInv, ListInv, IdleInv, FreeInv, hwVars
  <2>. QED
    BY <2>4, <2>6, <2>7, <2>8 DEF BkInv
<1>13. CASE LoadDone
  <2>1. item \in Tasks /\ Finish(0) /\ UNCHANGED <<tinfo, live, listed, hwVars>>
    BY <1>13, <1>l DEF LoadDone, BkLabels
  <2>2. BusyInv'
    BY <2>1, <1>t, FinishEffect DEF BkInv, BusyInv
  <2>3. FileInv' /\ InfoInv' /\ ListInv' /\ IdleInv'
    BY <2>1, <1>t, FinishEffect DEF BkInv, FileInv, InfoInv, ListInv, IdleInv, Loading
  <2>4. FreeInv'
    BY <2>1 DEF BkInv, FreeInv, hwVars
  <2>. QED
    BY <2>2, <2>3, <2>4 DEF BkInv
<1>14. CASE InvalidBof
  BY <1>14, <1>l, <1>t, FailBk DEF InvalidBof, BkLabels
<1>15. CASE NextRegion
  <2>1. /\ Loading /\ bpc = "head" /\ bpc' = "readhdr" /\ chip' = chip
        /\ chip < Len(file[item].hwr) /\ listed' = listed
        /\ UNCHANGED <<taskVars, execq, item, binfo, live>> /\ UNCHANGED hwVars
    BY <1>15, <1>l DEF NextRegion, BkLabels, BkFile, infoVars
  <2>2. FreeInv' /\ (chip > 0 => binfo \in listed)
    BY <2>1 DEF BkInv, FreeInv, hwVars, ListInv
  <2>3. chip <= Len(file[item].hwr)
    BY <2>1 DEF BkInv, FileInv
  <2>. QED
    BY <2>1, <2>2, <2>3, LoadStepBk DEF BkLabels
<1>16. CASE ReadHdrFails
  BY <1>16, <1>l, FailBk DEF ReadHdrFails, EIO, BkLabels
<1>17. CASE ReserveFails
  BY <1>17, <1>l, FailBk DEF ReserveFails, EBUSY, BkLabels
<1>18. CASE Reserve
  <2>1. /\ Loading /\ bpc = "readhdr" /\ bpc' = "strtab" /\ chip' = chip
        /\ listed' = listed /\ count' = 1
        /\ UNCHANGED <<taskVars, execq, item, binfo, live>>
    BY <1>18, <1>l DEF Reserve, BkLabels, infoVars
  <2>2. chip <= Len(file[item].hwr) /\ chip < Len(file[item].hwr)
    BY <2>1 DEF BkInv, FileInv
  <2>3. FreeInv'
    BY <2>1 DEF FreeInv
  <2>. QED
    BY <2>1, <2>2, <2>3, LoadStepBk DEF BkLabels
<1>19. CASE StrtabBad
  BY <1>19, <1>l, FailBk DEF StrtabBad, ENOEXEC, BkLabels
<1>20. CASE ReadStrtabFails
  BY <1>20, <1>l, FailBk DEF ReadStrtabFails, EIO, BkLabels
<1>21. CASE ListRegion
  <2>1. /\ Loading /\ bpc = "strtab" /\ bpc' = "ioreg" /\ chip' = chip
        /\ listed' = listed \cup {binfo} /\ UNCHANGED hwVars
        /\ UNCHANGED <<taskVars, execq, item, binfo, live>>
    BY <1>21, <1>l DEF ListRegion, BkLabels
  <2>2. chip <= Len(file[item].hwr) /\ chip < Len(file[item].hwr)
    BY <2>1 DEF BkInv, FileInv
  <2>3. FreeInv'
    BY <2>1 DEF BkInv, FreeInv, hwVars
  <2>. QED
    BY <2>1, <2>2, <2>3, LoadStepBk DEF BkLabels
<1>22. CASE ReadIoregFails
  BY <1>22, <1>l, FailBk DEF ReadIoregFails, EIO, BkLabels
<1>23. CASE Configure
  <2>1. /\ Loading /\ bpc = "ioreg" /\ bpc' = "config" /\ chip' = chip
        /\ listed' = listed /\ UNCHANGED <<count, active, hwtask>>
        /\ UNCHANGED <<taskVars, execq, item, binfo, live>>
    BY <1>23, <1>l DEF Configure, BkLabels, infoVars
  <2>2. chip <= Len(file[item].hwr) /\ chip < Len(file[item].hwr)
    BY <2>1 DEF BkInv, FileInv
  <2>3. FreeInv' /\ binfo \in listed
    BY <2>1 DEF BkInv, FreeInv, ListInv
  <2>. QED
    BY <2>1, <2>2, <2>3, LoadStepBk DEF BkLabels
<1>24. CASE ConfigureFails
  BY <1>24, <1>l, FailBk DEF ConfigureFails, EIO, BkLabels
<1>25. ASSUME NEW r \in Int, Activate(r) PROVE BkInv'
  <2>1. /\ Loading /\ bpc = "config" /\ bpc' = "head" /\ chip' = chip + 1
        /\ listed' = listed /\ UNCHANGED <<count, hwtask>>
        /\ UNCHANGED <<taskVars, execq, item, binfo, live>> /\ file[item] \in Files
    BY <1>25, <1>l DEF Activate, BkLabels, infoVars
  <2>2. chip < Len(file[item].hwr) /\ Len(file[item].hwr) \in Nat
    BY <2>1 DEF BkInv, FileInv, BofFile
  <2>3. chip' <= Len(file[item].hwr)
    BY <1>t, <2>1, <2>2
  <2>4. binfo \in listed
    BY <2>1 DEF BkInv, ListInv
  <2>5. FreeInv'
    BY <2>1, <2>4 DEF BkInv, FreeInv, ExecInv, Exclusive
  <2>. QED
    BY <2>1, <2>3, <2>4, <2>5, LoadStepBk DEF BkLabels
<1>26. CASE Configured
  BY <1>26, <1>25 DEF Configured
<1>27. CASE ConfigureFailsPositive
  BY <1>27, <1>25 DEF ConfigureFailsPositive
<1>28. CASE UNCHANGED <<taskVars, execq, bkVars, infoVars, hwVars>>
  <2>1. BusyInv' /\ IdleInv' /\ FreeInv'
    BY <1>28 DEF BkInv, BusyInv, IdleInv, FreeInv, Pending, taskVars, bkVars, bkRest, hwVars
  <2>2. FileInv' /\ InfoInv' /\ ListInv'
    BY <1>28 DEF BkInv, FileInv, InfoInv, ListInv, Loading, taskVars, bkVars, bkRest, infoVars
  <2>. QED
    BY <2>1, <2>2 DEF BkInv
<1>30. ASSUME NEW t \in Tasks, TaskStep(t) PROVE BkInv'
  BY <1>1, <1>2, <1>3, <1>4, <1>5, <1>6, <1>7, <1>8, <1>9, <1>30
  DEF TaskStep, ExecStep
<1>31. CASE BkLoad
  BY <1>10, <1>12, <1>13, <1>14, <1>15, <1>16, <1>17, <1>18, <1>19, <1>20,
     <1>21, <1>22, <1>23, <1>24, <1>26, <1>27, <1>28, <1>31
  DEF BkLoad, BkUsesFreed
<1>. QED
  BY <1>11, <1>28, <1>30, <1>31 DEF Next, vars

(* bkexecd's view of the task, the file and the borph_info it works on is  *)
(* right in every reachable state, until a signal ends the exec under it.  *)
THEOREM BkCorrect == Spec => [](ExecInv /\ BkInv)
<1>1. Init => ExecInv /\ BkInv
  BY ExecInit, BkInit
<1>2. ExecInv /\ BkInv /\ [Next]_vars => (ExecInv /\ BkInv)'
  BY ExecStepInv, BkStepInv
<1>. QED
  BY <1>1, <1>2, PTL DEF Spec

(* A step of bkexecd, seen from the lease.                                 *)
LEMMA LeaseStep == ExecInv /\ BkInv /\ [Next]_vars => [Lease!Next]_(Lease!leaseVars)
<1>. SUFFICES ASSUME ExecInv, BkInv, [Next]_vars
              PROVE  [Lease!Next]_(Lease!leaseVars)
  OBVIOUS
<1>. DEFINE Stage == IF count = -1 THEN "free"
                     ELSE IF active = 1 THEN "ready" ELSE "loading"
<1>f. FreeInv
  BY DEF BkInv
(* The device is given back by whoever has it on its list.                 *)
<1>e. ASSUME NEW t \in Tasks, ExitFpga(t) PROVE [Lease!Next]_(Lease!leaseVars)
  <2>1. CASE tinfo[t] \in listed
    <3>1. count = 1 /\ count' = -1 /\ hwtask' = NULL
      BY <1>e, <2>1, ExitFpgaEffect, Zenon
    <3>2. Stage # "free" /\ Stage' = "free"
      BY <3>1
    <3>. QED
      BY <3>1, <3>2 DEF Lease!Next, Lease!Return
  <2>2. CASE tinfo[t] \notin listed
    <3>1. count' = count /\ hwtask' = hwtask /\ active' = active
      BY <1>e, <2>2, ExitFpgaEffect, Zenon
    <3>. QED
      BY <3>1 DEF Lease!leaseVars
  <2>. QED
    BY <2>1, <2>2
<1>u. ASSUME UNCHANGED <<count, active, hwtask>> PROVE [Lease!Next]_(Lease!leaseVars)
  BY <1>u DEF Lease!leaseVars
<1>i. ASSUME NEW l, BkAt(l) PROVE item \in Tasks
  BY <1>i DEF BkAt, ItemValid, ExecInv, TypeOK
<1>1. ASSUME NEW t \in Tasks, TaskStep(t), ~Exit(t) PROVE UNCHANGED hwVars
  <2>1. ASSUME NEW c \in Tasks, Fork(t, c) PROVE UNCHANGED hwVars
    BY <2>1 DEF Fork
  <2>2. ASSUME NEW f \in Files, LoadBof(t, f) PROVE UNCHANGED hwVars
    BY <2>2 DEF LoadBof
  <2>. QED
    BY <1>1, <2>1, <2>2 DEF TaskStep, ExecStep, Spawn, Signal, GoToSleep, Resume,
                            ReadElf, ReadElfFails
<1>2. ASSUME NEW t \in Tasks, Exit(t) PROVE [Lease!Next]_(Lease!leaseVars)
  BY <1>2, <1>e DEF Exit
<1>3. ASSUME NEW r, NEW l, BkAt(l), Fail(r) PROVE [Lease!Next]_(Lease!leaseVars)
  BY <1>3, <1>i, <1>e DEF Fail
<1>4. CASE Reserve
  <2>1. count = -1 /\ count' = 1 /\ hwtask' = item /\ active' = active /\ item \in Tasks
    BY <1>4, <1>i DEF Reserve, CanReserve
  <2>2. Stage = "free" /\ Stage' = "loading"
    BY <1>f, <2>1 DEF FreeInv
  <2>3. Lease!Grant(item)
    BY <2>1, <2>2 DEF Lease!Grant
  <2>. QED
    BY <2>1, <2>3 DEF Lease!Next
<1>5. ASSUME NEW r, Activate(r) PROVE [Lease!Next]_(Lease!leaseVars)
  <2>1. count' = count /\ hwtask' = hwtask /\ active' = 1
    BY <1>5 DEF Activate
  <2>2. count = 1
    <3>1. Loading /\ bpc = "config"
      BY <1>5 DEF Activate, BkAt, ItemValid, Loading
    <3>. QED
      BY <3>1 DEF BkInv, ListInv, ExecInv, Exclusive
  <2>3. CASE active = 1
    BY <2>1, <2>3, <1>u
  <2>4. CASE active # 1
    <3>1. Stage = "loading" /\ Stage' = "ready"
      BY <2>1, <2>2, <2>4
    <3>. QED
      BY <2>1, <3>1 DEF Lease!Next, Lease!Ready
  <2>. QED
    BY <2>3, <2>4
<1>6. CASE \/ Dequeue \/ AllocInfo \/ LoadDone \/ NextRegion \/ ListRegion
           \/ Configure \/ BkUsesFreed \/ BkKilled \/ UNCHANGED vars
  BY <1>6, <1>u DEF Dequeue, AllocInfo, LoadDone, NextRegion, ListRegion, Configure,
                    BkUsesFreed, BkKilled, hwVars, vars
<1>7. CASE \/ InvalidBof \/ ReadHdrFails \/ ReserveFails \/ StrtabBad
           \/ ReadStrtabFails \/ ReadIoregFails \/ ConfigureFails
  BY <1>7, <1>3 DEF InvalidBof, ReadHdrFails, ReserveFails, StrtabBad,
                    ReadStrtabFails, ReadIoregFails, ConfigureFails
<1>8. CASE Configured \/ ConfigureFailsPositive
  BY <1>8, <1>5 DEF Configured, ConfigureFailsPositive
<1>9. CASE BkLoad
  BY <1>4, <1>6, <1>7, <1>8, <1>9 DEF BkLoad
<1>10. ASSUME NEW t \in Tasks, TaskStep(t) PROVE [Lease!Next]_(Lease!leaseVars)
  BY <1>10, <1>1, <1>2, <1>u DEF hwVars
<1>. QED
  BY <1>6, <1>9, <1>10 DEF Next

(* Exec, exit, fork, signals and every failure of a load implement the     *)
(* lease, for any tasks, files and environment: the FPGA is granted only   *)
(* when it is free, keeps its owner until it is returned, and a return     *)
(* leaves nobody as owner and the device inactive.                         *)
THEOREM LeaseCorrect == Spec => Lease!Spec
<1>1. Init => Lease!Init
  BY DEF Init, Lease!Init
<1>. QED
  BY <1>1, LeaseStep, BkCorrect, PTL DEF Spec, Lease!Spec

-----------------------------------------------------------------------------
(* Without signals, an exec waits for its item.                            *)

Queued(t) == \E k \in DOMAIN execq : execq[k] = t

(* Every item is that of one exec that waits for it, with a file that has  *)
(* hardware, and no exec has two.                                          *)
QueueInv ==
  /\ ~Queued(NULL)
  /\ \A j, k \in DOMAIN execq : execq[j] = execq[k] => j = k
  /\ item # NULL => ~Queued(item)
  /\ bpc \notin {"idle", "dead"} => item # NULL
  /\ \A t \in Tasks : Pending(t) => /\ pc[t] \in {"queued", "asleep"}
                                    /\ file[t].numchip > 0

LEMMA QueueInit == Init => QueueInv
BY DEF Init, QueueInv, Queued, Pending

(* The queue as it is: only tasks without an item change.                  *)
LEMMA QueueFrame ==
  ASSUME QueueInv, UNCHANGED <<execq, item>>,
         bpc' \notin {"idle", "dead"} => bpc \notin {"idle", "dead"},
         \A t \in Tasks : Pending(t) => /\ file'[t] = file[t]
                                        /\ pc'[t] = pc[t] \/ pc'[t] = "asleep"
  PROVE  QueueInv'
BY DEF QueueInv, Queued, Pending

(* The end of a load.                                                      *)
LEMMA QueueFinish ==
  ASSUME ExecInv, QueueInv, item \in Tasks, NEW r \in Int, Finish(r)
  PROVE  QueueInv'
<1>1. /\ pc' = [pc EXCEPT ![item] = IF pc[item] = "asleep" THEN "woken" ELSE pc[item]]
      /\ file' = file /\ execq' = execq /\ bpc' = "idle" /\ item' = NULL
  BY FinishEffect, Zenon
<1>2. \A t \in Tasks : Pending(t)' => Pending(t) /\ t # item
  BY <1>1 DEF QueueInv, Queued, Pending
<1>3. \A t \in Tasks : t # item => pc'[t] = pc[t]
  BY <1>1 DEF ExecInv, TypeOK
<1>. QED
  BY <1>1, <1>2, <1>3 DEF QueueInv, Queued

(* A new item for a task that has none.                                    *)
LEMMA QueueEnter ==
  ASSUME ExecInv, QueueInv, NEW t \in Tasks, ~Pending(t), NEW f \in Files, Enter(t, f),
         item' = item, bpc' = bpc, file'[t] = f,
         \A u \in Tasks : u # t => file'[u] = file[u]
  PROVE  QueueInv'
<1>t. /\ execq \in Seq(Tasks \cup {NULL}) /\ pc \in [Tasks -> TaskLabels]
      /\ NULL \notin Tasks
  BY DEF ExecInv, TypeOK
<1>1. CASE f.numchip > 0
  <2>1. execq' = Append(execq, t)
    BY <1>1 DEF Enter
  <2>2. /\ DOMAIN execq' = 1 .. (Len(execq) + 1) /\ DOMAIN execq = 1 .. Len(execq)
        /\ execq'[Len(execq) + 1] = t
        /\ \A k \in 1 .. Len(execq) : execq'[k] = execq[k]
        /\ Len(execq) \in Nat
    BY <2>1, <1>t
  <2>3. ~Queued(t)
    BY DEF Pending, Queued
  <2>4. \A j, k \in DOMAIN execq' : execq'[j] = execq'[k] => j = k
    BY <2>2, <2>3 DEF QueueInv, Queued
  <2>5. ~Queued(NULL)' /\ (item # NULL => ~Queued(item)')
    <3>1. \A u : Queued(u)' => Queued(u) \/ u = t
      BY <2>2 DEF Queued
    <3>2. item # t
      BY DEF Pending
    <3>. QED
      BY <1>t, <3>1, <3>2 DEF QueueInv
  <2>6. /\ \A u \in Tasks : Pending(u)' => Pending(u) \/ u = t
        /\ \A u \in Tasks : u # t => pc'[u] = pc[u]
        /\ pc'[t] \in {"queued", "asleep"}
    BY <1>1, <1>t, EnterEffect
  <2>. QED
    BY <1>1, <2>4, <2>5, <2>6 DEF QueueInv, Queued
<1>2. CASE ~(f.numchip > 0)
  <2>1. execq' = execq /\ \A u \in Tasks : u # t => pc'[u] = pc[u]
    BY <1>2, <1>t DEF Enter
  <2>. QED
    BY <2>1, QueueFrame
<1>. QED
  BY <1>1, <1>2

(* The end of the exec of a task that has no item.                         *)
LEMMA QueueEndExec ==
  ASSUME ExecInv, QueueInv, NEW t \in Tasks, ~Pending(t), EndExec(t), bpc' = bpc
  PROVE  execq' = execq /\ item' = item /\ QueueInv'
<1>t. /\ execq \in Seq(Tasks \cup {NULL}) /\ pc \in [Tasks -> TaskLabels]
      /\ file \in [Tasks -> Files \cup {NULL}]
  BY DEF ExecInv, TypeOK
<1>1. execq' = [k \in DOMAIN execq |-> execq[k]]
  BY DEF EndExec, Pending
<1>2. execq' = execq
  BY <1>t, <1>1
<1>3. item' = item
  BY DEF EndExec, Pending
<1>4. \A u \in Tasks : u # t => pc'[u] = pc[u] /\ file'[u] = file[u]
  BY <1>t DEF EndExec
<1>5. QueueInv'
  BY <1>2, <1>3, <1>4, QueueFrame
<1>. QED
  BY <1>2, <1>3, <1>5

LEMMA QueueExecFails ==
  ASSUME ExecInv, BkInv, QueueInv, NEW t \in Tasks, pc[t] \in {"woken", "readelf"},
         NEW e \in Int, ExecFails(t, e), UNCHANGED bkRest
  PROVE  QueueInv'
<1>1. ~Pending(t) /\ file[t] \in Files /\ bpc' = bpc
  BY DEF QueueInv, BkInv, FileInv, bkRest
<1>2. CASE EndExec(t)
  BY <1>1, <1>2, QueueEndExec
<1>3. CASE file' = file /\ item' = item /\ Enter(t, file[t])
  BY <1>1, <1>3, QueueEnter
<1>. QED
  BY <1>1, <1>2, <1>3, ExecFailsEffect

LEMMA QueueStepInv ==
  ASSUME "signal" \notin Env, ExecInv, BkInv, QueueInv, [Next]_vars
  PROVE  QueueInv'
<1>t. /\ pc \in [Tasks -> TaskLabels] /\ file \in [Tasks -> Files \cup {NULL}]
      /\ tinfo \in [Tasks -> Infos \cup {NULL}] /\ item \in Tasks \cup {NULL}
      /\ loaderr \in [Tasks -> Int] /\ chip \in Nat /\ retval \in Int
      /\ execq \in Seq(Tasks \cup {NULL}) /\ NULL \notin Tasks /\ NULL \notin Infos
  BY DEF ExecInv, TypeOK
<1>p. ASSUME NEW t \in Tasks, pc[t] \notin {"queued", "asleep"} PROVE ~Pending(t)
  BY <1>p DEF QueueInv
<1>1. ASSUME NEW t \in Tasks, Spawn(t) PROVE QueueInv'
  BY <1>1, <1>t, <1>p, QueueFrame DEF Spawn, At, execVars, bkVars, bkRest
<1>2. ASSUME NEW t \in Tasks, NEW c \in Tasks, Fork(t, c) PROVE QueueInv'
  BY <1>2, <1>t, <1>p, QueueFrame DEF Fork, At, execVars, bkVars, bkRest
<1>3. ASSUME NEW t \in Tasks, Exit(t) PROVE QueueInv'
  BY <1>3, <1>t, <1>p, QueueFrame DEF Exit, At, bkVars, bkRest
<1>4. ASSUME NEW t \in Tasks, NEW f \in Files, LoadBof(t, f) PROVE QueueInv'
  <2>1. ~Pending(t)
    BY <1>4, <1>p DEF LoadBof, At
  <2>2. /\ Enter(t, f) /\ item' = item /\ bpc' = bpc
        /\ file'[t] = f /\ \A u \in Tasks : u # t => file'[u] = file[u]
    BY <1>4, <1>t DEF LoadBof, bkVars, bkRest
  <2>. QED
    BY <2>1, <2>2, QueueEnter
<1>5. ASSUME NEW t \in Tasks, GoToSleep(t) PROVE QueueInv'
  BY <1>5, <1>t, QueueFrame DEF GoToSleep, At, execVars, bkVars, bkRest
<1>7. ASSUME NEW t \in Tasks, Resume(t) PROVE QueueInv'
  <2>1. CASE loaderr[t] = 0
    BY <1>7, <2>1, <1>t, <1>p, QueueFrame DEF Resume, At, bkRest
  <2>2. CASE loaderr[t] # 0
    BY <1>7, <2>2, <1>t, QueueExecFails DEF Resume, At
  <2>. QED
    BY <2>1, <2>2
<1>8. ASSUME NEW t \in Tasks, ReadElf(t) PROVE QueueInv'
  BY <1>8, <1>p, QueueEndExec DEF ReadElf, At, bkRest
<1>9. ASSUME NEW t \in Tasks, ReadElfFails(t) PROVE QueueInv'
  BY <1>9, QueueExecFails DEF ReadElfFails, ENOEXEC, At
<1>10. CASE Dequeue
  <2>1. /\ bpc = "idle" /\ bpc' = "alloc" /\ pc' = pc /\ file' = file
        /\ execq # <<>> /\ item' = Head(execq) /\ execq' = Tail(execq)
    BY <1>10 DEF Dequeue, taskVars
  <2>2. /\ 1 \in DOMAIN execq /\ item' = execq[1]
        /\ \A k \in DOMAIN execq' : /\ k + 1 \in DOMAIN execq /\ k + 1 # 1 /\ k \in Int
                                    /\ execq'[k] = execq[k + 1]
    BY <1>t, <2>1
  <2>3. item' # NULL
    BY <2>2 DEF QueueInv, Queued
  <2>4. ~Queued(NULL)'
    BY <2>2 DEF QueueInv, Queued
  <2>5. \A j, k \in DOMAIN execq' : execq'[j] = execq'[k] => j = k
    <3>. TAKE j, k \in DOMAIN execq'
    <3>1. execq'[j] = execq'[k] => j + 1 = k + 1
      BY <2>2 DEF QueueInv
    <3>. QED
      BY <2>2, <3>1
  <2>6. ~Queued(item)'
    BY <2>2 DEF QueueInv, Queued
  <2>7. \A u \in Tasks : Pending(u)' => Pending(u)
    BY <1>10, DequeueEffect
  <2>. QED
    BY <2>1, <2>3, <2>4, <2>5, <2>6, <2>7 DEF QueueInv
<1>11. CASE BkKilled
  BY <1>11, QueueFrame DEF BkKilled, taskVars
<1>i. ASSUME NEW l, BkAt(l) PROVE item \in Tasks
  BY <1>i, <1>t DEF BkAt, ItemValid
<1>f. ASSUME NEW r \in Int, NEW l, BkAt(l), Fail(r) PROVE QueueInv'
  BY <1>f, <1>i, QueueFinish DEF Fail
<1>12. CASE AllocInfo
  BY <1>12, QueueFrame DEF AllocInfo, execVars, BkAt
<1>13. CASE LoadDone
  BY <1>13, <1>i, QueueFinish DEF LoadDone
<1>14. CASE InvalidBof \/ ReadHdrFails \/ ReserveFails \/ StrtabBad
            \/ ReadStrtabFails \/ ReadIoregFails \/ ConfigureFails
  BY <1>14, <1>f, <1>t DEF InvalidBof, ReadHdrFails, ReserveFails, StrtabBad,
     ReadStrtabFails, ReadIoregFails, ConfigureFails, EIO, ENOEXEC, EBUSY
<1>15. CASE NextRegion \/ Reserve \/ ListRegion \/ Configure
  BY <1>15, QueueFrame DEF NextRegion, Reserve, ListRegion, Configure, BkAt, taskVars
<1>16. CASE Configured \/ ConfigureFailsPositive
  BY <1>16, QueueFrame DEF Configured, ConfigureFailsPositive, Activate, BkAt, taskVars
<1>17. CASE UNCHANGED <<taskVars, execq, bkVars, infoVars, hwVars>>
  BY <1>17, QueueFrame DEF taskVars, bkVars, bkRest
<1>30. ASSUME NEW t \in Tasks, TaskStep(t) PROVE QueueInv'
  BY <1>1, <1>2, <1>3, <1>4, <1>5, <1>7, <1>8, <1>9, <1>30
  DEF TaskStep, ExecStep, Signal
<1>31. CASE BkLoad
  BY <1>10, <1>12, <1>13, <1>14, <1>15, <1>16, <1>17, <1>31 DEF BkLoad, BkUsesFreed
<1>. QED
  BY <1>11, <1>17, <1>30, <1>31 DEF Next, vars

(* Without signals: what bkexecd knows and what the queue holds.           *)
WaitInv == ExecInv /\ BkInv /\ QueueInv

(* Without signals, every item, queued or being loaded, is that of one     *)
(* exec that sleeps until bkexecd is done with it.                         *)
THEOREM QueueCorrect == ASSUME "signal" \notin Env PROVE Spec => []WaitInv
<1>1. Init => WaitInv
  BY ExecInit, BkInit, QueueInit DEF WaitInv
<1>2. WaitInv /\ [Next]_vars => WaitInv'
  BY ExecStepInv, BkStepInv, QueueStepInv DEF WaitInv
<1>. QED
  BY <1>1, <1>2, PTL DEF Spec

(* bkexecd never finds its item gone.                                      *)
LEMMA WaitItemValid == WaitInv /\ bpc \notin {"idle", "dead"} => ItemValid
BY DEF WaitInv, QueueInv, BkInv, InfoInv, ItemValid, Loading, ExecInv, TypeOK

(* A task step other than fork and exit leaves borph_infos, regions and    *)
(* the device alone.                                                       *)
LEMMA TaskStepFrame ==
  ASSUME NEW t \in Tasks, TaskStep(t), ~Exit(t), \A c \in Tasks : ~Fork(t, c)
  PROVE  UNCHANGED <<tinfo, bkRest, infoVars, hwVars, uaf>>
<1>1. ASSUME NEW f \in Files, LoadBof(t, f)
      PROVE  UNCHANGED <<tinfo, bkRest, infoVars, hwVars, uaf>>
  BY <1>1 DEF LoadBof, bkVars
<1>2. CASE Spawn(t) \/ Signal(t) \/ GoToSleep(t)
  BY <1>2 DEF Spawn, Signal, GoToSleep, bkVars
<1>3. CASE Resume(t) \/ ReadElf(t) \/ ReadElfFails(t)
  BY <1>3 DEF Resume, ReadElf, ReadElfFails
<1>. QED
  BY <1>1, <1>2, <1>3 DEF TaskStep, ExecStep

(* A load fails by one of seven steps, with an error that is not 0 unless  *)
(* the chain of hwrhdrs ends too early.                                    *)
FailStep == \/ InvalidBof \/ ReadHdrFails \/ ReserveFails \/ StrtabBad
            \/ ReadStrtabFails \/ ReadIoregFails \/ ConfigureFails

LEMMA FailStepFails ==
  ASSUME ExecInv, FailStep
  PROVE  \E r \in Int : /\ Fail(r) /\ item \in Tasks /\ ItemValid
                        /\ bpc \in BkLabels \ {"idle", "dead", "alloc"}
                        /\ r # 0 \/ (InvalidBof /\ r = retval)
<1>1. CASE InvalidBof
  BY <1>1 DEF InvalidBof, BkAt, ItemValid, ExecInv, TypeOK, BkLabels
<1>0. ASSUME NEW r \in Int, NEW l \in BkLabels \ {"idle", "dead", "alloc"},
             BkAt(l), Fail(r), r # 0
      PROVE  \E q \in Int : /\ Fail(q) /\ item \in Tasks /\ ItemValid
                            /\ bpc \in BkLabels \ {"idle", "dead", "alloc"}
                            /\ q # 0 \/ (InvalidBof /\ q = retval)
  <2>1. item \in Tasks /\ ItemValid /\ bpc \in BkLabels \ {"idle", "dead", "alloc"}
    BY <1>0 DEF BkAt, ItemValid, ExecInv, TypeOK
  <2>. WITNESS r \in Int
  <2>. QED
    BY <1>0, <2>1
<1>2. CASE ReadHdrFails \/ ReadStrtabFails \/ ReadIoregFails \/ ConfigureFails
  <2>1. Fail(-EIO) /\ -EIO \in Int /\ -EIO # 0
    BY <1>2 DEF ReadHdrFails, ReadStrtabFails, ReadIoregFails, ConfigureFails, EIO
  <2>2. PICK l \in BkLabels \ {"idle", "dead", "alloc"} : BkAt(l)
    BY <1>2 DEF ReadHdrFails, ReadStrtabFails, ReadIoregFails, ConfigureFails, BkLabels
  <2>. QED
    BY <1>0, <2>1, <2>2, Zenon
<1>3. CASE ReserveFails
  <2>1. Fail(-EBUSY) /\ -EBUSY \in Int /\ -EBUSY # 0 /\ BkAt("readhdr")
    BY <1>3 DEF ReserveFails, EBUSY
  <2>2. "readhdr" \in BkLabels \ {"idle", "dead", "alloc"}
    BY DEF BkLabels
  <2>. QED
    BY <1>0, <2>1, <2>2, Zenon
<1>4. CASE StrtabBad
  <2>1. Fail(-ENOEXEC) /\ -ENOEXEC \in Int /\ -ENOEXEC # 0 /\ BkAt("strtab")
    BY <1>4 DEF StrtabBad, ENOEXEC
  <2>2. "strtab" \in BkLabels \ {"idle", "dead", "alloc"}
    BY DEF BkLabels
  <2>. QED
    BY <1>0, <2>1, <2>2, Zenon
<1>. QED
  BY <1>1, <1>2, <1>3, <1>4 DEF FailStep

-----------------------------------------------------------------------------
(* Memory: without signals and forks, a borph_info has one pointer.        *)

SoleInv ==
  /\ ~uaf
  /\ \A t \in Tasks : tinfo[t] \in live \cup {NULL}
  /\ \A t, u \in Tasks : tinfo[t] = tinfo[u] /\ tinfo[t] # NULL => t = u

LEMMA SoleExitFpga ==
  ASSUME ExecInv, SoleInv, NEW t \in Tasks, ExitFpga(t)
  PROVE  SoleInv'
<1>t. tinfo \in [Tasks -> Infos \cup {NULL}] /\ live \subseteq Infos /\ NULL \notin Infos
  BY DEF ExecInv, TypeOK
<1>1. tinfo' = [tinfo EXCEPT ![t] = NULL] /\ live' = live \ {tinfo[t]}
  BY ExitFpgaEffect, Zenon
<1>2. ~uaf'
  <2>1. tinfo[t] = NULL => uaf' = uaf
    BY ExitFpgaEffect, Zenon
  <2>2. tinfo[t] \in live => uaf' = FALSE
    BY ExitFpgaEffect, Zenon
  <2>3. ~uaf /\ (tinfo[t] \in live \/ tinfo[t] = NULL)
    BY DEF SoleInv
  <2>. QED
    BY <2>1, <2>2, <2>3, Zenon
<1>3. \A u \in Tasks : tinfo'[u] = IF u = t THEN NULL ELSE tinfo[u]
  BY <1>t, <1>1
<1>4. \A u \in Tasks : tinfo'[u] \in live' \cup {NULL}
  BY <1>1, <1>3 DEF SoleInv
<1>5. \A u, v \in Tasks : tinfo'[u] = tinfo'[v] /\ tinfo'[u] # NULL => u = v
  BY <1>3 DEF SoleInv
<1>. QED
  BY <1>2, <1>4, <1>5 DEF SoleInv

LEMMA SoleStepInv ==
  ASSUME "fork" \notin Env, WaitInv, SoleInv, [Next]_vars
  PROVE  SoleInv'
<1>t. /\ tinfo \in [Tasks -> Infos \cup {NULL}] /\ live \subseteq Infos
      /\ NULL \notin Infos /\ ExecInv
  BY DEF WaitInv, ExecInv, TypeOK
<1>0. ASSUME tinfo' = tinfo, live' = live, uaf' = uaf PROVE SoleInv'
  BY <1>0 DEF SoleInv
<1>1. ASSUME NEW t \in Tasks, TaskStep(t) PROVE SoleInv'
  <2>1. CASE Exit(t)
    BY <1>t, <2>1, SoleExitFpga DEF Exit
  <2>2. CASE ~Exit(t)
    <3>1. \A c \in Tasks : ~Fork(t, c)
      BY DEF Fork
    <3>2. tinfo' = tinfo /\ live' = live /\ uaf' = uaf
      BY <1>1, <2>2, <3>1, TaskStepFrame DEF infoVars
    <3>. QED
      BY <3>2, <1>0
  <2>. QED
    BY <2>1, <2>2
<1>2. CASE AllocInfo
  <2>1. PICK i \in Infos : /\ i \notin live /\ \A t \in Tasks : tinfo[t] # i
                           /\ live' = live \cup {i}
                           /\ tinfo' = [tinfo EXCEPT ![item] = i]
    BY <1>2 DEF AllocInfo
  <2>2. item \in Tasks /\ uaf' = uaf
    BY <1>2 DEF AllocInfo, BkAt, ItemValid, WaitInv, ExecInv, TypeOK
  <2>. QED
    BY <1>t, <2>1, <2>2 DEF SoleInv
<1>3. CASE FailStep
  BY <1>t, <1>3, FailStepFails, SoleExitFpga DEF Fail
<1>4. CASE \/ Dequeue \/ LoadDone \/ NextRegion \/ Reserve \/ ListRegion
           \/ Configure \/ BkKilled
  BY <1>4, <1>0 DEF Dequeue, LoadDone, NextRegion, Reserve, ListRegion, Configure,
                    BkKilled, taskVars, infoVars
<1>5. CASE Configured \/ ConfigureFailsPositive
  BY <1>5, <1>0 DEF Configured, ConfigureFailsPositive, Activate, taskVars, infoVars
<1>6. ~BkUsesFreed
  BY WaitItemValid DEF BkUsesFreed
<1>7. CASE UNCHANGED vars
  BY <1>7, <1>0 DEF vars, taskVars, infoVars
<1>. QED
  BY <1>1, <1>2, <1>3, <1>4, <1>5, <1>6, <1>7 DEF Next, BkLoad, FailStep

(* Without signals and forks, neither bkexecd nor borph_exit_fpga touches  *)
(* a bprm, a task or a borph_info that is freed: for any tasks and files,  *)
(* any failure of a load, execs by tasks that have hardware, preemption    *)
(* and the death of bkexecd.                                               *)
THEOREM NoUseAfterFreeCorrect ==
  ASSUME Env \cap {"signal", "fork"} = {} PROVE Spec => []NoUseAfterFree
<1>0. "signal" \notin Env /\ "fork" \notin Env
  OBVIOUS
<1>1. Init => SoleInv
  BY DEF Init, SoleInv
<1>2. WaitInv /\ SoleInv /\ [Next]_vars => SoleInv'
  BY <1>0, SoleStepInv
<1>3. SoleInv => NoUseAfterFree
  BY DEF SoleInv, NoUseAfterFree
<1>4. Spec => []WaitInv
  BY <1>0, QueueCorrect
<1>. QED
  BY <1>1, <1>2, <1>3, <1>4, PTL DEF Spec

-----------------------------------------------------------------------------
(* Hardware first: without signals and with complete hwrhdr chains, a load *)
(* that did not succeed is seen as such by load_bof_binary.                *)

(* A chain, when there is one, has as many hwrhdrs as b_numchip says.      *)
CompleteChains == \A f \in Files : Len(f.hwr) > 0 => f.numchip <= Len(f.hwr)

(* The exec of a file with hardware is past, or about to pass, the look at *)
(* load_err.                                                               *)
Passed(t) ==
  /\ pc[t] = "readelf" \/ (pc[t] = "woken" /\ loaderr[t] = 0)
  /\ file[t].numchip > 0

(* It has its hardware, and nobody else can take it away.  Until the first *)
(* region is configured, retval holds an error.                            *)
PassedInv ==
  /\ \A t \in Tasks : Passed(t) =>
       /\ tinfo[t] \in listed \cap ready
       /\ \A u \in Tasks : tinfo[u] = tinfo[t] => u = t
  /\ bpc = "head" /\ chip = 0 => retval # 0

LEMMA PassedFrame ==
  ASSUME PassedInv, \A t \in Tasks : Passed(t)' => Passed(t), tinfo' = tinfo,
         listed \subseteq listed', ready \subseteq ready',
         bpc' = "head" /\ chip' = 0 => retval' # 0
  PROVE  PassedInv'
BY DEF PassedInv

(* A task that goes into its exec, or leaves it, is not past the look.     *)
LEMMA PassedEnter ==
  ASSUME ExecInv, NEW t \in Tasks, NEW f \in Files, Enter(t, f), item' = item,
         file'[t] = f, \A u \in Tasks : u # t => file'[u] = file[u] /\ loaderr'[u] = loaderr[u]
  PROVE  \A u \in Tasks : Passed(u)' => Passed(u)
<1>1. /\ \A u \in Tasks : u # t => pc'[u] = pc[u]
      /\ f.numchip > 0 => pc'[t] \in {"queued", "asleep"}
  BY EnterEffect DEF ExecInv, TypeOK
<1>. QED
  BY <1>1 DEF Passed

LEMMA PassedEndExec ==
  ASSUME ExecInv, NEW t \in Tasks, EndExec(t)
  PROVE  \A u \in Tasks : Passed(u)' => Passed(u)
BY DEF Passed, EndExec, ExecInv, TypeOK

LEMMA PassedExecFails ==
  ASSUME ExecInv, BkInv, NEW t \in Tasks, pc[t] \in {"woken", "readelf"},
         NEW e \in Int, ExecFails(t, e)
  PROVE  \A u \in Tasks : Passed(u)' => Passed(u)
<1>1. file[t] \in Files
  BY DEF BkInv, FileInv
<1>2. CASE file' = file /\ loaderr' = loaderr /\ item' = item /\ Enter(t, file[t])
  BY <1>1, <1>2, PassedEnter
<1>. QED
  BY <1>1, <1>2, ExecFailsEffect, PassedEndExec

LEMMA PassedTaskStep ==
  ASSUME "signal" \notin Env, WaitInv, NEW t \in Tasks, TaskStep(t)
  PROVE  \A u \in Tasks : Passed(u)' => Passed(u)
<1>t. /\ pc \in [Tasks -> TaskLabels] /\ file \in [Tasks -> Files \cup {NULL}]
      /\ loaderr \in [Tasks -> Int] /\ ExecInv /\ BkInv
  BY DEF WaitInv, ExecInv, TypeOK
<1>1. CASE Spawn(t) \/ GoToSleep(t) \/ Exit(t)
  BY <1>1, <1>t DEF Spawn, GoToSleep, Exit, execVars, Passed
<1>2. ASSUME NEW c \in Tasks, Fork(t, c) PROVE \A u \in Tasks : Passed(u)' => Passed(u)
  BY <1>2, <1>t DEF Fork, execVars, Passed
<1>3. ASSUME NEW f \in Files, LoadBof(t, f) PROVE \A u \in Tasks : Passed(u)' => Passed(u)
  BY <1>3, <1>t, PassedEnter DEF LoadBof, bkVars
<1>4. CASE Resume(t)
  <2>1. CASE loaderr[t] = 0
    BY <1>4, <2>1, <1>t DEF Resume, At, Passed
  <2>2. CASE loaderr[t] # 0
    BY <1>4, <2>2, <1>t, PassedExecFails DEF Resume, At
  <2>. QED
    BY <2>1, <2>2
<1>5. CASE ReadElf(t)
  BY <1>5, <1>t, PassedEndExec DEF ReadElf
<1>6. CASE ReadElfFails(t)
  BY <1>6, <1>t, PassedExecFails DEF ReadElfFails, At, ENOEXEC
<1>. QED
  BY <1>1, <1>2, <1>3, <1>4, <1>5, <1>6 DEF TaskStep, ExecStep, Signal

(* A load that ends: only the task of the item can get past the look, and  *)
(* only with load_err = 0.                                                 *)
LEMMA PassedFinish ==
  ASSUME ExecInv, item \in Tasks, NEW r \in Int, Finish(r)
  PROVE  /\ \A u \in Tasks : u # item => (Passed(u)' <=> Passed(u))
         /\ \A u \in Tasks : u = item /\ Passed(u)' => r = 0 \/ pc[u] = "readelf"
<1>1. /\ loaderr' = [loaderr EXCEPT ![item] = r]
      /\ pc' = [pc EXCEPT ![item] = IF pc[item] = "asleep" THEN "woken" ELSE pc[item]]
      /\ file' = file
  BY FinishEffect, Zenon
<1>2. /\ pc \in [Tasks -> TaskLabels] /\ loaderr \in [Tasks -> Int]
  BY DEF ExecInv, TypeOK
<1>3. \A u \in Tasks : u # item => pc'[u] = pc[u] /\ loaderr'[u] = loaderr[u]
  BY <1>1, <1>2
<1>4. loaderr'[item] = r /\ pc'[item] = IF pc[item] = "asleep" THEN "woken" ELSE pc[item]
  BY <1>1, <1>2
<1>. QED
  BY <1>1, <1>3, <1>4 DEF Passed

LEMMA PassedStepInv ==
  ASSUME "signal" \notin Env, CompleteChains, WaitInv, PassedInv, [Next]_vars
  PROVE  PassedInv'
<1>t. /\ tinfo \in [Tasks -> Infos \cup {NULL}] /\ live \subseteq Infos
      /\ NULL \notin Infos /\ NULL \notin Tasks /\ chip \in Nat /\ listed \subseteq live
      /\ pc \in [Tasks -> TaskLabels] /\ ExecInv /\ BkInv /\ QueueInv
  BY DEF WaitInv, ExecInv, TypeOK
<1>r. bpc = "head" /\ chip = 0 => retval # 0
  BY DEF PassedInv
<1>1. ASSUME NEW t \in Tasks, TaskStep(t) PROVE PassedInv'
  <2>0. \A u \in Tasks : Passed(u)' => Passed(u)
    BY <1>1, PassedTaskStep
  <2>1. CASE Exit(t)
    <3>1. tinfo' = [tinfo EXCEPT ![t] = NULL] /\ listed' = listed \ {tinfo[t]}
          /\ ready' = ready \ {tinfo[t]}
      BY <1>t, <2>1, ExitFpgaEffect, Zenon DEF Exit
    <3>2. ~Passed(t) /\ bpc' = bpc /\ chip' = chip /\ retval' = retval
      BY <2>1 DEF Exit, At, Passed, bkVars, bkRest
    <3>3. \A u \in Tasks : tinfo'[u] = IF u = t THEN NULL ELSE tinfo[u]
      BY <1>t, <3>1
    <3>. QED
      BY <1>t, <1>r, <2>0, <3>1, <3>2, <3>3 DEF PassedInv
  <2>2. ASSUME NEW c \in Tasks, Fork(t, c) PROVE PassedInv'
    <3>1. /\ tinfo' = [tinfo EXCEPT ![c] = tinfo[t]] /\ listed' = listed /\ ready' = ready
          /\ bpc' = bpc /\ chip' = chip /\ retval' = retval /\ ~Passed(t) /\ ~Passed(c)
      BY <2>2 DEF Fork, At, Passed, bkVars, bkRest, infoVars
    <3>2. \A u \in Tasks : tinfo'[u] = IF u = c THEN tinfo[t] ELSE tinfo[u]
      BY <1>t, <3>1
    <3>. QED
      BY <1>r, <2>0, <3>1, <3>2 DEF PassedInv
  <2>3. CASE ~Exit(t) /\ \A c \in Tasks : ~Fork(t, c)
    BY <1>1, <1>r, <2>0, <2>3, TaskStepFrame, PassedFrame DEF infoVars, bkRest
  <2>. QED
    BY <2>1, <2>2, <2>3
<1>2. CASE AllocInfo
  <2>1. PICK i \in Infos : /\ i \notin live /\ \A t \in Tasks : tinfo[t] # i
                           /\ tinfo' = [tinfo EXCEPT ![item] = i]
    BY <1>2 DEF AllocInfo
  <2>2. /\ item \in Tasks /\ pc' = pc /\ file' = file /\ loaderr' = loaderr
        /\ listed' = listed /\ ready' = ready /\ retval' = -EIO
    BY <1>2, <1>t DEF AllocInfo, BkAt, ItemValid, ExecInv, TypeOK, execVars
  <2>3. ~Passed(item)
    BY <1>t, <2>2 DEF QueueInv, Pending, Passed
  <2>4. \A u \in Tasks : tinfo'[u] = IF u = item THEN i ELSE tinfo[u]
    BY <1>t, <2>1
  <2>5. \A u \in Tasks : Passed(u)' <=> Passed(u)
    BY <2>2 DEF Passed
  <2>. QED
    BY <2>1, <2>2, <2>3, <2>4, <2>5 DEF PassedInv, EIO
<1>3. CASE FailStep
  <2>1. PICK r \in Int : /\ Fail(r) /\ item \in Tasks /\ ItemValid
                         /\ bpc \in BkLabels \ {"idle", "dead", "alloc"}
                         /\ r # 0 \/ (InvalidBof /\ r = retval)
    BY <1>t, <1>3, FailStepFails
  <2>2. Loading /\ file[item] \in Files /\ pc[item] # "readelf"
    BY <1>t, <2>1 DEF Loading, BkInv, FileInv, BusyInv, Pending, QueueInv, ItemValid
  <2>3. r # 0
    <3>1. CASE InvalidBof /\ r = retval
      <4>1. /\ bpc = "head" /\ chip < file[item].numchip /\ chip >= Len(file[item].hwr)
            /\ Len(file[item].hwr) \in Nat /\ file[item].numchip \in Nat
        BY <3>1, <2>2 DEF InvalidBof, BkAt, BkFile, BofFile
      <4>2. Len(file[item].hwr) > 0 => file[item].numchip <= Len(file[item].hwr)
        BY <2>2 DEF CompleteChains
      <4>3. chip <= Len(file[item].hwr)
        BY <1>t, <2>2 DEF BkInv, FileInv
      <4>. QED
        BY <1>t, <1>r, <3>1, <4>1, <4>2, <4>3
    <3>. QED
      BY <2>1, <3>1
  <2>4. /\ \A u \in Tasks : u # item => (Passed(u)' <=> Passed(u))
        /\ \A u \in Tasks : u = item => ~Passed(u)'
        /\ bpc' = "idle"
    BY <1>t, <2>1, <2>2, <2>3, PassedFinish DEF Fail, Finish
  <2>5. /\ tinfo' = [tinfo EXCEPT ![item] = NULL] /\ listed' = listed \ {tinfo[item]}
        /\ ready' = ready \ {tinfo[item]}
    BY <1>t, <2>1, ExitFpgaEffect, Zenon DEF Fail
  <2>6. \A u \in Tasks : tinfo'[u] = IF u = item THEN NULL ELSE tinfo[u]
    BY <1>t, <2>1, <2>5
  <2>7. item \in Tasks
    BY <2>1
  <2>. QED
    BY <1>t, <2>4, <2>5, <2>6, <2>7 DEF PassedInv
<1>4. CASE LoadDone
  <2>1. /\ Loading /\ bpc = "head" /\ item \in Tasks /\ chip = file[item].numchip
        /\ Finish(0) /\ ready' = ready \cup {binfo} /\ tinfo' = tinfo /\ listed' = listed
        /\ bpc' = "idle"
    BY <1>4, <1>t DEF LoadDone, BkAt, ItemValid, Loading, BkFile, Finish, ExecInv, TypeOK
  <2>2. chip > 0
    BY <1>t, <2>1 DEF QueueInv, Pending
  <2>3. binfo \in listed /\ tinfo[item] = binfo /\ \A u \in Tasks : tinfo[u] = binfo => u = item
    BY <1>t, <2>1, <2>2 DEF BkInv, ListInv, InfoInv
  <2>4. \A u \in Tasks : u # item => (Passed(u)' <=> Passed(u))
    BY <1>t, <2>1, PassedFinish
  <2>. QED
    BY <2>1, <2>3, <2>4 DEF PassedInv
<1>5. CASE \/ Dequeue \/ NextRegion \/ Reserve \/ ListRegion
           \/ Configure \/ BkKilled
  <2>1. /\ tinfo' = tinfo /\ listed \subseteq listed' /\ ready' = ready /\ bpc' # "head"
        /\ pc' = pc /\ file' = file /\ loaderr' = loaderr
    BY <1>5 DEF Dequeue, NextRegion, Reserve, ListRegion, Configure,
                BkKilled, taskVars, infoVars
  <2>2. \A u \in Tasks : Passed(u)' <=> Passed(u)
    BY <2>1 DEF Passed
  <2>. QED
    BY <2>1, <2>2, PassedFrame
<1>6. CASE Configured \/ ConfigureFailsPositive
  <2>1. /\ tinfo' = tinfo /\ listed' = listed /\ ready' = ready /\ chip' = chip + 1
        /\ pc' = pc /\ file' = file /\ loaderr' = loaderr
    BY <1>6 DEF Configured, ConfigureFailsPositive, Activate, taskVars, infoVars
  <2>2. \A u \in Tasks : Passed(u)' <=> Passed(u)
    BY <2>1 DEF Passed
  <2>3. chip' # 0
    BY <1>t, <2>1
  <2>. QED
    BY <2>1, <2>2, <2>3, PassedFrame
<1>7. CASE UNCHANGED <<taskVars, execq, bkVars, infoVars, hwVars>>
  BY <1>7, <1>r DEF taskVars, bkVars, bkRest, infoVars, Passed, PassedInv
<1>. QED
  BY <1>1, <1>2, <1>3, <1>4, <1>5, <1>6, <1>7
  DEF Next, BkLoad, FailStep, BkUsesFreed, vars

(* Without signals and with complete chains, an exec that goes on to the   *)
(* ELF image is no longer on bkexecd's hands and has its region listed and *)
(* its borph_info complete: for any tasks, forks, execs by tasks that have *)
(* hardware, failing reads and bad bitstreams, with or without preemption. *)
THEOREM HwLoadedBeforeElfCorrect ==
  ASSUME "signal" \notin Env, CompleteChains PROVE Spec => []HwLoadedBeforeElf
<1>1. Init => PassedInv
  BY DEF Init, PassedInv, Passed
<1>2. WaitInv /\ PassedInv /\ [Next]_vars => PassedInv'
  BY PassedStepInv
<1>3. WaitInv /\ PassedInv => HwLoadedBeforeElf
  BY DEF WaitInv, QueueInv, PassedInv, Passed, HwLoadedBeforeElf
<1>4. Spec => []WaitInv
  BY QueueCorrect
<1>. QED
  BY <1>1, <1>2, <1>3, <1>4, PTL DEF Spec

-----------------------------------------------------------------------------
(* Possession: who has passed the look at load_err, or runs, keeps the     *)
(* FPGA.                                                                   *)

(* A task step does not take the item from bkexecd.                        *)
LEMMA TaskStepItem ==
  ASSUME "signal" \notin Env, WaitInv, NEW t \in Tasks, TaskStep(t)
  PROVE  item' = item
<1>t. ExecInv /\ BkInv /\ QueueInv /\ loaderr \in [Tasks -> Int]
  BY DEF WaitInv, ExecInv, TypeOK
<1>e. ASSUME pc[t] \in {"woken", "readelf"}, EndExec(t) PROVE item' = item
  BY <1>t, <1>e DEF QueueInv, Pending, EndExec
<1>f. ASSUME pc[t] \in {"woken", "readelf"}, NEW e \in Int, ExecFails(t, e)
      PROVE  item' = item
  BY <1>e, <1>f DEF ExecFails
<1>1. CASE Spawn(t) \/ GoToSleep(t) \/ Exit(t)
  BY <1>1 DEF Spawn, GoToSleep, Exit, bkVars
<1>2. ASSUME NEW c \in Tasks, Fork(t, c) PROVE item' = item
  BY <1>2 DEF Fork, bkVars
<1>3. ASSUME NEW f \in Files, LoadBof(t, f) PROVE item' = item
  BY <1>3 DEF LoadBof, bkVars
<1>4. CASE Resume(t)
  BY <1>4, <1>t, <1>f DEF Resume, At
<1>5. CASE ReadElf(t)
  BY <1>5, <1>e DEF ReadElf, At
<1>6. CASE ReadElfFails(t)
  BY <1>6, <1>f DEF ReadElfFails, At, ENOEXEC
<1>. QED
  BY <1>1, <1>2, <1>3, <1>4, <1>5, <1>6 DEF TaskStep, ExecStep, Signal

Holds(t) ==
  /\ tinfo[t] \in listed \cap ready
  /\ hwtask = t /\ active = 1
  /\ power /\ design = tinfo[t]

(* The program of the task relies on the FPGA, or is about to.             *)
Relies(t) == prog[t] = "hw" \/ Passed(t)

(* What a load has done so far is there.                                   *)
ProgressInv == Loading =>
  /\ bpc \in {"strtab", "ioreg", "config"} => hwtask = item
  /\ bpc = "config" => power
  /\ bpc \in {"head", "readhdr"} /\ chip > 0 =>
       hwtask = item /\ active = 1 /\ power /\ design = binfo

KeepInv ==
  /\ \A t \in Tasks : Relies(t) => Holds(t)
  /\ \A t \in Tasks : prog[t] = "hw" => pc[t] = "user"
  /\ ProgressInv

LEMMA KeepFrame ==
  ASSUME KeepInv, \A t \in Tasks : Relies(t)' => Relies(t),
         \A t \in Tasks : Relies(t) => tinfo'[t] = tinfo[t],
         \A t \in Tasks : prog'[t] = "hw" => pc'[t] = "user",
         listed \subseteq listed', ready \subseteq ready',
         UNCHANGED <<hwtask, active, power, design>>, ProgressInv'
  PROVE  KeepInv'
<1>1. ASSUME NEW t \in Tasks, Relies(t)' PROVE Holds(t)'
  <2>1. Holds(t) /\ tinfo'[t] = tinfo[t]
    BY <1>1 DEF KeepInv
  <2>. QED
    BY <2>1 DEF Holds
<1>. QED
  BY <1>1 DEF KeepInv

(* When nobody relies on the FPGA, nothing is to be kept.                  *)
LEMMA KeepNobody ==
  ASSUME \A t \in Tasks : ~Relies(t)', ProgressInv'
  PROVE  KeepInv'
BY DEF KeepInv, Relies

(* borph_exit_fpga of one task leaves the FPGA to the task that relies on  *)
(* it.                                                                     *)
LEMMA KeepExitFpga ==
  ASSUME ExecInv, SoleInv, KeepInv, NEW t \in Tasks, ExitFpga(t),
         \A u \in Tasks : Relies(u)' => Relies(u) /\ u # t,
         \A u \in Tasks : prog'[u] = "hw" => pc'[u] = "user",
         ProgressInv'
  PROVE  KeepInv'
<1>t. /\ tinfo \in [Tasks -> Infos \cup {NULL}] /\ listed \subseteq Infos
      /\ NULL \notin Infos /\ \A i, j \in listed : i = j
  BY DEF ExecInv, TypeOK, Exclusive
<1>1. /\ tinfo' = [tinfo EXCEPT ![t] = NULL] /\ listed' = listed \ {tinfo[t]}
      /\ ready' = ready \ {tinfo[t]}
  BY ExitFpgaEffect, Zenon
<1>2. tinfo[t] \notin listed =>
        hwtask' = hwtask /\ active' = active /\ power' = power /\ design' = design
  BY ExitFpgaEffect, Zenon
<1>3. ASSUME NEW u \in Tasks, Relies(u)' PROVE Holds(u)'
  <2>1. Holds(u) /\ u # t
    BY <1>3 DEF KeepInv
  <2>2. tinfo[u] \in listed /\ tinfo[u] \in ready /\ tinfo[u] # NULL
    BY <1>t, <2>1 DEF Holds
  <2>3. tinfo[t] # tinfo[u]
    BY <2>1, <2>2 DEF SoleInv
  <2>4. tinfo[t] \notin listed
    BY <1>t, <2>2, <2>3
  <2>5. tinfo'[u] = tinfo[u]
    BY <1>t, <1>1, <2>1
  <2>. QED
    BY <1>1, <1>2, <2>1, <2>2, <2>3, <2>4, <2>5 DEF Holds
<1>. QED
  BY <1>3 DEF KeepInv

LEMMA KeepTaskStep ==
  ASSUME Env \cap {"signal", "fork", "reexec"} = {}, WaitInv, SoleInv, PassedInv,
         KeepInv, NEW t \in Tasks, TaskStep(t)
  PROVE  KeepInv'
<1>t. /\ tinfo \in [Tasks -> Infos \cup {NULL}] /\ listed \subseteq Infos
      /\ NULL \notin Infos /\ NULL \notin Tasks /\ pc \in [Tasks -> TaskLabels]
      /\ prog \in [Tasks -> {"sw", "hw"}] /\ file \in [Tasks -> Files \cup {NULL}]
      /\ loaderr \in [Tasks -> Int] /\ ExecInv /\ BkInv /\ QueueInv
      /\ "signal" \notin Env
  BY DEF WaitInv, ExecInv, TypeOK
<1>i. item' = item
  BY <1>t, TaskStepItem
<1>p. \A u \in Tasks : Passed(u)' => Passed(u)
  BY <1>t, PassedTaskStep
<1>1. CASE Exit(t)
  <2>1. /\ ExitFpga(t) /\ pc[t] = "user" /\ pc' = [pc EXCEPT ![t] = "none"]
        /\ prog' = [prog EXCEPT ![t] = "sw"]
        /\ bpc' = bpc /\ binfo' = binfo /\ chip' = chip
    BY <1>1 DEF Exit, At, bkVars, bkRest
  <2>2. /\ \A u \in Tasks : u # t => pc'[u] = pc[u] /\ prog'[u] = prog[u]
        /\ prog'[t] = "sw" /\ ~Passed(t)
    BY <1>t, <2>1 DEF Passed
  <2>3. \A u \in Tasks : Relies(u)' => Relies(u) /\ u # t
    BY <1>p, <2>2 DEF Relies
  <2>4. \A u \in Tasks : prog'[u] = "hw" => pc'[u] = "user"
    BY <2>2 DEF KeepInv
  <2>5. ProgressInv'
    <3>1. CASE Loading /\ (\/ bpc \in {"strtab", "ioreg", "config"}
                           \/ bpc \in {"head", "readhdr"} /\ chip > 0)
      <4>1. item # t
        BY <1>t, <2>1 DEF BkInv, BusyInv, Pending
      <4>2. tinfo[t] # binfo
        BY <1>t, <3>1, <4>1 DEF BkInv, InfoInv
      <4>3. bpc = "strtab" \/ binfo \in listed
        BY <1>t, <3>1 DEF BkInv, ListInv
      <4>4. tinfo[t] \notin listed
        BY <1>t, <4>2, <4>3 DEF ExecInv, StrtabInv, Exclusive
      <4>5. hwtask' = hwtask /\ active' = active /\ power' = power /\ design' = design
        BY <1>t, <2>1, <4>4, ExitFpgaEffect, Zenon
      <4>. QED
        BY <1>i, <2>1, <4>5 DEF KeepInv, ProgressInv, Loading
    <3>2. CASE ~(Loading /\ (\/ bpc \in {"strtab", "ioreg", "config"}
                             \/ bpc \in {"head", "readhdr"} /\ chip > 0))
      BY <1>i, <2>1, <3>2 DEF ProgressInv, Loading
    <3>. QED
      BY <3>1, <3>2
  <2>. QED
    BY <1>t, <2>1, <2>3, <2>4, <2>5, KeepExitFpga
<1>2. CASE ~Exit(t)
  <2>1. \A c \in Tasks : ~Fork(t, c)
    BY DEF Fork
  <2>2. /\ tinfo' = tinfo /\ listed' = listed /\ ready' = ready
        /\ bpc' = bpc /\ binfo' = binfo /\ chip' = chip
        /\ UNCHANGED <<hwtask, active, power, design>>
    BY <1>2, <2>1, TaskStepFrame DEF bkRest, infoVars, hwVars
  <2>3. ProgressInv'
    BY <1>i, <2>2 DEF KeepInv, ProgressInv, Loading
  <2>4. CASE ReadElf(t)
    <3>1. /\ pc[t] = "readelf" /\ EndExec(t) /\ file[t] \in Files
          /\ prog' \in {prog, [prog EXCEPT ![t] = "sw"]}
             \/ (prog' = [prog EXCEPT ![t] = "hw"] /\ file[t].numchip > 0)
      BY <1>t, <2>4 DEF ReadElf, At, BkInv, FileInv
    <3>2. \A u \in Tasks : pc'[u] = IF u = t THEN "user" ELSE pc[u]
      BY <1>t, <3>1 DEF EndExec
    <3>3. \A u \in Tasks : prog'[u] = "hw" => prog[u] = "hw" \/ (u = t /\ Passed(t))
      BY <1>t, <3>1 DEF Passed
    <3>4. \A u \in Tasks : Relies(u)' => Relies(u)
      BY <1>p, <3>3 DEF Relies
    <3>5. \A u \in Tasks : prog'[u] = "hw" => pc'[u] = "user"
      BY <3>2, <3>3 DEF KeepInv
    <3>. QED
      BY <2>2, <2>3, <3>4, <3>5, KeepFrame
  <2>5. CASE ~ReadElf(t)
    <3>1. prog' = prog /\ (pc[t] # "user" \/ tinfo[t] = NULL)
      <4>1. ASSUME NEW f \in Files, LoadBof(t, f) PROVE prog' = prog /\ tinfo[t] = NULL
        BY <4>1 DEF LoadBof
      <4>2. CASE Spawn(t) \/ GoToSleep(t)
        BY <4>2 DEF Spawn, GoToSleep, At, execVars
      <4>3. CASE Resume(t) \/ ReadElfFails(t)
        BY <4>3 DEF Resume, ReadElfFails, At
      <4>. QED
        BY <1>2, <1>t, <2>1, <2>5, <4>1, <4>2, <4>3 DEF TaskStep, ExecStep, Signal
    <3>2. prog[t] # "hw"
      BY <1>t, <3>1 DEF KeepInv, Relies, Holds
    <3>3. \A u \in Tasks : u # t => pc'[u] = pc[u]
      <4>1. ASSUME NEW f \in Files, Enter(t, f) PROVE \A u \in Tasks : u # t => pc'[u] = pc[u]
        BY <4>1, <1>t DEF Enter
      <4>2. ASSUME NEW e \in Int, ExecFails(t, e), file[t] \in Files
            PROVE  \A u \in Tasks : u # t => pc'[u] = pc[u]
        BY <4>1, <4>2, <1>t DEF ExecFails, EndExec
      <4>3. ASSUME NEW f \in Files, LoadBof(t, f)
            PROVE  \A u \in Tasks : u # t => pc'[u] = pc[u]
        BY <4>3, <4>1 DEF LoadBof
      <4>4. CASE Spawn(t) \/ GoToSleep(t)
        BY <4>4, <1>t DEF Spawn, GoToSleep
      <4>5. CASE Resume(t)
        BY <4>5, <4>2, <1>t DEF Resume, At, BkInv, FileInv
      <4>6. CASE ReadElfFails(t)
        BY <4>6, <4>2, <1>t DEF ReadElfFails, At, ENOEXEC, BkInv, FileInv
      <4>. QED
        BY <1>2, <1>t, <2>1, <2>5, <4>3, <4>4, <4>5, <4>6 DEF TaskStep, ExecStep, Signal
    <3>4. \A u \in Tasks : prog'[u] = "hw" => pc'[u] = "user"
      BY <3>1, <3>2, <3>3 DEF KeepInv
    <3>5. \A u \in Tasks : Relies(u)' => Relies(u)
      BY <1>p, <3>1 DEF Relies
    <3>. QED
      BY <2>2, <2>3, <3>4, <3>5, KeepFrame
  <2>. QED
    BY <2>4, <2>5
<1>. QED
  BY <1>1, <1>2

LEMMA KeepStepInv ==
  ASSUME Env \cap {"signal", "fork", "reexec", "badbits"} = {}, CompleteChains,
         WaitInv, SoleInv, PassedInv, KeepInv, [Next]_vars
  PROVE  KeepInv'
<1>t. /\ tinfo \in [Tasks -> Infos \cup {NULL}] /\ listed \subseteq Infos
      /\ NULL \notin Infos /\ NULL \notin Tasks /\ chip \in Nat
      /\ item \in Tasks \cup {NULL} /\ ExecInv /\ BkInv /\ QueueInv
      /\ "signal" \notin Env
  BY DEF WaitInv, ExecInv, TypeOK
<1>p. PassedInv'
  BY <1>t, PassedStepInv
(* The task bkexecd works for waits: it does not rely on the FPGA yet.     *)
<1>i. item \in Tasks => ~Relies(item)
  BY <1>t DEF QueueInv, Pending, Relies, Passed, KeepInv
(* Nobody relies on the FPGA from reserve_hwr to the end of the load.      *)
<1>n. ASSUME Loading, count = -1 \/ binfo \in listed PROVE \A u \in Tasks : ~Relies(u)
  <2>1. CASE count = -1
    BY <1>t, <2>1 DEF ExecInv, Exclusive, KeepInv, Holds
  <2>2. CASE binfo \in listed
    <3>. SUFFICES ASSUME NEW u \in Tasks, Relies(u) PROVE FALSE
      OBVIOUS
    <3>1. tinfo[u] \in listed
      BY DEF KeepInv, Holds
    <3>2. tinfo[u] = binfo
      BY <1>t, <2>2, <3>1 DEF ExecInv, Exclusive
    <3>3. u = item
      BY <1>n, <1>t, <3>2 DEF BkInv, InfoInv
    <3>. QED
      BY <1>i, <3>3
  <2>. QED
    BY <1>n, <2>1, <2>2
<1>1. ASSUME NEW t \in Tasks, TaskStep(t) PROVE KeepInv'
  BY <1>1, KeepTaskStep
<1>f. ASSUME UNCHANGED <<pc, prog, file, loaderr>>
      PROVE  \A u \in Tasks : Relies(u)' <=> Relies(u)
  BY <1>f DEF Relies, Passed
<1>2. CASE AllocInfo
  <2>1. PICK i \in Infos : tinfo' = [tinfo EXCEPT ![item] = i]
    BY <1>2 DEF AllocInfo
  <2>2. /\ UNCHANGED <<pc, prog, file, loaderr, hwtask, active, power, design>>
        /\ listed' = listed /\ ready' = ready /\ item \in Tasks /\ item' = item
        /\ bpc' = "head" /\ chip' = 0
    BY <1>2, <1>t DEF AllocInfo, BkAt, ItemValid, execVars, hwVars
  <2>3. \A u \in Tasks : Relies(u) => tinfo'[u] = tinfo[u]
    BY <1>i, <1>t, <2>1, <2>2
  <2>4. ProgressInv'
    BY <2>2 DEF ProgressInv
  <2>5. \A u \in Tasks : prog'[u] = "hw" => pc'[u] = "user"
    BY <2>2 DEF KeepInv
  <2>. QED
    BY <1>f, <2>2, <2>3, <2>4, <2>5, KeepFrame
<1>3. CASE FailStep
  <2>1. PICK r \in Int : Fail(r) /\ item \in Tasks
    BY <1>t, <1>3, FailStepFails
  <2>2. /\ ExitFpga(item) /\ Finish(r) /\ bpc' = "idle" /\ prog' = prog
    BY <2>1 DEF Fail, Finish, execVars
  <2>3. \A u \in Tasks : u # item => (Passed(u)' <=> Passed(u))
    BY <1>t, <2>1, <2>2, PassedFinish
  <2>4. tinfo' = [tinfo EXCEPT ![item] = NULL]
    BY <1>t, <2>1, <2>2, ExitFpgaEffect, Zenon
  <2>5. \A u \in Tasks : u = item => ~Passed(u)'
    <3>. SUFFICES ASSUME NEW u \in Tasks, u = item, Passed(u)' PROVE FALSE
      OBVIOUS
    <3>1. tinfo'[u] \in listed'
      BY <1>p DEF PassedInv
    <3>2. tinfo'[u] = NULL
      BY <1>t, <2>4
    <3>3. listed' \subseteq listed
      BY <1>t, <2>1, <2>2, ExitFpgaEffect, Zenon
    <3>. QED
      BY <1>t, <3>1, <3>2, <3>3
  <2>6. \A u \in Tasks : Relies(u)' => Relies(u) /\ u # item
    BY <1>i, <2>2, <2>3, <2>5 DEF Relies
  <2>7. \A u \in Tasks : prog'[u] = "hw" => pc'[u] = "user"
    <3>1. pc' = [pc EXCEPT ![item] = IF pc[item] = "asleep" THEN "woken" ELSE pc[item]]
      BY <1>t, <2>1, <2>2, FinishEffect, Zenon
    <3>2. \A u \in Tasks : u # item => pc'[u] = pc[u]
      BY <1>t, <3>1 DEF ExecInv, TypeOK
    <3>. QED
      BY <1>i, <2>2, <3>2 DEF KeepInv, Relies
  <2>8. ProgressInv'
    BY <2>2 DEF ProgressInv, Loading
  <2>. QED
    BY <1>t, <2>1, <2>2, <2>6, <2>7, <2>8, KeepExitFpga
<1>4. CASE LoadDone
  <2>1. /\ Loading /\ bpc = "head" /\ item \in Tasks /\ chip = file[item].numchip
        /\ Finish(0) /\ ready' = ready \cup {binfo} /\ tinfo' = tinfo /\ listed' = listed
        /\ UNCHANGED <<hwtask, active, power, design>> /\ bpc' = "idle" /\ prog' = prog
    BY <1>4, <1>t DEF LoadDone, BkAt, ItemValid, Loading, BkFile, Finish, execVars, hwVars
  <2>2. chip > 0
    BY <1>t, <2>1 DEF QueueInv, Pending
  <2>3. hwtask = item /\ active = 1 /\ power /\ design = binfo
    BY <2>1, <2>2 DEF KeepInv, ProgressInv
  <2>4. binfo \in listed /\ tinfo[item] = binfo
    BY <1>t, <2>1, <2>2 DEF BkInv, ListInv, InfoInv
  <2>5. \A u \in Tasks : ~Relies(u)
    BY <1>n, <2>1, <2>4
  <2>6. \A u \in Tasks : Relies(u)' => u = item
    BY <1>t, <2>1, <2>5, PassedFinish DEF Relies
  <2>7. \A u \in Tasks : u = item => Holds(u)'
    BY <2>1, <2>3, <2>4 DEF Holds
  <2>8. ProgressInv'
    BY <2>1 DEF ProgressInv, Loading
  <2>9. \A u \in Tasks : prog'[u] # "hw"
    BY <2>1, <2>5 DEF Relies
  <2>. QED
    BY <2>6, <2>7, <2>8, <2>9 DEF KeepInv
<1>5. CASE Dequeue \/ NextRegion \/ ListRegion \/ BkKilled
  <2>1. /\ UNCHANGED <<pc, prog, file, loaderr, tinfo, hwtask, active, power, design>>
        /\ listed \subseteq listed' /\ ready' = ready
    BY <1>5 DEF Dequeue, NextRegion, ListRegion, BkKilled, taskVars, infoVars, hwVars
  <2>2. \A u \in Tasks : prog'[u] = "hw" => pc'[u] = "user"
    BY <2>1 DEF KeepInv
  <2>3. ProgressInv'
    BY <1>5, <2>1 DEF Dequeue, NextRegion, ListRegion, BkKilled, BkAt, ItemValid,
                      KeepInv, ProgressInv, Loading
  <2>. QED
    BY <1>f, <2>1, <2>2, <2>3, KeepFrame
<1>6. CASE Reserve
  <2>1. /\ Loading /\ count = -1 /\ UNCHANGED <<pc, prog, file, loaderr>>
        /\ bpc' = "strtab" /\ hwtask' = item /\ item' = item
    BY <1>6 DEF Reserve, CanReserve, BkAt, ItemValid, Loading, taskVars
  <2>2. \A u \in Tasks : ~Relies(u)'
    BY <1>n, <1>f, <2>1
  <2>3. ProgressInv'
    BY <2>1 DEF ProgressInv
  <2>. QED
    BY <2>2, <2>3, KeepNobody
<1>7. CASE Configure
  <2>1. /\ Loading /\ bpc = "ioreg" /\ UNCHANGED <<pc, prog, file, loaderr>>
        /\ bpc' = "config" /\ hwtask' = hwtask /\ item' = item /\ power' = TRUE
    BY <1>7 DEF Configure, BkAt, ItemValid, Loading, taskVars
  <2>2. binfo \in listed
    BY <1>t, <2>1 DEF BkInv, ListInv
  <2>3. \A u \in Tasks : ~Relies(u)'
    BY <1>n, <1>f, <2>1, <2>2
  <2>4. ProgressInv'
    BY <2>1 DEF ProgressInv, KeepInv
  <2>. QED
    BY <2>3, <2>4, KeepNobody
<1>8. CASE Configured
  <2>1. /\ Loading /\ bpc = "config" /\ UNCHANGED <<pc, prog, file, loaderr>>
        /\ bpc' = "head" /\ hwtask' = hwtask /\ item' = item /\ power' = power
        /\ active' = 1 /\ design' = binfo /\ binfo' = binfo
    BY <1>8 DEF Configured, Activate, BkAt, ItemValid, Loading, taskVars
  <2>2. binfo \in listed
    BY <1>t, <2>1 DEF BkInv, ListInv
  <2>3. \A u \in Tasks : ~Relies(u)'
    BY <1>n, <1>f, <2>1, <2>2
  <2>4. ProgressInv'
    BY <2>1 DEF ProgressInv, KeepInv
  <2>. QED
    BY <2>3, <2>4, KeepNobody
<1>9. CASE UNCHANGED <<taskVars, execq, bkVars, infoVars, hwVars>>
  BY <1>9 DEF taskVars, bkVars, bkRest, infoVars, hwVars, KeepInv, Relies, Passed,
              Holds, ProgressInv, Loading
<1>. QED
  BY <1>1, <1>2, <1>3, <1>4, <1>5, <1>6, <1>7, <1>8, <1>9
  DEF Next, BkLoad, FailStep, BkUsesFreed, ConfigureFailsPositive, vars

(* A task whose program came with hardware keeps it until it exits, with   *)
(* the FPGA powered, active and carrying its own design, whatever the      *)
(* loads of other tasks do and however they fail: for any tasks and files  *)
(* with complete chains, without signals, forks, bad bitstreams and execs  *)
(* of BOF files by tasks that have hardware.                               *)
THEOREM RunningKeepsFpgaCorrect ==
  ASSUME Env \cap {"signal", "fork", "reexec", "badbits"} = {}, CompleteChains
  PROVE  Spec => []RunningKeepsFpga
<1>. DEFINE IInv == SoleInv /\ PassedInv /\ KeepInv
<1>0. "signal" \notin Env /\ "fork" \notin Env
  OBVIOUS
<1>1. Init => IInv
  BY DEF Init, SoleInv, PassedInv, KeepInv, Relies, Passed, ProgressInv, Loading
<1>2. WaitInv /\ IInv /\ [Next]_vars => IInv'
  BY <1>0, SoleStepInv, PassedStepInv, KeepStepInv
<1>3. IInv => RunningKeepsFpga
  BY DEF KeepInv, Relies, Holds, RunningKeepsFpga
<1>4. Spec => []WaitInv
  BY <1>0, QueueCorrect
<1>. HIDE DEF IInv
<1>. QED
  BY <1>1, <1>2, <1>3, <1>4, PTL DEF Spec

-----------------------------------------------------------------------------
(* The region is not lost.                                                 *)

(* Every hwrhdr has a string table that can be used.                       *)
UsableStrtabs == \A f \in Files : \A k \in DOMAIN f.hwr : f.hwr[k].strtab

(* No file stores in load_err the error that makes exec try again.         *)
NoStoredRetry == \A f \in Files : f.err # -ENOEXEC

(* A reserved region is on somebody's list, or on its way there; a task    *)
(* waits for its load without a borph_info, and one that is gone has none. *)
HeldInv ==
  /\ count # -1 => listed # {} \/ bpc = "strtab"
  /\ \A i \in listed : \E t \in Tasks : tinfo[t] = i
  /\ \A t \in Tasks : Pending(t) /\ ~(Loading /\ item = t) => tinfo[t] = NULL
  /\ \A t \in Tasks : pc[t] = "none" => tinfo[t] = NULL

(* An exec that will try again has no borph_info.                          *)
RetryInv == \A t \in Tasks : pc[t] = "woken" /\ loaderr[t] = -ENOEXEC => tinfo[t] = NULL

(* bkexecd works on the only item of a task.                               *)
SoleItem == item # NULL => ~Queued(item)

LEMMA HeldExitFpga ==
  ASSUME ExecInv, HeldInv, NEW t \in Tasks, ExitFpga(t)
  PROVE  /\ \A u \in Tasks : tinfo'[u] = IF u = t THEN NULL ELSE tinfo[u]
         /\ \A i \in listed' : \E u \in Tasks : tinfo'[u] = i
         /\ bpc # "strtab" => (count' # -1 => listed' # {})
         /\ bpc' = bpc => (count' # -1 => listed' # {} \/ bpc' = "strtab")
<1>t. tinfo \in [Tasks -> Infos \cup {NULL}] /\ count \in Int
  BY DEF ExecInv, TypeOK
<1>1. tinfo' = [tinfo EXCEPT ![t] = NULL] /\ listed' = listed \ {tinfo[t]}
  BY ExitFpgaEffect, Zenon
<1>2. tinfo[t] \in listed => count' = -1
  BY ExitFpgaEffect, Zenon
<1>3. tinfo[t] \notin listed => count' = count
  BY ExitFpgaEffect, Zenon
<1>4. \A u \in Tasks : tinfo'[u] = IF u = t THEN NULL ELSE tinfo[u]
  BY <1>t, <1>1
<1>5. \A i \in listed' : \E u \in Tasks : tinfo'[u] = i
  BY <1>1, <1>4 DEF HeldInv
<1>6. tinfo[t] \notin listed => listed' = listed
  BY <1>1
<1>7. count' # -1 => listed' # {} \/ bpc = "strtab"
  BY <1>2, <1>3, <1>6 DEF HeldInv
<1>. QED
  BY <1>4, <1>5, <1>7

LEMMA HeldTaskStep ==
  ASSUME Env \cap {"reexec", "elf_err"} = {}, ExecInv, BkInv, RetryInv, HeldInv,
         NEW t \in Tasks, TaskStep(t)
  PROVE  HeldInv'
<1>t. /\ tinfo \in [Tasks -> Infos \cup {NULL}] /\ pc \in [Tasks -> TaskLabels]
      /\ file \in [Tasks -> Files \cup {NULL}] /\ loaderr \in [Tasks -> Int]
      /\ NULL \notin Tasks
  BY DEF ExecInv, TypeOK
(* What a step that touches no borph_info has to show.                     *)
<1>f. ASSUME UNCHANGED <<tinfo, bkRest, infoVars, hwVars>>,
             item' = item \/ (item = t /\ item' = NULL /\ ~Pending(t)'),
             \A u \in Tasks : Pending(u)' /\ ~Pending(u) => tinfo[u] = NULL,
             \A u \in Tasks : pc'[u] = "none" => pc[u] = "none"
      PROVE  HeldInv'
  <2>1. /\ tinfo' = tinfo /\ listed' = listed /\ count' = count /\ bpc' = bpc
        /\ item' = item => (Loading <=> Loading')
    BY <1>f DEF bkRest, infoVars, hwVars, Loading
  <2>2. ASSUME NEW u \in Tasks, Pending(u)', ~(Loading' /\ item' = u)
        PROVE  tinfo'[u] = NULL
    BY <1>f, <2>1, <2>2 DEF HeldInv
  <2>. QED
    BY <1>f, <2>1, <2>2 DEF HeldInv
<1>e. ASSUME NEW f \in Files, Enter(t, f), tinfo[t] = NULL, item' = item,
             UNCHANGED <<tinfo, bkRest, infoVars, hwVars>>
      PROVE  HeldInv'
  <2>1. /\ \A u \in Tasks : Pending(u)' => Pending(u) \/ u = t
        /\ \A u \in Tasks : u # t => pc'[u] = pc[u]
        /\ pc'[t] # "none"
    BY <1>e, <1>t, EnterEffect
  <2>. QED
    BY <1>e, <1>f, <2>1
<1>x. ASSUME EndExec(t), UNCHANGED <<tinfo, bkRest, infoVars, hwVars>> PROVE HeldInv'
  <2>1. /\ \A u \in Tasks : Pending(u)' <=> Pending(u) /\ u # t
        /\ item' = IF item = t THEN NULL ELSE item
    BY <1>x, EndExecEffect
  <2>2. /\ \A u \in Tasks : u # t => pc'[u] = pc[u]
        /\ pc'[t] = "user"
    BY <1>t, <1>x DEF EndExec
  <2>. QED
    BY <1>f, <1>x, <2>1, <2>2
<1>1. CASE Spawn(t) \/ GoToSleep(t) \/ Signal(t)
  <2>1. /\ UNCHANGED <<tinfo, bkRest, infoVars, hwVars>>
        /\ execq' = execq /\ item' = item
        /\ \E l \in {"user", "asleep", "woken"} : pc' = [pc EXCEPT ![t] = l]
    BY <1>1 DEF Spawn, GoToSleep, Signal, bkVars
  <2>2. \A u \in Tasks : Pending(u)' <=> Pending(u)
    BY <2>1 DEF Pending
  <2>. QED
    BY <1>f, <1>t, <2>1, <2>2
<1>2. ASSUME NEW c \in Tasks, Fork(t, c) PROVE HeldInv'
  <2>1. /\ tinfo' = [tinfo EXCEPT ![c] = tinfo[t]] /\ pc' = [pc EXCEPT ![c] = "user"]
        /\ pc[c] = "none" /\ UNCHANGED <<execq, bkVars, infoVars, hwVars>>
    BY <1>2 DEF Fork, At
  <2>2. /\ listed' = listed /\ count' = count /\ bpc' = bpc /\ item' = item
        /\ (Loading <=> Loading')
        /\ \A u \in Tasks : Pending(u)' <=> Pending(u)
    BY <2>1 DEF bkVars, bkRest, infoVars, hwVars, Loading, Pending
  <2>3. tinfo[c] = NULL /\ ~Pending(c)
    BY <2>1 DEF HeldInv, BkInv, BusyInv
  <2>4. \A u \in Tasks : /\ tinfo'[u] = IF u = c THEN tinfo[t] ELSE tinfo[u]
                         /\ pc'[u] = IF u = c THEN "user" ELSE pc[u]
    BY <1>t, <2>1
  <2>5. \A i \in listed : \E u \in Tasks : tinfo'[u] = i
    <3>. SUFFICES ASSUME NEW i \in listed PROVE \E u \in Tasks : tinfo'[u] = i
      OBVIOUS
    <3>1. PICK u \in Tasks : tinfo[u] = i
      BY DEF HeldInv
    <3>2. i # NULL
      BY DEF ExecInv, TypeOK
    <3>. QED
      BY <2>3, <2>4, <3>1, <3>2
  <2>. QED
    BY <2>2, <2>3, <2>4, <2>5 DEF HeldInv
<1>3. CASE Exit(t)
  <2>1. /\ ExitFpga(t) /\ pc' = [pc EXCEPT ![t] = "none"]
        /\ bpc' = bpc /\ item' = item /\ execq' = execq
    BY <1>3 DEF Exit, bkVars, bkRest
  <2>2. /\ (Loading <=> Loading') /\ \A u \in Tasks : Pending(u)' <=> Pending(u)
    BY <2>1 DEF Loading, Pending
  <2>3. \A u \in Tasks : u # t => pc'[u] = pc[u]
    BY <1>t, <2>1
  <2>4. /\ \A u \in Tasks : tinfo'[u] = IF u = t THEN NULL ELSE tinfo[u]
        /\ \A i \in listed' : \E u \in Tasks : tinfo'[u] = i
        /\ count' # -1 => listed' # {} \/ bpc' = "strtab"
    BY <2>1, HeldExitFpga
  <2>. QED
    BY <2>1, <2>2, <2>3, <2>4 DEF HeldInv
<1>4. ASSUME NEW f \in Files, LoadBof(t, f) PROVE HeldInv'
  <2>1. /\ Enter(t, f) /\ tinfo[t] = NULL /\ item' = item
        /\ UNCHANGED <<tinfo, bkRest, infoVars, hwVars>>
    BY <1>4 DEF LoadBof, bkVars
  <2>. QED
    BY <1>e, <2>1
<1>5. CASE Resume(t)
  <2>1. pc[t] = "woken" /\ UNCHANGED <<tinfo, bkRest, infoVars, hwVars>>
    BY <1>5 DEF Resume, At
  <2>2. CASE loaderr[t] = 0
    <3>1. pc' = [pc EXCEPT ![t] = "readelf"] /\ item' = item /\ execq' = execq
      BY <1>5, <2>2 DEF Resume
    <3>2. \A u \in Tasks : Pending(u)' <=> Pending(u)
      BY <3>1 DEF Pending
    <3>. QED
      BY <1>f, <1>t, <2>1, <3>1, <3>2
  <2>3. CASE loaderr[t] # 0
    <3>1. ExecFails(t, loaderr[t]) /\ file[t] \in Files /\ loaderr[t] \in Int
      BY <1>5, <1>t, <2>1, <2>3 DEF Resume, BkInv, FileInv
    <3>2. CASE EndExec(t)
      BY <1>x, <2>1, <3>2
    <3>3. CASE loaderr[t] = -ENOEXEC /\ item' = item /\ Enter(t, file[t])
      <4>1. tinfo[t] = NULL
        BY <2>1, <3>3 DEF RetryInv
      <4>. QED
        BY <1>e, <2>1, <3>1, <3>3, <4>1
    <3>. QED
      BY <3>1, <3>2, <3>3, ExecFailsEffect
  <2>. QED
    BY <2>2, <2>3
<1>6. CASE ReadElf(t)
  BY <1>6, <1>x DEF ReadElf
<1>. QED
  BY <1>1, <1>2, <1>3, <1>4, <1>5, <1>6 DEF TaskStep, ExecStep, ReadElfFails

(* The end of a load whose task has no second item.                        *)
LEMMA SoleFinish ==
  ASSUME ExecInv, BkInv, SoleItem, item \in Tasks, NEW r \in Int, Finish(r)
  PROVE  /\ \A u \in Tasks : Pending(u)' => Pending(u) /\ u # item
         /\ \A u \in Tasks : u # item => pc'[u] = pc[u] /\ loaderr'[u] = loaderr[u]
         /\ pc'[item] # "none" /\ loaderr'[item] = r
         /\ bpc' = "idle" /\ item' = NULL /\ execq' = execq /\ retval' = 0
<1>t. pc \in [Tasks -> TaskLabels] /\ loaderr \in [Tasks -> Int] /\ NULL \notin Tasks
  BY DEF ExecInv, TypeOK
<1>1. /\ loaderr' = [loaderr EXCEPT ![item] = r]
      /\ pc' = [pc EXCEPT ![item] = IF pc[item] = "asleep" THEN "woken" ELSE pc[item]]
      /\ execq' = execq /\ bpc' = "idle" /\ item' = NULL /\ retval' = 0
  BY FinishEffect, Zenon
<1>2. \A u \in Tasks : Pending(u)' => Pending(u) /\ u # item
  BY <1>t, <1>1 DEF SoleItem, Queued, Pending
<1>3. pc[item] # "none"
  BY <1>t DEF BkInv, BusyInv, Pending
<1>. QED
  BY <1>t, <1>1, <1>2, <1>3

(* A load that fails has no region that is not on the list.                *)
LEMMA FailNotStrtab ==
  ASSUME "strtab_err" \notin Env, UsableStrtabs, ExecInv, BkInv, FailStep
  PROVE  bpc # "strtab" /\ ~StrtabBad
<1>1. ~StrtabBad
  <2>. SUFFICES ASSUME BkAt("strtab"), ~Hdr.strtab PROVE FALSE
    BY DEF StrtabBad
  <2>0. item \in Tasks /\ NULL \notin Tasks /\ chip \in Nat
    BY DEF BkAt, ItemValid, ExecInv, TypeOK
  <2>1. Loading /\ bpc = "strtab" /\ file[item] \in Files
    BY <2>0 DEF BkAt, ItemValid, Loading, BkInv, BusyInv, Pending, FileInv
  <2>2. chip < Len(file[item].hwr) /\ file[item].hwr \in Seq(HwrHdr)
    BY <2>1, BofExecAssumption DEF BkInv, FileInv, BofFile
  <2>3. chip + 1 \in DOMAIN file[item].hwr
    BY <2>0, <2>2
  <2>. QED
    BY <2>1, <2>3 DEF UsableStrtabs, Hdr, BkFile
<1>. QED
  BY <1>1 DEF FailStep, InvalidBof, ReadHdrFails, ReserveFails, ReadStrtabFails,
              ReadIoregFails, ConfigureFails, BkAt

LEMMA HeldStepInv ==
  ASSUME Env \cap {"reexec", "elf_err", "strtab_err"} = {}, UsableStrtabs,
         ExecInv, BkInv, RetryInv, SoleItem, HeldInv, [Next]_vars
  PROVE  HeldInv'
<1>t. /\ tinfo \in [Tasks -> Infos \cup {NULL}] /\ item \in Tasks \cup {NULL}
      /\ NULL \notin Tasks /\ listed \subseteq Infos /\ NULL \notin Infos
  BY DEF ExecInv, TypeOK
<1>1. ASSUME NEW t \in Tasks, TaskStep(t) PROVE HeldInv'
  BY <1>1, HeldTaskStep
<1>2. CASE AllocInfo
  <2>1. PICK i \in Infos : /\ \A t \in Tasks : tinfo[t] # i
                           /\ tinfo' = [tinfo EXCEPT ![item] = i]
    BY <1>2 DEF AllocInfo
  <2>2. /\ item \in Tasks /\ pc' = pc /\ execq' = execq
        /\ item' = item /\ listed' = listed /\ count' = count
        /\ bpc = "alloc" /\ bpc' = "head"
    BY <1>2, <1>t DEF AllocInfo, BkAt, ItemValid, hwVars
  <2>3. ~Loading /\ Loading' /\ Pending(item) /\ \A u \in Tasks : Pending(u)' <=> Pending(u)
    BY <1>t, <2>2 DEF Loading, Pending
  <2>4. tinfo[item] = NULL /\ pc[item] # "none"
    BY <2>2, <2>3 DEF HeldInv, BkInv, BusyInv
  <2>5. \A u \in Tasks : tinfo'[u] = IF u = item THEN i ELSE tinfo[u]
    BY <1>t, <2>1
  <2>6. \A j \in listed : \E u \in Tasks : tinfo'[u] = j
    <3>. SUFFICES ASSUME NEW j \in listed PROVE \E u \in Tasks : tinfo'[u] = j
      OBVIOUS
    <3>1. PICK u \in Tasks : tinfo[u] = j
      BY DEF HeldInv
    <3>. QED
      BY <1>t, <2>4, <2>5, <3>1
  <2>. QED
    BY <2>2, <2>3, <2>4, <2>5, <2>6 DEF HeldInv
<1>3. CASE FailStep
  <2>1. PICK r \in Int : Fail(r) /\ item \in Tasks
    BY <1>3, FailStepFails
  <2>2. bpc # "strtab"
    BY <1>3, FailNotStrtab
  <2>3. /\ \A u \in Tasks : tinfo'[u] = IF u = item THEN NULL ELSE tinfo[u]
        /\ \A i \in listed' : \E u \in Tasks : tinfo'[u] = i
        /\ count' # -1 => listed' # {}
    BY <2>1, <2>2, HeldExitFpga DEF Fail
  <2>4. /\ \A u \in Tasks : Pending(u)' => Pending(u) /\ u # item
        /\ \A u \in Tasks : u # item => pc'[u] = pc[u]
    BY <2>1, SoleFinish DEF Fail
  <2>. QED
    BY <2>3, <2>4 DEF HeldInv
<1>4. CASE LoadDone
  <2>1. /\ bpc = "head" /\ item \in Tasks /\ Finish(0) /\ tinfo' = tinfo
        /\ listed' = listed /\ count' = count
    BY <1>4, <1>t DEF LoadDone, BkAt, ItemValid, hwVars
  <2>2. /\ \A u \in Tasks : Pending(u)' => Pending(u) /\ u # item
        /\ \A u \in Tasks : u # item => pc'[u] = pc[u]
        /\ pc'[item] # "none"
    BY <2>1, SoleFinish
  <2>. QED
    BY <2>1, <2>2 DEF HeldInv
<1>5. CASE Dequeue
  <2>1. /\ bpc = "idle" /\ bpc' = "alloc" /\ pc' = pc
        /\ tinfo' = tinfo /\ listed' = listed /\ count' = count
    BY <1>5 DEF Dequeue, taskVars, infoVars, hwVars
  <2>2. \A u \in Tasks : Pending(u)' => Pending(u)
    BY <1>5, DequeueEffect
  <2>. QED
    BY <2>1, <2>2 DEF HeldInv, Loading
<1>6. CASE NextRegion \/ Reserve \/ Configure \/ Configured \/ ConfigureFailsPositive
  <2>1. /\ bpc \in {"head", "readhdr", "ioreg", "config"} /\ ItemValid
        /\ UNCHANGED <<pc, tinfo, execq, item, listed>>
        /\ bpc' \notin {"idle", "dead", "alloc"}
        /\ count' = count \/ bpc' = "strtab"
    BY <1>6 DEF NextRegion, Reserve, Configure, Configured, ConfigureFailsPositive, Activate,
                BkAt, taskVars, infoVars, hwVars
  <2>2. Loading /\ Loading' /\ \A u \in Tasks : Pending(u)' <=> Pending(u)
    BY <2>1 DEF Loading, ItemValid, Pending
  <2>. QED
    BY <2>1, <2>2 DEF HeldInv
<1>7. CASE ListRegion
  <2>1. /\ bpc = "strtab" /\ ItemValid /\ UNCHANGED <<pc, tinfo, execq, item>>
        /\ bpc' = "ioreg" /\ listed' = listed \cup {binfo}
    BY <1>7 DEF ListRegion, BkAt, taskVars
  <2>2. /\ Loading /\ Loading' /\ \A u \in Tasks : Pending(u)' <=> Pending(u)
        /\ tinfo[item] = binfo /\ item \in Tasks
    BY <1>t, <2>1 DEF Loading, ItemValid, Pending
  <2>. QED
    BY <2>1, <2>2 DEF HeldInv
<1>8. CASE BkKilled
  BY <1>8 DEF BkKilled, HeldInv, Loading, Pending, taskVars, infoVars, hwVars
<1>9. CASE UNCHANGED <<taskVars, execq, bkVars, infoVars, hwVars>>
  BY <1>9 DEF taskVars, bkVars, bkRest, infoVars, hwVars, HeldInv, Loading, Pending
<1>. QED
  BY <1>1, <1>2, <1>3, <1>4, <1>5, <1>6, <1>7, <1>8, <1>9
  DEF Next, BkLoad, FailStep, BkUsesFreed, vars

(* Without signals: a task that is awake has no item, so the error it      *)
(* looks at is that of a load that failed, or of a file without hardware.  *)
LEMMA RetryStepInv ==
  ASSUME Env \cap {"signal", "reexec", "elf_err"} = {}, WaitInv, RetryInv, [Next]_vars
  PROVE  RetryInv'
<1>t. /\ tinfo \in [Tasks -> Infos \cup {NULL}] /\ pc \in [Tasks -> TaskLabels]
      /\ loaderr \in [Tasks -> Int] /\ item \in Tasks \cup {NULL}
      /\ NULL \notin Tasks /\ ExecInv /\ BkInv /\ QueueInv /\ SoleItem
      /\ ENOEXEC # 0 /\ 0 # -ENOEXEC
  BY DEF WaitInv, ExecInv, TypeOK, QueueInv, SoleItem, ENOEXEC
(* A step of one task that leaves its borph_info.                          *)
<1>f. ASSUME NEW t \in Tasks, tinfo' = tinfo,
             \A u \in Tasks : u # t => pc'[u] = pc[u] /\ loaderr'[u] = loaderr[u],
             pc'[t] # "woken" \/ loaderr'[t] # -ENOEXEC \/ tinfo[t] = NULL
      PROVE  RetryInv'
  BY <1>f DEF RetryInv
<1>x. ASSUME NEW t \in Tasks, EndExec(t), tinfo' = tinfo PROVE RetryInv'
  <2>1. pc' = [pc EXCEPT ![t] = "user"] /\ loaderr' = [loaderr EXCEPT ![t] = 0]
    BY <1>x DEF EndExec
  <2>. QED
    BY <1>f, <1>t, <1>x, <2>1
<1>1. ASSUME NEW t \in Tasks, Spawn(t) \/ GoToSleep(t) PROVE RetryInv'
  <2>1. /\ tinfo' = tinfo /\ loaderr' = loaderr
        /\ \E l \in {"user", "asleep"} : pc' = [pc EXCEPT ![t] = l]
    BY <1>1 DEF Spawn, GoToSleep
  <2>. QED
    BY <1>f, <1>t, <2>1
<1>2. ASSUME NEW t \in Tasks, NEW c \in Tasks, Fork(t, c) PROVE RetryInv'
  <2>1. /\ tinfo' = [tinfo EXCEPT ![c] = tinfo[t]] /\ pc' = [pc EXCEPT ![c] = "user"]
        /\ loaderr' = loaderr
    BY <1>2 DEF Fork
  <2>. QED
    BY <1>t, <2>1 DEF RetryInv
<1>3. ASSUME NEW t \in Tasks, Exit(t) PROVE RetryInv'
  <2>1. /\ tinfo' = [tinfo EXCEPT ![t] = NULL] /\ pc' = [pc EXCEPT ![t] = "none"]
        /\ loaderr' = loaderr
    BY <1>3, <1>t, ExitFpgaEffect, Zenon DEF Exit
  <2>. QED
    BY <1>t, <2>1 DEF RetryInv
<1>4. ASSUME NEW t \in Tasks, NEW f \in Files, LoadBof(t, f) PROVE RetryInv'
  <2>1. /\ tinfo[t] = NULL /\ tinfo' = tinfo /\ Enter(t, f) /\ item' = item
        /\ loaderr' = [loaderr EXCEPT ![t] = f.err]
    BY <1>4 DEF LoadBof, bkVars
  <2>2. \A u \in Tasks : u # t => pc'[u] = pc[u]
    BY <1>t, <2>1, EnterEffect
  <2>. QED
    BY <1>f, <1>t, <2>1, <2>2
<1>5. ASSUME NEW t \in Tasks, Resume(t) PROVE RetryInv'
  <2>1. pc[t] = "woken" /\ tinfo' = tinfo
    BY <1>5 DEF Resume, At
  <2>2. CASE loaderr[t] = 0
    <3>1. pc' = [pc EXCEPT ![t] = "readelf"] /\ loaderr' = loaderr
      BY <1>5, <2>2 DEF Resume
    <3>. QED
      BY <1>f, <1>t, <2>1, <3>1
  <2>3. CASE loaderr[t] # 0
    <3>1. ExecFails(t, loaderr[t]) /\ file[t] \in Files /\ loaderr[t] \in Int
      BY <1>5, <1>t, <2>1, <2>3 DEF Resume, BkInv, FileInv
    <3>2. CASE EndExec(t)
      BY <1>x, <2>1, <3>2
    <3>3. CASE /\ loaderr' = loaderr /\ item' = item /\ loaderr[t] = -ENOEXEC
               /\ Enter(t, file[t])
      <4>1. \A u \in Tasks : u # t => pc'[u] = pc[u]
        BY <1>t, <3>1, <3>3, EnterEffect
      <4>2. tinfo[t] = NULL
        BY <2>1, <3>3 DEF RetryInv
      <4>. QED
        BY <1>f, <2>1, <3>3, <4>1, <4>2
    <3>. QED
      BY <1>t, <3>1, <3>2, <3>3, ExecFailsEffect
  <2>. QED
    BY <2>2, <2>3
<1>6. ASSUME NEW t \in Tasks, ReadElf(t) PROVE RetryInv'
  BY <1>6, <1>x DEF ReadElf
<1>7. ASSUME NEW t \in Tasks, TaskStep(t) PROVE RetryInv'
  BY <1>1, <1>2, <1>3, <1>4, <1>5, <1>6, <1>7 DEF TaskStep, ExecStep, Signal, ReadElfFails
<1>8. CASE AllocInfo
  <2>1. PICK i \in Infos : tinfo' = [tinfo EXCEPT ![item] = i]
    BY <1>8 DEF AllocInfo
  <2>2. item \in Tasks /\ pc' = pc /\ loaderr' = loaderr
    BY <1>8, <1>t DEF AllocInfo, BkAt, ItemValid
  <2>3. pc[item] # "woken"
    BY <1>t, <2>2 DEF QueueInv, Pending
  <2>. QED
    BY <1>t, <2>1, <2>2, <2>3 DEF RetryInv
<1>9. CASE FailStep
  <2>1. PICK r \in Int : Fail(r) /\ item \in Tasks
    BY <1>9, <1>t, FailStepFails
  <2>2. tinfo' = [tinfo EXCEPT ![item] = NULL]
    BY <1>t, <2>1, ExitFpgaEffect, Zenon DEF Fail
  <2>3. \A u \in Tasks : u # item => pc'[u] = pc[u] /\ loaderr'[u] = loaderr[u]
    BY <1>t, <2>1, SoleFinish DEF Fail
  <2>. QED
    BY <1>t, <2>2, <2>3 DEF RetryInv
<1>10. CASE LoadDone
  <2>1. item \in Tasks /\ Finish(0) /\ tinfo' = tinfo
    BY <1>10, <1>t DEF LoadDone, BkAt, ItemValid
  <2>2. /\ \A u \in Tasks : u # item => pc'[u] = pc[u] /\ loaderr'[u] = loaderr[u]
        /\ loaderr'[item] = 0
    BY <1>t, <2>1, SoleFinish
  <2>. QED
    BY <1>f, <1>t, <2>1, <2>2
<1>11. CASE UNCHANGED <<pc, tinfo, loaderr>>
  BY <1>11 DEF RetryInv
<1>12. CASE \/ Dequeue \/ NextRegion \/ Reserve \/ ListRegion \/ Configure \/ Configured
            \/ ConfigureFailsPositive \/ BkUsesFreed \/ BkKilled
  BY <1>11, <1>12 DEF Dequeue, NextRegion, Reserve, ListRegion, Configure, Configured,
                      ConfigureFailsPositive, Activate, BkUsesFreed, BkKilled, taskVars
<1>. QED
  BY <1>7, <1>8, <1>9, <1>10, <1>11, <1>12 DEF Next, BkLoad, FailStep, vars, taskVars

(* With signals, but no error that makes exec try again: a task enters     *)
(* load_bof_binary once in an exec and so never has two items.             *)
LoneInv ==
  /\ \A t \in Tasks : loaderr[t] # -ENOEXEC
  /\ retval # -ENOEXEC
  /\ \A j, k \in DOMAIN execq : execq[j] = execq[k] /\ execq[j] # NULL => j = k
  /\ SoleItem

LEMMA LoneEnter ==
  ASSUME ExecInv, LoneInv, NEW t \in Tasks, ~Pending(t), NEW f \in Files, Enter(t, f),
         item' = item
  PROVE  /\ \A j, k \in DOMAIN execq' : execq'[j] = execq'[k] /\ execq'[j] # NULL => j = k
         /\ SoleItem'
<1>1. CASE f.numchip > 0
  <2>1. execq' = Append(execq, t)
    BY <1>1 DEF Enter
  <2>2. execq \in Seq(Tasks \cup {NULL})
    BY DEF ExecInv, TypeOK
  <2>3. /\ DOMAIN execq' = 1 .. (Len(execq) + 1) /\ DOMAIN execq = 1 .. Len(execq)
        /\ execq'[Len(execq) + 1] = t
        /\ \A k \in 1 .. Len(execq) : execq'[k] = execq[k]
        /\ Len(execq) \in Nat
    BY <2>1, <2>2
  <2>4. item # t /\ \A k \in DOMAIN execq : execq[k] # t
    BY DEF Pending
  <2>. QED
    BY <2>3, <2>4 DEF LoneInv, SoleItem, Queued
<1>2. CASE ~(f.numchip > 0)
  BY <1>2 DEF Enter, LoneInv, SoleItem, Queued
<1>. QED
  BY <1>1, <1>2

LEMMA LoneEndExec ==
  ASSUME ExecInv, LoneInv, NEW t \in Tasks, EndExec(t), retval' = retval
  PROVE  LoneInv'
<1>t. loaderr \in [Tasks -> Int] /\ 0 # -ENOEXEC
  BY DEF ExecInv, TypeOK, ENOEXEC
<1>1. \A u \in Tasks : loaderr'[u] # -ENOEXEC
  BY <1>t DEF EndExec, LoneInv
<1>2. /\ DOMAIN execq' = DOMAIN execq
      /\ \A k \in DOMAIN execq : execq'[k] = IF execq[k] = t THEN NULL ELSE execq[k]
  BY DEF EndExec
<1>3. item' # NULL => item' = item /\ item # t
  BY DEF EndExec
<1>4. \A j, k \in DOMAIN execq' : execq'[j] = execq'[k] /\ execq'[j] # NULL => j = k
  BY <1>2 DEF LoneInv
<1>5. SoleItem'
  BY <1>2, <1>3 DEF LoneInv, SoleItem, Queued
<1>. QED
  BY <1>1, <1>4, <1>5 DEF LoneInv

LEMMA LoneStepInv ==
  ASSUME Env \cap {"elf_err", "strtab_err"} = {}, UsableStrtabs, NoStoredRetry,
         ExecInv, BkInv, LoneInv, [Next]_vars
  PROVE  LoneInv'
<1>t. /\ loaderr \in [Tasks -> Int] /\ item \in Tasks \cup {NULL} /\ NULL \notin Tasks
      /\ execq \in Seq(Tasks \cup {NULL})
      /\ -EIO # -ENOEXEC /\ -EBUSY # -ENOEXEC /\ 0 # -ENOEXEC /\ 1 # -ENOEXEC
      /\ -EIO \in Int /\ -EBUSY \in Int /\ retval \in Int
  BY DEF ExecInv, TypeOK, EIO, EBUSY, ENOEXEC
<1>f. ASSUME UNCHANGED <<execq, item>>, \A u \in Tasks : loaderr'[u] # -ENOEXEC,
             retval' # -ENOEXEC
      PROVE  LoneInv'
  BY <1>f DEF LoneInv, SoleItem, Queued
<1>1. ASSUME NEW t \in Tasks, Spawn(t) \/ Exit(t) \/ Signal(t) \/ GoToSleep(t)
      PROVE  LoneInv'
  <2>1. UNCHANGED <<execq, item, loaderr, retval>>
    BY <1>1 DEF Spawn, Exit, Signal, GoToSleep, bkVars, bkRest
  <2>. QED
    BY <1>f, <2>1 DEF LoneInv
<1>2. ASSUME NEW t \in Tasks, NEW c \in Tasks, Fork(t, c) PROVE LoneInv'
  BY <1>2, <1>f DEF Fork, bkVars, bkRest, LoneInv
<1>3. ASSUME NEW t \in Tasks, NEW f \in Files, LoadBof(t, f) PROVE LoneInv'
  <2>1. /\ pc[t] = "user" /\ Enter(t, f) /\ item' = item /\ retval' = retval
        /\ loaderr' = [loaderr EXCEPT ![t] = f.err]
    BY <1>3 DEF LoadBof, At, bkVars, bkRest
  <2>2. ~Pending(t)
    BY <2>1 DEF BkInv, BusyInv
  <2>3. \A u \in Tasks : loaderr'[u] # -ENOEXEC
    BY <1>t, <2>1 DEF LoneInv, NoStoredRetry
  <2>. QED
    BY <2>1, <2>2, <2>3, LoneEnter DEF LoneInv
<1>4. ASSUME NEW t \in Tasks, Resume(t) PROVE LoneInv'
  <2>1. retval' = retval
    BY <1>4 DEF Resume, bkRest
  <2>2. CASE loaderr[t] = 0
    BY <1>4, <1>f, <2>1, <2>2 DEF Resume, LoneInv
  <2>3. CASE loaderr[t] # 0
    <3>1. EndExec(t)
      BY <1>4, <2>3 DEF Resume, ExecFails, LoneInv
    <3>. QED
      BY <2>1, <3>1, LoneEndExec
  <2>. QED
    BY <2>2, <2>3
<1>5. ASSUME NEW t \in Tasks, ReadElf(t) PROVE LoneInv'
  BY <1>5, LoneEndExec DEF ReadElf, bkRest
<1>6. ASSUME NEW t \in Tasks, TaskStep(t) PROVE LoneInv'
  BY <1>1, <1>2, <1>3, <1>4, <1>5, <1>6 DEF TaskStep, ExecStep, ReadElfFails
(* The answer is one of the errors of borph_load_hw but that for a string  *)
(* table that cannot be used.                                              *)
<1>g. ASSUME NEW r \in Int, r # -ENOEXEC, item \in Tasks, Finish(r) PROVE LoneInv'
  <2>1. /\ loaderr' = [loaderr EXCEPT ![item] = r]
        /\ execq' = execq /\ item' = NULL /\ retval' = 0
    BY <1>g, FinishEffect, Zenon
  <2>2. \A u \in Tasks : loaderr'[u] # -ENOEXEC
    BY <1>g, <1>t, <2>1 DEF LoneInv
  <2>. QED
    BY <1>t, <2>1, <2>2 DEF LoneInv, SoleItem
<1>7. CASE FailStep
  <2>1. ~StrtabBad /\ item \in Tasks
    BY <1>7, FailNotStrtab, FailStepFails
  <2>2. Finish(retval) \/ Finish(-EIO) \/ Finish(-EBUSY)
    BY <1>7, <2>1 DEF FailStep, InvalidBof, ReadHdrFails, ReserveFails, ReadStrtabFails,
                      ReadIoregFails, ConfigureFails, Fail
  <2>. QED
    BY <1>g, <1>t, <2>1, <2>2 DEF LoneInv
<1>8. CASE LoadDone
  BY <1>8, <1>g, <1>t DEF LoadDone, BkAt, ItemValid
<1>9. CASE Dequeue
  <2>1. /\ execq # <<>> /\ item' = Head(execq) /\ execq' = Tail(execq)
        /\ loaderr' = loaderr /\ retval' = retval
    BY <1>9 DEF Dequeue, taskVars
  <2>2. /\ item' = execq[1] /\ 1 \in DOMAIN execq
        /\ \A k \in DOMAIN execq' : /\ k \in Nat /\ k # 0 /\ k + 1 \in DOMAIN execq
                                    /\ execq'[k] = execq[k + 1]
    BY <1>t, <2>1
  <2>3. \A j, k \in DOMAIN execq' : execq'[j] = execq'[k] /\ execq'[j] # NULL => j = k
    BY <2>2 DEF LoneInv
  <2>4. SoleItem'
    <3>. SUFFICES ASSUME item' # NULL, NEW k \in DOMAIN execq', execq'[k] = item'
                  PROVE  FALSE
      BY DEF SoleItem, Queued
    <3>1. execq[k + 1] = execq[1] /\ k + 1 \in DOMAIN execq /\ execq[1] # NULL
      BY <2>2
    <3>2. k + 1 = 1
      BY <2>2, <3>1 DEF LoneInv
    <3>. QED
      BY <2>2, <3>2
  <2>. QED
    BY <2>1, <2>3, <2>4 DEF LoneInv
<1>10. CASE \/ AllocInfo \/ NextRegion \/ Reserve \/ ListRegion \/ Configure \/ BkKilled
            \/ Configured \/ ConfigureFailsPositive \/ BkUsesFreed \/ UNCHANGED vars
  <2>1. /\ UNCHANGED <<execq, item, loaderr>>
        /\ retval' \in {retval, -EIO, 0, 1}
    BY <1>10 DEF AllocInfo, NextRegion, Reserve, ListRegion, Configure, Configured, BkKilled,
                 ConfigureFailsPositive, Activate, BkUsesFreed, taskVars, bkVars, bkRest, vars
  <2>. QED
    BY <1>f, <1>t, <2>1 DEF LoneInv
<1>. QED
  BY <1>6, <1>7, <1>8, <1>9, <1>10 DEF Next, BkLoad, FailStep

(* The region is never reserved for nobody: every way a load can fail and  *)
(* every exit gives it back.  For any tasks, with forks, signals, short    *)
(* chains, bad bitstreams, preemption and the death of bkexecd, but        *)
(* without unusable string tables, failing reads of the ELF header and     *)
(* execs of BOF files by tasks that have hardware; if there are signals,   *)
(* no file stores -ENOEXEC as its load_err, which would make an exec that  *)
(* a signal ended queue a second item.                                     *)
THEOREM ReservedIsOwnedCorrect ==
  ASSUME Env \cap {"reexec", "elf_err", "strtab_err"} = {}, UsableStrtabs,
         "signal" \in Env => NoStoredRetry
  PROVE  Spec => []ReservedIsOwned
<1>1. HeldInv => ReservedIsOwned
  BY DEF HeldInv, ReservedIsOwned
<1>2. Init => HeldInv /\ RetryInv /\ LoneInv
  BY DEF Init, HeldInv, RetryInv, LoneInv, SoleItem, Pending, ENOEXEC
<1>3. Spec => [](ExecInv /\ BkInv)
  BY BkCorrect
<1>4. CASE "signal" \notin Env
  <2>1. WaitInv => ExecInv /\ BkInv /\ SoleItem
    BY DEF WaitInv, QueueInv, SoleItem
  <2>2. WaitInv /\ RetryInv /\ HeldInv /\ [Next]_vars => RetryInv' /\ HeldInv'
    BY <1>4, <2>1, HeldStepInv, RetryStepInv
  <2>3. Spec => []WaitInv
    BY <1>4, QueueCorrect
  <2>. QED
    BY <1>1, <1>2, <2>2, <2>3, PTL DEF Spec
<1>5. CASE NoStoredRetry
  <2>1. LoneInv => RetryInv /\ SoleItem
    BY DEF LoneInv, RetryInv
  <2>2. ExecInv /\ BkInv /\ LoneInv /\ HeldInv /\ [Next]_vars => LoneInv' /\ HeldInv'
    BY <1>5, <2>1, HeldStepInv, LoneStepInv
  <2>. QED
    BY <1>1, <1>2, <1>3, <2>2, PTL DEF Spec
<1>. QED
  BY <1>4, <1>5
==============================================================================
