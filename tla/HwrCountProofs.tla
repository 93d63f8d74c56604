--------------------------- MODULE HwrCountProofs ---------------------------
(***************************************************************************)
(* Proofs about HwrCount, for any set of tasks.  CountInv says what the    *)
(* use count is worth in every state; the rest follows from it.            *)
(***************************************************************************)
EXTENDS HwrCount, TLAPS

(* Between the get_hwr and the put_hwr of hwr_activate, hwr_deactivate.    *)
GotLabels == {"act_set", "act_put", "exit_set", "exit_put"}

(* A thread that has seen the count fall to 0 and now frees the region.    *)
Clears(a) == pc[a] \in {"exit_clr", "exit_end"}

Busy(a) == Holds(a) \/ Clears(a)

(* One for the failing reserve_hwr that has not undone its increment.      *)
Failing == IF pc[Bk] = "rsv_back" THEN 1 ELSE 0

(* One thread at most has the region or is about to free it.               *)
OneBusy == \A a, b \in Threads : Busy(a) /\ Busy(b) => a = b

(* The count while somebody has the region: one use, one more inside       *)
(* get_hwr .. put_hwr, one more for a failing reserve_hwr.                 *)
CountHeld ==
  \A a \in Threads : Holds(a) =>
    count = IF pc[a] = "rsv_own" THEN 0
            ELSE 1 + Failing + (IF pc[a] \in GotLabels THEN 1 ELSE 0)

CountClears == \A a \in Threads : Clears(a) => count = Failing

(* The count of a region nobody has: -1 if it is free; 0 or -2 if a        *)
(* release and a failing reserve_hwr met and lost it.                      *)
CountFree ==
  (\A a \in Threads : ~Busy(a)) =>
    IF pc[Bk] = "rsv_back" THEN count \in {1, -1} ELSE count \in {-1, 0, -2}

(* The task whose file is being loaded waits outside.                      *)
LoadForWaits == pc[Bk] # "out" => loadfor \in Tasks /\ pc[loadfor] = "out"

OwnerInv ==
  /\ \A t \in Tasks : pc[t] = "run" => hwtask = t /\ active = 1
  /\ pc[Bk] \in {"load", "act_get", "act_set", "act_put"} => hwtask = loadfor
  /\ pc[Bk] = "act_put" => active = 1

CountInv ==
  /\ TypeOK
  /\ OneBusy
  /\ CountHeld
  /\ CountClears
  /\ CountFree
  /\ LoadForWaits
  /\ OwnerInv
-----------------------------------------------------------------------------
USE HwrCountAssumption DEF Threads

(* The initial state, with a free region and all threads outside.          *)
LEMMA CountInit == Init => CountInv
BY DEF Init, CountInv, TypeOK, OneBusy, CountHeld, CountClears, CountFree,
       LoadForWaits, OwnerInv, Busy, Holds, HoldLabels, Clears, Failing,
       TaskLabels, BkLabels, ExitLabels

(* Every operation on the count keeps CountInv.                            *)
LEMMA CountStep == CountInv /\ [Next]_vars => CountInv'
<1> SUFFICES ASSUME CountInv, [Next]_vars PROVE CountInv'
  OBVIOUS
<1> USE DEF CountInv, TypeOK, OneBusy, CountHeld, CountClears, CountFree,
            LoadForWaits, OwnerInv, Busy, Holds, HoldLabels, Clears, Failing,
            GotLabels, TaskLabels, BkLabels, ExitLabels, At, Goto
<1>1. ASSUME NEW t \in Tasks, LoadBegin(t) PROVE CountInv'
  BY <1>1 DEF LoadBegin
<1>2. CASE ReserveTest
  BY <1>2 DEF ReserveTest
<1>3. CASE ReserveBack
  BY <1>3 DEF ReserveBack
<1>4. CASE ReserveOwn
  BY <1>4 DEF ReserveOwn
<1>5. CASE SetTask
  BY <1>5 DEF SetTask
<1>6. ASSUME NEW ok \in BOOLEAN, LoadEnd(ok) PROVE CountInv'
  BY <1>6 DEF LoadEnd
<1>7. CASE ActivateGet
  BY <1>7 DEF ActivateGet, GetHwr
<1>8. CASE ActivateSet
  BY <1>8 DEF ActivateSet
<1>9. CASE ActivatePut
  BY <1>9 DEF ActivatePut, PutHwr
<1>10. ASSUME NEW t \in Tasks, ExitBegin(t) PROVE CountInv'
  BY <1>10 DEF ExitBegin
<1>11. ASSUME NEW a \in Threads, ExitGet(a) PROVE CountInv'
  BY <1>11 DEF ExitGet, GetHwr
<1>12. ASSUME NEW a \in Threads, ExitSet(a) PROVE CountInv'
  BY <1>12 DEF ExitSet
<1>13. ASSUME NEW a \in Threads, ExitPut(a) PROVE CountInv'
  BY <1>13 DEF ExitPut, PutHwr
<1>14. ASSUME NEW a \in Threads, ReleaseDec(a) PROVE CountInv'
  BY <1>14 DEF ReleaseDec, ExitDone
<1>15. ASSUME NEW a \in Threads, ReleaseClearTask(a) PROVE CountInv'
  BY <1>15 DEF ReleaseClearTask
<1>16. ASSUME NEW a \in Threads, ReleaseFree(a) PROVE CountInv'
  BY <1>16 DEF ReleaseFree, ExitDone
<1>17. CASE UNCHANGED vars
  BY <1>17 DEF vars
<1>. QED
  BY <1>1, <1>2, <1>3, <1>4, <1>5, <1>6, <1>7, <1>8, <1>9, <1>10, <1>11,
     <1>12, <1>13, <1>14, <1>15, <1>16, <1>17
  DEF Next, BkLoad, ExitNext

(* The use count is worth what CountInv says in every reachable state of   *)
(* the reserve, release, get and put calls, preempted or not.              *)
THEOREM CountCorrect == Spec => []CountInv
BY CountInit, CountStep, PTL DEF Spec

(* The variables of the use-count protocol keep their types.               *)
THEOREM TypeCorrect == Spec => []TypeOK
<1>1. CountInv => TypeOK
  BY DEF CountInv
<1>. QED
  BY <1>1, CountCorrect, PTL

(* No two threads ever have the region, for any number of tasks and for    *)
(* every interleaving of the atomic operations of reserve_hwr and          *)
(* release_hwr: a preemptible kernel does not break mutual exclusion.      *)
THEOREM ExclusiveCorrect == Spec => []Exclusive
<1>1. CountInv => Exclusive
  BY DEF CountInv, OneBusy, Busy, Exclusive
<1>. QED
  BY <1>1, CountCorrect, PTL

(* A running program's task is the one the region names, the region is     *)
(* active and its count says that it is used, for any number of tasks.     *)
THEOREM OwnerCorrect == Spec => []OwnerRecorded
<1>1. CountInv => OwnerRecorded
  <2>. SUFFICES ASSUME CountInv, NEW t \in Tasks, pc[t] = "run"
                PROVE  hwtask = t /\ active = 1 /\ count >= 1
    BY DEF OwnerRecorded
  <2>1. Holds(t)
    BY DEF Holds, HoldLabels
  <2>2. count = 1 + Failing
    BY <2>1 DEF CountInv, CountHeld, GotLabels, Failing
  <2>. QED
    BY <2>2 DEF CountInv, OwnerInv, Failing
<1>. QED
  BY <1>1, CountCorrect, PTL

-----------------------------------------------------------------------------
(* The kernel as shipped, without preemption.                              *)

(* One thread at most is in the middle of its code.                        *)
OneInside ==
  \A a, b \in Threads : pc[a] \notin Parked /\ pc[b] \notin Parked => a = b

(* A region that nobody has is free and names no task; a failing           *)
(* reserve_hwr has met the program that runs.                              *)
FreeInv ==
  /\ OneInside
  /\ (\A a \in Threads : ~Busy(a)) => count = -1 /\ hwtask = NULL
  /\ pc[Bk] = "rsv_back" => \E t \in Tasks : pc[t] = "run"
  /\ \A a \in Threads : pc[a] = "exit_end" => hwtask = NULL

(* Without preemption every operation keeps FreeInv.                       *)
LEMMA FreeStep ==
  ASSUME ~Preempt, CountInv, FreeInv, [Next]_vars
  PROVE  FreeInv'
<1> USE ~Preempt DEF CountInv, TypeOK, OneBusy, CountHeld, CountClears,
            LoadForWaits, Busy, Holds, HoldLabels, Clears, Failing,
            GotLabels, TaskLabels, BkLabels, ExitLabels, At, Goto,
            FreeInv, OneInside, Parked, MayRun
<1>1. ASSUME NEW t \in Tasks, LoadBegin(t) PROVE FreeInv'
  BY <1>1 DEF LoadBegin
<1>2. CASE ReserveTest
  BY <1>2 DEF ReserveTest
<1>3. CASE ReserveBack
  BY <1>3 DEF ReserveBack
<1>4. CASE ReserveOwn
  BY <1>4 DEF ReserveOwn
<1>5. CASE SetTask
  BY <1>5 DEF SetTask
<1>6. ASSUME NEW ok \in BOOLEAN, LoadEnd(ok) PROVE FreeInv'
  BY <1>6 DEF LoadEnd
<1>7. CASE ActivateGet
  BY <1>7 DEF ActivateGet, GetHwr
<1>8. CASE ActivateSet
  BY <1>8 DEF ActivateSet
<1>9. CASE ActivatePut
  BY <1>9 DEF ActivatePut, PutHwr
<1>10. ASSUME NEW t \in Tasks, ExitBegin(t) PROVE FreeInv'
  BY <1>10 DEF ExitBegin
<1>11. ASSUME NEW a \in Threads, ExitGet(a) PROVE FreeInv'
  BY <1>11 DEF ExitGet, GetHwr
<1>12. ASSUME NEW a \in Threads, ExitSet(a) PROVE FreeInv'
  BY <1>12 DEF ExitSet
<1>13. ASSUME NEW a \in Threads, ExitPut(a) PROVE FreeInv'
  BY <1>13 DEF ExitPut, PutHwr
<1>14. ASSUME NEW a \in Threads, ReleaseDec(a) PROVE FreeInv'
  BY <1>14 DEF ReleaseDec, ExitDone
<1>15. ASSUME NEW a \in Threads, ReleaseClearTask(a) PROVE FreeInv'
  BY <1>15 DEF ReleaseClearTask
<1>16. ASSUME NEW a \in Threads, ReleaseFree(a) PROVE FreeInv'
  BY <1>16 DEF ReleaseFree, ExitDone
<1>17. CASE UNCHANGED vars
  BY <1>17 DEF vars
<1>. QED
  BY <1>1, <1>2, <1>3, <1>4, <1>5, <1>6, <1>7, <1>8, <1>9, <1>10, <1>11,
     <1>12, <1>13, <1>14, <1>15, <1>16, <1>17
  DEF Next, BkLoad, ExitNext

(* In the shipped kernel FreeInv always holds.                             *)
LEMMA FreeCorrect ==
  ASSUME ~Preempt
  PROVE  Spec => [](CountInv /\ FreeInv)
<1>1. Init => FreeInv
  BY DEF Init, FreeInv, OneInside, Parked, Busy, Holds, HoldLabels, Clears
<1>2. CountInv /\ FreeInv /\ [Next]_vars => FreeInv'
  BY FreeStep
<1>. QED
  BY <1>1, <1>2, CountInit, CountStep, PTL DEF Spec

(* In the shipped, non-preemptible kernel no sequence of reserve_hwr,      *)
(* get_hwr, put_hwr and release_hwr loses the region: when all threads are *)
(* outside, reserve_hwr finds it free.                                     *)
THEOREM NotLostCorrect ==
  ASSUME ~Preempt
  PROVE  Spec => []NotLost
<1>1. FreeInv => NotLost
  BY DEF FreeInv, NotLost, Busy, Holds, HoldLabels, Clears
<1>. QED
  BY <1>1, FreeCorrect, PTL

(* In the shipped kernel reserve_hwr fails only while a task has the       *)
(* region.                                                                 *)
THEOREM FailsOnlyIfHeldCorrect ==
  ASSUME ~Preempt
  PROVE  Spec => FailsOnlyIfHeld
<1>1. ASSUME CountInv, FreeInv, [Next]_vars,
             pc[Bk] = "rsv_test", pc'[Bk] = "rsv_back"
      PROVE  \E t \in Tasks : pc[t] \in HoldLabels \cup ExitLabels
  <2>1. FreeInv'
    BY <1>1, FreeStep
  <2>2. PICK t \in Tasks : pc'[t] = "run"
    BY <2>1, <1>1 DEF FreeInv
  <2>3. pc[t] = "run"
    BY <2>2, <1>1
    DEF CountInv, TypeOK, BkLabels, ExitLabels, Next, BkLoad, ExitNext, vars,
        At, Goto, LoadBegin, ReserveTest, ReserveBack, ReserveOwn, SetTask,
        LoadEnd, ActivateGet, ActivateSet, ActivatePut, GetHwr, ExitBegin,
        ExitGet, ExitSet, ExitPut, ReleaseDec, ReleaseClearTask, ReleaseFree,
        ExitDone
  <2>. QED
    BY <2>3 DEF HoldLabels
<1>2. CountInv /\ FreeInv /\ [Next]_vars =>
        [pc[Bk] = "rsv_test" /\ pc'[Bk] = "rsv_back"
           => \E t \in Tasks : pc[t] \in HoldLabels \cup ExitLabels]_vars
  BY <1>1
<1>. QED
  BY <1>2, FreeCorrect, PTL DEF Spec, FailsOnlyIfHeld

-----------------------------------------------------------------------------
(* The refinement of FpgaLease.                                            *)


(* While bkexecd holds the region, the task it loads for is the owner.     *)
LEMMA LoadingOwner == Holds(Bk) => Owner = loadfor /\ Stage = "loading"
BY DEF Owner, Stage

(* While a task holds it itself, that task is the owner.                   *)
HolderIsOwner ==
  \A t \in Tasks : OneBusy /\ Holds(t) => Owner = t /\ Stage = "ready"

(* HolderIsOwner holds in every state.                                     *)
LEMMA ReadyOwner == HolderIsOwner
<1>. SUFFICES ASSUME NEW t \in Tasks, OneBusy, Holds(t)
              PROVE  Owner = t /\ Stage = "ready"
  BY DEF HolderIsOwner
<1>1. ~Holds(Bk) /\ ~NotHeld /\ \A u \in Tasks : Holds(u) => u = t
  BY DEF OneBusy, Busy, NotHeld
<1>. QED
  BY <1>1 DEF Owner, Stage

(* While nobody holds it, it is free.                                      *)
LEMMA FreeOwner == NotHeld => Owner = NULL /\ Stage = "free"
BY DEF Owner, Stage, NotHeld

(* The owner and the stage change only with the holder.                    *)
LEMMA SameHolder ==
  ASSUME OneBusy, OneBusy',
         \A a \in Threads : Holds(a)' <=> Holds(a),
         Holds(Bk) => loadfor' = loadfor
  PROVE  Owner' = Owner /\ Stage' = Stage
<1>1. CASE Holds(Bk)
  <2>1. (Holds(Bk) => Owner = loadfor /\ Stage = "loading")'
    BY LoadingOwner, PTL
  <2>. QED
    BY <1>1, <2>1, LoadingOwner
<1>2. CASE NotHeld
  <2>1. (NotHeld => Owner = NULL /\ Stage = "free")'
    BY FreeOwner, PTL
  <2>2. NotHeld'
    BY <1>2 DEF NotHeld
  <2>. QED
    BY <1>2, <2>1, <2>2, FreeOwner
<1>3. ASSUME NEW t \in Tasks, Holds(t) PROVE Owner' = Owner /\ Stage' = Stage
  <2>1. HolderIsOwner'
    BY ReadyOwner, PTL
  <2>. QED
    BY <1>3, <2>1, ReadyOwner DEF HolderIsOwner
<1>. QED
  BY <1>1, <1>2, <1>3 DEF NotHeld

(* Every step of the operations on the count is a grant, a completed load, *)
(* a return, or invisible to the lease.                                    *)
LEMMA LeaseStep ==
  ASSUME CountInv, CountInv', [Next]_vars
  PROVE  [Lease!Next]_<<Owner, Stage>>
<1>. OneBusy /\ OneBusy'
  BY DEF CountInv
<1>. DEFINE Same == Owner' = Owner /\ Stage' = Stage
<1>. SUFFICES Same \/ Lease!Next
  OBVIOUS
<1>. USE DEF Holds, HoldLabels, At, Goto
<1>a. CountInv => /\ pc \in [Threads -> TaskLabels \cup BkLabels]
                 /\ LoadForWaits
  BY DEF CountInv, TypeOK
<1>1. ASSUME NEW t \in Tasks, LoadBegin(t) PROVE Same
  BY <1>1, <1>a, SameHolder DEF LoadBegin
<1>2. CASE ReserveTest
  <2>1. CASE count' = 0
    <3>1. NotHeld
      BY <1>2, <2>1 DEF ReserveTest, CountInv, CountHeld, NotHeld, Failing,
                        GotLabels
    <3>2. Owner = NULL /\ Stage = "free"
      BY <3>1, FreeOwner
    <3>3. (Holds(Bk) => Owner = loadfor /\ Stage = "loading")'
      BY LoadingOwner, PTL
    <3>4. loadfor \in Tasks /\ loadfor' = loadfor /\ pc'[Bk] = "rsv_own"
      BY <1>2, <1>a, <2>1 DEF ReserveTest, LoadForWaits
    <3>5. Lease!Grant(loadfor)
      BY <3>2, <3>3, <3>4 DEF Lease!Grant
    <3>. QED
      BY <3>4, <3>5 DEF Lease!Next
  <2>2. CASE count' # 0
    BY <1>2, <2>2, <1>a, SameHolder DEF ReserveTest
  <2>. QED
    BY <2>1, <2>2
<1>3. CASE ReserveBack
  BY <1>3, <1>a, SameHolder DEF ReserveBack
<1>4. CASE ReserveOwn
  BY <1>4, <1>a, SameHolder DEF ReserveOwn
<1>5. CASE SetTask
  BY <1>5, <1>a, SameHolder DEF SetTask
<1>6. ASSUME NEW ok \in BOOLEAN, LoadEnd(ok) PROVE Same
  BY <1>6, <1>a, SameHolder DEF LoadEnd
<1>7. CASE ActivateGet
  BY <1>7, <1>a, SameHolder DEF ActivateGet, GetHwr
<1>8. CASE ActivateSet
  BY <1>8, <1>a, SameHolder DEF ActivateSet
<1>9. CASE ActivatePut
  <2>1. Owner = loadfor /\ Stage = "loading"
    BY <1>9, LoadingOwner DEF ActivatePut
  <2>2. PICK t \in Tasks : t = loadfor /\ Holds(t)'
    BY <1>9, <1>a DEF ActivatePut, LoadForWaits
  <2>3. HolderIsOwner'
    BY ReadyOwner, PTL
  <2>4. Lease!Ready
    BY <2>1, <2>2, <2>3 DEF Lease!Ready, HolderIsOwner
  <2>. QED
    BY <2>4 DEF Lease!Next
<1>10. ASSUME NEW t \in Tasks, ExitBegin(t) PROVE Same
  BY <1>10, <1>a, SameHolder DEF ExitBegin
<1>11. ASSUME NEW a \in Threads, ExitGet(a) PROVE Same
  BY <1>11, <1>a, SameHolder DEF ExitGet, GetHwr
<1>12. ASSUME NEW a \in Threads, ExitSet(a) PROVE Same
  BY <1>12, <1>a, SameHolder DEF ExitSet
<1>13. ASSUME NEW a \in Threads, ExitPut(a) PROVE Same
  BY <1>13, <1>a, SameHolder DEF ExitPut
<1>14. ASSUME NEW a \in Threads, ReleaseDec(a) PROVE Lease!Next
  <2>1. Holds(a) /\ Stage # "free"
    BY <1>14 DEF ReleaseDec, Stage, NotHeld
  <2>2. NotHeld'
    BY <1>14, <2>1, <1>a DEF ReleaseDec, ExitDone, OneBusy, Busy, NotHeld
  <2>3. (NotHeld => Owner = NULL /\ Stage = "free")'
    BY FreeOwner, PTL
  <2>4. Lease!Return
    BY <2>1, <2>2, <2>3 DEF Lease!Return
  <2>. QED
    BY <2>4 DEF Lease!Next
<1>15. ASSUME NEW a \in Threads, ReleaseClearTask(a) PROVE Same
  BY <1>15, <1>a, SameHolder DEF ReleaseClearTask
<1>16. ASSUME NEW a \in Threads, ReleaseFree(a) PROVE Same
  BY <1>16, <1>a, SameHolder DEF ReleaseFree, ExitDone
<1>17. CASE UNCHANGED vars
  BY <1>17, SameHolder DEF vars
<1>. QED
  BY <1>1, <1>2, <1>3, <1>4, <1>5, <1>6, <1>7, <1>8, <1>9, <1>10, <1>11,
     <1>12, <1>13, <1>14, <1>15, <1>16, <1>17
  DEF Next, BkLoad, ExitNext

(* The operations on the use count implement the lease of the FPGA, for    *)
(* any number of tasks, in a preemptible kernel as well: one owner at a    *)
(* time, and a new one only after a return.                                *)
THEOREM LeaseCorrect == Spec => LeaseSafe
<1>1. Init => Lease!Init
  <2>1. Init => NotHeld
    BY DEF Init, NotHeld, Holds, HoldLabels
  <2>. QED
    BY <2>1, FreeOwner DEF Lease!Init
<1>2. CountInv /\ CountInv' /\ [Next]_vars => [Lease!Next]_<<Owner, Stage>>
  BY LeaseStep
<1>3. Lease!leaseVars = <<Owner, Stage>>
  BY DEF Lease!leaseVars
<1>. QED
  BY <1>1, <1>2, CountCorrect, PTL DEF Spec, LeaseSafe, Lease!Spec, Lease!leaseVars

=============================================================================
