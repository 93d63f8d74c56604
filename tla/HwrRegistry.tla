----------------------------- MODULE HwrRegistry -----------------------------
(***************************************************************************)
(* The registry of hardware types (kernel/hwr/common.c) and the driver for *)
(* the RHINO board that registers itself there: hwrtype_rhino_init with    *)
(* every allocation that can fail, hwrtype_rhino_cleanup, and then the     *)
(* loads and register accesses that reach the driver through get_hwrops    *)
(* and put_hwrops and use what init allocated.                             *)
(*                                                                         *)
(* CONFIG_HWR_RHINO is built in: init runs once, before any user process,  *)
(* and cleanup is only called by a failing init.  The use count of the     *)
(* region is in HwrCount, the configuration in RhinoConfigure, who has the *)
(* buffer in IoReg: here a load or an access is what it takes and gives    *)
(* back of the registry, and the pointers that it follows on the way.      *)
(***************************************************************************)
EXTENDS Integers, FiniteSets

CONSTANTS
  Tasks,    \* tasks that exec BOF files
  Clients,  \* tasks that read and write registers of those tasks
  Locs,     \* chip selects in which the files' registers lie
  Fail,     \* what may fail, see Step
  NULL

(* map_rhino_gmpc maps cs0 to cs2; get_mapped_location knows cs0 to cs5,   *)
(* and takes a location outside of them for an address of the kernel.      *)
Mapped == {"cs0", "cs1", "cs2"}
Windows == Mapped \cup {"cs3", "cs4", "cs5", "outside"}

(* The steps of init, each named after what it acquires.                   *)
Step == {"type", "page", "iobuf", "bus", "cs0", "cs1", "cs2", "cache", "dev"}

ASSUME RegistryAssumption ==
  /\ Locs \subseteq Windows
  /\ Fail \subseteq Step
  /\ NULL \notin Tasks
  /\ IsFiniteSet(Tasks) /\ IsFiniteSet(Clients)

ENOMEM == 12

VARIABLES
  at,      \* the step that hwrtype_rhino_init is at, or "done"
  have,    \* what it has acquired and not given back; "type" stands for the
           \* entry in hwrtypes and its phyhwrs, "cs0".. for region and map
  failed,  \* the steps that failed
  retval,  \* what it returns
  count,   \* hwrtype_rhino.count
  owner,   \* the task that has the region
  tpc,     \* of a task: "idle", "listed" (its registers can be read),
           \* "config" (between get_hwrops and put_hwrops) or "run"
  cpc,     \* of a client: "idle", "wait" (for get_iobuf), "hold" (it has the
           \* buffer) or "sent" (the transfer is over)
  stale,   \* the clients whose register was freed under them
  oops     \* what was used and is not there

initVars == <<at, have, failed, retval>>
useVars == <<owner, tpc, cpc, stale, oops>>
vars == <<initVars, count, useVars>>

Init ==
  /\ at = "type" /\ have = {} /\ failed = {} /\ retval = 0
  /\ count = 0
  /\ owner = NULL
  /\ tpc = [t \in Tasks |-> "idle"]
  /\ cpc = [c \in Clients |-> "idle"]
  /\ stale = {}
  /\ oops = {}

-----------------------------------------------------------------------------
(* hwrtype_rhino_init.                                                     *)

Acquire(s, next) ==
  /\ at = s
  /\ have' = have \cup {s}
  /\ at' = next
  /\ UNCHANGED <<failed, retval, useVars>>

Fails(s) ==
  /\ at = s /\ s \in Fail
  /\ failed' = failed \cup {s}
  /\ UNCHANGED useVars

Leave(r) == at' = "done" /\ retval' = r

(* register_hwrtype: without memory for the phyhwrs it frees what it has.  *)
Register ==
  \/ Acquire("type", "page") /\ count' = count + 1
  \/ Fails("type") /\ Leave(-1) /\ UNCHANGED <<have, count>>

(* The result of __get_free_page is not looked at.                         *)
GetPage ==
  \/ Acquire("page", "iobuf") /\ UNCHANGED count
  \/ Fails("page") /\ at' = "iobuf" /\ UNCHANGED <<have, retval, count>>

GetIobuf ==
  \/ Acquire("iobuf", "bus") /\ UNCHANGED count
  \/ Fails("iobuf") /\ Leave(-ENOMEM) /\ UNCHANGED <<have, count>>

(* Mutant: no goto out after the failure.                                  *)
GetBusGoesOn ==
  \/ Acquire("bus", "cs0") /\ UNCHANGED count
  \/ /\ Fails("bus") /\ at' = "cache" /\ retval' = -ENOMEM
     /\ have' = have \ {"page", "iobuf"}
     /\ UNCHANGED count

GetBus ==
  \/ Acquire("bus", "cs0") /\ UNCHANGED count
  \/ /\ Fails("bus") /\ Leave(-ENOMEM)
     /\ have' = have \ {"page", "iobuf"}
     /\ UNCHANGED count

(* Mutant: the windows that are mapped already are kept.                   *)
CleanupKeepsWindows ==
  /\ have' = (have \ {"bus", "iobuf", "page", "cache", "type"})
  /\ count' = count - 1

(* unregister_hwrtype frees the type only if nobody else uses it.          *)
Unregister(rest) ==
  /\ have' = rest \ (IF count - 1 = 0 THEN {"type"} ELSE {})
  /\ count' = count - 1

(* hwrtype_rhino_cleanup.  Its spi_unregister_driver just warns: no driver *)
(* is registered at this point of init.                                    *)
Cleanup == Unregister(have \ (Mapped \cup {"bus", "iobuf", "page", "cache"}))

(* map_rhino_gmpc, whose two failures (of request_mem_region and ioremap)  *)
(* both clean up.                                                          *)
MapWindow(w, next) ==
  \/ Acquire(w, next) /\ UNCHANGED count
  \/ Fails(w) /\ Leave(-ENOMEM) /\ Cleanup

(* The result of kmem_cache_create is not looked at either.                *)
GetCache ==
  \/ Acquire("cache", "dev") /\ UNCHANGED count
  \/ Fails("cache") /\ at' = "dev" /\ UNCHANGED <<have, retval, count>>

(* spi_register_driver calls fpga_probe, which sets rhino_fpga; without a  *)
(* device, or memory, init is successful all the same.                     *)
RegisterDriver ==
  \/ Acquire("dev", "done") /\ UNCHANGED count
  \/ Fails("dev") /\ at' = "done" /\ UNCHANGED <<have, retval, count>>

Boot ==
  \/ Register \/ GetPage \/ GetIobuf \/ GetBus
  \/ MapWindow("cs0", "cs1") \/ MapWindow("cs1", "cs2") \/ MapWindow("cs2", "cache")
  \/ GetCache \/ RegisterDriver

-----------------------------------------------------------------------------
(* A user of the driver.  Nothing goes on after an oops.                   *)

Up == at = "done" /\ oops = {}

(* The code follows the pointers in need: it crashes if one is not there.  *)
Follow(need, work) ==
  IF need \subseteq have
    THEN work /\ UNCHANGED oops
    ELSE oops' = need \ have /\ UNCHANGED <<count, owner, tpc, cpc, stale>>

Listed == {"listed", "config", "run"}
Inside == {c \in Clients : cpc[c] # "idle"}

(* reserve_hwr takes and gives back the type on its own; without a type it *)
(* returns NULL and the exec fails.  Then the registers are listed, and    *)
(* are open to clients while bkexecd reads the rest of them from the file. *)
Load(t) ==
  /\ Up /\ tpc[t] = "idle" /\ owner = NULL
  /\ "type" \in have
  /\ owner' = t
  /\ tpc' = [tpc EXCEPT ![t] = "listed"]
  /\ UNCHANGED <<initVars, count, cpc, stale, oops>>

(* borph_exit_fpga frees the registers, also those in use, and releases    *)
(* the region, each call of the driver with its own get and put.           *)
GiveUp(t) ==
  /\ owner' = NULL
  /\ tpc' = [tpc EXCEPT ![t] = "idle"]
  /\ stale' = stale \cup Inside

(* A kernel_read of the registers fails.                                   *)
ListFails(t) ==
  /\ Up /\ tpc[t] = "listed"
  /\ GiveUp(t)
  /\ UNCHANGED <<initVars, count, cpc, oops>>

(* get_hwrops of the load.                                                 *)
GetOps(t) ==
  /\ Up /\ tpc[t] = "listed" /\ "type" \in have
  /\ tpc' = [tpc EXCEPT ![t] = "config"]
  /\ count' = count + 1
  /\ UNCHANGED <<initVars, owner, cpc, stale, oops>>

(* Mutant: the result is looked at before put_hwrops.                      *)
ConfigureFailsNoPut(t) ==
  /\ Up /\ tpc[t] = "config"
  /\ GiveUp(t)
  /\ UNCHANGED <<initVars, count, cpc, oops>>

(* rhino_configure returns -EIO without an SPI device; the load fails, as  *)
(* it may for reasons of its own.                                          *)
ConfigureFails(t) ==
  /\ Up /\ tpc[t] = "config"
  /\ GiveUp(t)
  /\ count' = count - 1
  /\ UNCHANGED <<initVars, cpc, oops>>

(* Mutant: rhino_fpga is not tested.                                       *)
ConfigureUntested(t) ==
  /\ Up /\ tpc[t] = "config"
  /\ Follow({"cache"}, /\ tpc' = [tpc EXCEPT ![t] = "run"]
                       /\ count' = count - 1
                       /\ UNCHANGED <<owner, cpc, stale>>)
  /\ UNCHANGED initVars

(* With a device it allocates from the cache.                              *)
Configure(t) ==
  /\ Up /\ tpc[t] = "config" /\ "dev" \in have
  /\ Follow({"cache"}, /\ tpc' = [tpc EXCEPT ![t] = "run"]
                       /\ count' = count - 1
                       /\ UNCHANGED <<owner, cpc, stale>>)
  /\ UNCHANGED initVars

(* The program exits.                                                      *)
Exit(t) ==
  /\ Up /\ tpc[t] = "run"
  /\ GiveUp(t)
  /\ UNCHANGED <<initVars, count, cpc, oops>>

(* ioreg_reg_read and ioreg_reg_write of a register that is listed.  They  *)
(* test borph_info, not whether the task runs.  All the operations of the  *)
(* driver that they look for are in rhino_hwr_operations.                  *)
IoBegin(c) ==
  /\ Up /\ cpc[c] = "idle"
  /\ owner # NULL /\ tpc[owner] \in Listed
  /\ "type" \in have
  /\ cpc' = [cpc EXCEPT ![c] = "wait"]
  /\ count' = count + 1
  /\ UNCHANGED <<initVars, owner, tpc, stale, oops>>

Proceed(c, from) == Up /\ cpc[c] = from /\ c \notin stale

(* The label out: put_hwrops.                                              *)
Return(c) ==
  /\ cpc' = [cpc EXCEPT ![c] = "idle"]
  /\ count' = count - 1
  /\ UNCHANGED <<initVars, owner, tpc, stale, oops>>

(* Mutant: a return to out_no_hwrops.                                      *)
InterruptedNoPut(c) ==
  /\ Proceed(c, "wait")
  /\ cpc' = [cpc EXCEPT ![c] = "idle"]
  /\ UNCHANGED <<initVars, count, owner, tpc, stale, oops>>

(* A signal ends the wait for the semaphore: get_iobuf returns NULL.       *)
Interrupted(c) == Proceed(c, "wait") /\ Return(c)

(* An ASCII write is refused before it asks for the buffer: its position,  *)
(* its length, a bad user pointer or its text.                             *)
InputRefused(c) == Proceed(c, "wait") /\ Return(c)

(* rhino_get_iobuf with the semaphore sets the size in iobuf.              *)
GotIobuf(c) ==
  /\ Proceed(c, "wait")
  /\ Follow({"iobuf"}, /\ cpc' = [cpc EXCEPT ![c] = "hold"]
                       /\ UNCHANGED <<count, owner, tpc, stale>>)
  /\ UNCHANGED initVars

(* A raw write from a bad user pointer, which also keeps the buffer.       *)
CopyFaults(c) == Proceed(c, "hold") /\ Return(c)

(* recv_iobuf and to_ascii, or the copy of a write and send_iobuf, through *)
(* the window of the register.                                             *)
Transfer(c, w) ==
  /\ Proceed(c, "hold")
  /\ Follow({"page", "bus", w}, /\ cpc' = [cpc EXCEPT ![c] = "sent"]
                                /\ UNCHANGED <<count, owner, tpc, stale>>)
  /\ UNCHANGED initVars

(* put_iobuf and put_hwrops, reached by a transfer and by one whose result *)
(* cannot be converted or is empty.                                        *)
IoEnd(c) == Proceed(c, "sent") /\ Return(c)

(* A client goes on with a register that was freed, at the latest for its  *)
(* hwraddr in put_hwrops: nothing can be said of what follows.             *)
UseFreed(c) ==
  /\ Up /\ c \in stale
  /\ oops' = {"ioreg"}
  /\ UNCHANGED <<initVars, count, owner, tpc, cpc, stale>>

LoadStep(t) ==
  \/ Load(t) \/ ListFails(t) \/ GetOps(t)
  \/ ConfigureFails(t) \/ Configure(t) \/ Exit(t)

IoStep(c) ==
  \/ IoBegin(c) \/ Interrupted(c) \/ InputRefused(c) \/ GotIobuf(c)
  \/ CopyFaults(c) \/ (\E w \in Locs : Transfer(c, w)) \/ IoEnd(c) \/ UseFreed(c)

Use == (\E t \in Tasks : LoadStep(t)) \/ (\E c \in Clients : IoStep(c))

Next == Boot \/ Use

Spec == Init /\ [][Next]_vars

-----------------------------------------------------------------------------
(* Properties.                                                             *)

(* The state of init and of its users has its types.                       *)
TypeOK ==
  /\ at \in Step \cup {"done"}
  /\ have \subseteq Step
  /\ failed \subseteq Fail
  /\ retval \in {0, -1, -ENOMEM}
  /\ count \in Int
  /\ owner \in Tasks \cup {NULL}
  /\ tpc \in [Tasks -> {"idle"} \cup Listed]
  /\ cpc \in [Clients -> {"idle", "wait", "hold", "sent"}]
  /\ stale \subseteq Clients
  /\ oops \subseteq Step \cup Windows \cup {"ioreg"}

(* The pointers of init that its users can find missing: page and cache,   *)
(* whose allocation nobody looks at, and iobuf after an init that gave up  *)
(* there or at the bus and left the type registered.  The last is reached  *)
(* only by an access to a register of a task that is still being loaded,   *)
(* and never by one of a program that runs.                                *)
NothingMissing ==
  /\ oops \cap Step \subseteq
       (failed \cap {"page", "cache"})
       \cup (IF failed \cap {"iobuf", "bus"} # {} THEN {"iobuf"} ELSE {})
  /\ "iobuf" \in oops => owner # NULL /\ tpc[owner] \in {"listed", "config"}

(* No program runs on a driver whose init failed, also where that init     *)
(* left the type registered: rhino_fpga is set in the last step only.      *)
FailedInitRefuses ==
  at = "done" /\ retval # 0 => \A t \in Tasks : tpc[t] # "run"

(* An init that fails gives everything back, with two exceptions: without  *)
(* memory for iobuf the type and the page stay, without memory for the bus *)
(* map the type stays.                                                     *)
FailedInitFrees ==
  at = "done" /\ retval # 0 =>
    have \subseteq (IF failed \cap {"iobuf", "bus"} # {} THEN {"type"} ELSE {})
                   \cup (IF "iobuf" \in failed THEN {"page"} ELSE {})

(* What an init that fails leaves behind: no way in, and no resources but  *)
(* the named ones.                                                         *)
FailedInit == FailedInitRefuses /\ FailedInitFrees

(* At every moment count tells unregister_hwrtype whether the type can be  *)
(* freed: it is 1 exactly if no load and no register access is between its *)
(* get_hwrops and its put_hwrops.  So every exit of the two register       *)
(* functions, the early ones included, gives back what it took, and none   *)
(* gives back more.                                                        *)
CountBalanced ==
  oops = {} =>
    /\ "type" \notin have => count = 0
    /\ "type" \in have =>
         /\ count >= 1
         /\ count = 1 <=> Inside = {} /\ \A t \in Tasks : tpc[t] # "config"
==============================================================================
