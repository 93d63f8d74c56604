# A TLA+ verification of BORPH on RHINO

RHINO is an ARM (OMAP3) board with one Spartan-6 FPGA. BORPH is the operating
system support that makes an FPGA design a process: a *BOF file* bundles FPGA
bitstreams, the registers of the design and an ordinary ELF image; `exec` of a
BOF file configures the FPGA and then starts the ELF image, the registers
appear under `/proc/<pid>/hw`, and the exit of the process takes the FPGA down.
This directory models the kernel side of that, the tools that write and print
BOF files and the fan utility of the board, checks them with TLC and proves the
central facts with TLAPS.

Almost all of the repository's files are vendored (Linux, U-Boot, X-Loader). The
program's own logic is a few thousand lines, of which the kernel side is
concurrent: that is where the first models are. Measured against the whole tree
the share of lines that is modelled is therefore tiny; measured against BORPH's
own C files it is most of them.

## 1. Inventory

| Component | Source (under `src/`) | State it keeps | Operations |
|---|---|---|---|
| BOF exec | `borph/fs/binfmt_bof.c`, retry loop in `borph/fs/exec.c` | `bprm`, `load_err` in its buffer | `load_bof_binary`: check the header, queue an item for bkexecd, sleep, look at `load_err`, restart as ELF |
| Loader thread | `borph/kernel/bkexecd.c` | queue of exec items, `borph_info` of a task, region and register lists | `run_execq`, `borph_load_hw`, `bpr_nextfree` |
| Process exit, fork | `borph/kernel/borph.c`, hooks in `kernel/exit.c`, `kernel/fork.c` | `task_struct.borph_info` | `borph_exit_fpga`; fork copies the pointer |
| Region use count | `borph/kernel/hwr/common.c`, `hwrtype_rhino.c` | `phyhwr.count`, `.active`, `.task` | reserve, release, get, put, activate, deactivate |
| Configuration driver | `borph/kernel/hwr/hwrtype_rhino.c` | semaphore, part counter, completion, SPI messages in flight, FPGA pins | `rhino_configure`, `spi_transfer_completed`, `rhino_unconfigure`, get and put of the I/O buffer |
| Registers as files | `borph/fs/proc/proc_borph.c` | `ioreg_mode`, file positions, the I/O buffer | read, write, seek of a register; mode, region and status files |
| Registry of hardware types | `common.c`, init and cleanup in `hwrtype_rhino.c` | `hwrtypes`, `phyhwrs`, type use count | register, unregister, get and put of operations, module init and cleanup |
| BOF tools | `borph/tools/borph/mkbof.c`, `showbof.c` | symbol table, the file written so far | write and print BOF files |
| Board utilities | `utils/util/*.c`, `utils/power_measurements` | I2C devices and their register pointers | fan, LED, power and temperature programs |
| Boot code | `u-boot/board/rhino`, `x-loader/board/rhino`, `mach-omap2/board-rhino.c` | none of its own | straight-line set-up |

How they interact. `exec` appends to bkexecd's queue and sleeps; bkexecd
reserves a region through the registry and the use count, fills `borph_info`,
calls `rhino_configure`, which waits for SPI callbacks, and wakes the task. A
failing load and the exit of a task both go through `borph_exit_fpga`, which
deactivates, unconfigures and releases. Register files share the driver's
semaphore with the configuration. Files made by mkbof are followed, offset by
offset, by the kernel and by showbof. Utilities that run at the same time share
an I2C bus that nobody locks between two transactions.

What is hard here: the exec-ing task, bkexecd, exiting tasks, SPI callbacks and
register I/O interleave at every point where one of them sleeps; a load fails
in eight places with different things already done; the reserve/release
protocol is a pair of multi-step operations on one counter; results travel
through a field of the file's own header; completions and counters survive from
one configuration to the next. `PROJECT.json` lists these under *hazards*, each
at its line.

What makes each part correct:

* use count: one owner at a time, the recorded owner is the running task, a
  region that nobody has can be reserved;
* exec and loader: a program starts only with its hardware, keeps it until it
  exits itself, nothing is leaked or freed twice, every exec is answered;
* driver: success is reported only for a running design, a call sends its own
  data only and all of it, leaves nothing behind and returns; configuration and
  register I/O exclude each other;
* register files: the one I/O buffer has one user at a time, who finds his own
  data in it and gives it back; accesses stay inside their register; every call
  returns;
* register text: a read gives the digits of the register, a written number is
  stored as it reads;
* registry: what a user of the driver touches was set up, a failed init leaves
  nothing, uses are counted;
* BOF files: every offset a reader follows is where the writer was;
* fan utility: what it reports is what the chip holds, and nothing is left in a
  state in between;
* all together: the FPGA is *leased* to one task at a time.

## 2. Modules

| Module | Role |
|---|---|
| `FpgaLease` | abstract specification: `free`, `loading`, `ready` and one owner |
| `HwrCount` | the use count, one action per atomic operation; implements `FpgaLease` |
| `HwrCountProofs` | inductive invariant, theorems, refinement proof |
| `BofExec` | exec, bkexecd, exit and fork, one action per stretch of code between two sleeps; implements `FpgaLease` |
| `BofExecProofs` | exclusion, bkexecd's view and the lease for every environment; the other safety properties under the conditions they need |
| `RhinoConfigure` | `rhino_configure`, the SPI callbacks, the FPGA's pins, the semaphore |
| `RhinoConfigureProofs` | the semaphore, the pages, the messages in flight and the result, for every page size and payload |
| `IoReg` | read, write and seek of register files over the I/O buffer and the bus |
| `IoRegProofs` | the buffer is balanced and kept, reads and writes stay inside |
| `RegText` | `to_ascii` and `convert_input`, one action per turn of their loops |
| `RegTextProofs` | what they read and what they compute, for every text and register width |
| `HwrRegistry` | init of the driver with every failure, registration, cleanup, and the users of what it set up |
| `HwrRegistryProofs` | nothing missing is touched, failed inits, uses are counted |
| `BofFormat` | `mkbof` writing a file, the kernel and `showbof` following it |
| `BofFormatProofs` | what is written is found, for all sizes |
| `RhinoFan` | several runs of `rhino_fan` over one TC654 |
| `RhinoFanProofs` | its safety properties for any number of runs |
| `MCHwrCount`, `MCBofExec`, `MCRhinoConfigure`, `MCIoReg`, `MCRegText`, `MCHwrRegistry`, `MCBofFormat`, `MCRhinoFan` | instances for TLC |

In the modules a *Mutant* is a variation of the definition that follows it, the
kind of slip a patch could introduce; `PROJECT.json` says which property
notices it.

### HwrCount

`count`, `active`, `hwtask` are the three fields of `struct phyhwr`. `pc` gives
each thread's position and is named for the operation that comes next: a
reservation is `ReserveTest` (`atomic_inc_and_test`), then `ReserveBack` or
`ReserveOwn`; a release is `ReleaseDec`, `ReleaseClearTask`, `ReleaseFree`;
`GetHwr` and `PutHwr` are used by activate and deactivate. bkexecd is the only
thread that reserves. `rhino_defconfig` is a uniprocessor `CONFIG_PREEMPT_NONE`
kernel, so `MayRun` lets a thread run only while the others are at points where
they sleep or are in user space; with `Preempt = TRUE` all atomic operations
interleave. A file with several regions, and a load that fails before its
region is on the list of its task, are left to `BofExec`: `NotLost` is about
the balance of the count's operations, `ReservedIsOwned` about the callers.

### BofExec

A step is what a thread does from one point where it can sleep to the next.
`pc`, `tinfo`, `file`, `loaderr`, `try` belong to the tasks; `execq`, `bpc`,
`item`, `binfo`, `chip`, `retval` to bkexecd; `live`, `listed`, `ready` say
which `borph_info`s are allocated, hold the region, and have their status bit;
`count`, `active`, `hwtask`, `power`, `design` are the region and the device.
`prog` records which tasks run an image that came with hardware. `LoadBof` is
`load_bof_binary` up to `schedule()`, `Resume` and `ReadElf` the rest;
`Dequeue` to `LoadDone` follow `borph_load_hw` label by label, and every error
path is an action that runs the whole of `borph_exit_fpga` (`ExitFpga`), the
write of `load_err` and the wake-up (`Finish`). `-ENOEXEC` makes
`search_binary_handler` try again once (`ExecFails`).

A BOF file is a record: the number of chips its header claims, its chain of
region headers, whether its ELF image is one, and `load_err` as stored. When an
exec ends, items that still refer to its `bprm` become NULL: a later use of
such an item, or a second `borph_exit_fpga` on a freed `borph_info`, sets `uaf`
and ends the behaviour, since what happens then is undefined.

`Env` selects what the surroundings do: failing reads, a CRC failure, signals,
forks, a second exec by a task with hardware, the death of bkexecd. `Preempt`
adds the preemption between `wake_up` and `set_current_state`.

### RhinoConfigure

One call is `Call`, `Clear` (semaphore, power, PROG_B, INIT_B), a `SendPart` per
page, `WaitSent`, `CheckPins`. `spi` is the queue of messages, whose callbacks
`TransferOk` and `TransferFails` run at any time, during later calls too.
`parts` and `done` are `config_transfer_parts` and the counter inside the
completion. A payload is its length, the bytes the file really has, and whether
they are a valid bitstream. The FPGA (external) counts the bytes it receives
since its memory was cleared and starts or reports a CRC error.

### IoReg

Each client has the same register open in a file of its own. A read is
`ReadStart` (the count is cut at the end of the register), `ReadRecv` (the
buffer is taken, the bus read), `ReadCopied`; a raw write is `RawWriteStart`,
`WriteGet`, `WriteSend` or `WriteFaults`; an ASCII write is `AsciiWriteStart`,
`AsciiConvert` or `AsciiRefused`, `AsciiSend`. The steps are separated where a
client can sleep: in `down_interruptible`, which `Interrupted` ends, and in the
page faults of the user copies. `call` holds a call's locals, `mem` the words on
the bus, and a client that writes leaves its own name in them. Calls that return
at once and change nothing (a read at the end, a write past it, an ASCII write
at another position or of too many characters) are stuttering steps.

`IoregModeWrite` can come between any two steps. borph.h:75 says of `ioreg_mode`
"0 for ascii, 1 for raw", but the file takes every digit: above 1, reads are
raw and writes are ASCII; the model has this. `ProcessExits` frees the register
at any time; a client that goes on then sets `uaf` and the behaviour ends.

`seen` in `RhinoConfigure` records which failures have happened so far in any
call. `Never(S)` says that none of S has, and each property names the smallest
set it needs, so one run has all failures and all properties.

### RegText

`text` is what the user wrote, with one more byte behind it, since
`convert_input` steps over a base letter without counting it: `p` and `cnt` are
its pointer and its count, `last` the furthest byte it looked at. A character is
a class and a value (`<<"low", 3>>` is d), `Digits` the width of a register in
hexadecimal digits, `Power` the powers of 16 up to that one (a constant, because
the prover's arithmetic has no exponentiation), `Wrap` the 2's complement of the
kernel's build. With `echo` the text is what `to_ascii` made of the register,
written back. `Value` is the reference: the number a text denotes in a base.

The comment above `convert_input` (`proc_borph.c:201-206`) says that it converts the
first `cnt` bytes and ignores invalid characters instead of failing. The code does
not: a base letter is stepped over without decrementing `cnt`, so the conversion
also takes in the byte behind the text, or refuses the number for it, and a binary
number with an invalid character is an error. `PrefixRight` states when a number
with a base letter is converted as it reads; without its condition on the stray
byte TLC finds `b0` refused. This is the fourth entry of *findings*.

### HwrRegistry

`at` is the step of `hwrtype_rhino_init` that comes next, `have` what was
acquired, `failed` what was refused by the surroundings. After init, tasks load
and exit: `Load` reserves the region and lists the registers, `ListFails` is a
failing read meanwhile, `GetOps`, `Configure` and `ConfigureFails` are the
configuration between get_hwrops and put_hwrops, `Exit` the end of a program. A
register can be accessed from `Load` on, for `proc_borph.c` tests only that the task
has a `borph_info`. An access is `IoBegin` and then one of its exits: `Interrupted`
(a signal during the wait for the buffer), `InputRefused` (an ASCII write refused
before it), or `GotIobuf` followed by `CopyFaults` or by `Transfer` and `IoEnd`. Each
step names the pointers it follows, and following one that is NULL sets `oops` and
ends the behaviour. `count` is the type's use count. The end of a task, or of its
load, frees the registers under the clients that are using them (`stale`); what
such a client does next is `UseFreed`. Two tests of the register functions, for
operations that the driver lacks (`proc_borph.c:145`, `:427`), never fail:
`rhino_hwr_operations` has them all.

### BofFormat

`file` is a set of pairs of an offset and the object that starts there, `size`
its length. `mkbof` is one action per object, in the order of `main`; a write may
meet a full disk (`full`), which the code notices for the headers only. A reader
(`reader`, `rpc`, `cur`) then follows the headers in its own way of counting: the
kernel goes from the region header to the registers by `sizeof`, to the names
and the payload by offsets, `showbof` reads everything in the byte order the
header claims. The kernel takes a file only if it is for this board and its
processor (`ForThisBoard`). The machine in the header is `e_machine` as mkbof, on a
little-endian host, finds it in the bytes of the ELF file, so that a big-endian
ARM file is not one for ARM (`SaysArm`). `lost` is a place where it expects an object that is not there.
Offsets of names are kept modulo `NameMod`. `cur` may be negative: showbof adds
unsigned fields of the header, and with those of a big-endian file, read in the
wrong order, its pointer runs over.

### RhinoFan

A process (`pc`: section and transaction) goes through its options in the order
of `main`. The chip is its registers and the pointer `ptr` that the first
transaction of a read, and every write, leaves. The configuration register is a
record of its bit fields; a byte of another register, taken for a configuration,
is any of `Stray`. Any transaction may fail, having reached the chip or not, and
`Kill` ends a run between any two. `said` is what was last reported for each
setting, `raced` that a run wrote a configuration made from a copy that was not
the register any more, `crossed` the runs that had another's transaction come
between the two of a read (one that moves the pointer) or between the read and the
write of a change (one that writes the configuration), `stuck` that a run ended
inside a clear. `OnlyCrossed` says that interleaving is the only way to a race or to
the speed of another register: failing transactions, early exits and signals are
not. The resolution bit and the factor of a speed are left out: a run that reads
the configuration for them never looks at it, and shows the speed with a fixed
factor (a hazard without a property in `PROJECT.json`).

## 3. Runs

| Run | What it shows |
|---|---|
| `hwrcount` | five tasks, the shipped scheduler: exclusion, owner, no lost region, reservation fails only while somebody has it, lease with liveness |
| `bofexec_clean` | three tasks and six kinds of file in every order, failing reads of region headers and registers, failing configurations: all safety properties, every exec is answered, the lease with liveness |
| `bofexec_all` | two tasks with every event of `Env` and preemption: exclusion up to the first use of freed memory |
| `bofexec_signal` | *violation*: a signal during the sleep starts a program without its hardware |
| `bofexec_fork` | *violation*: the exit of a forked child takes the parent's FPGA |
| `configure` | three calls with payloads of every kind, all failures, register I/O: every property of the driver under the conditions it names |
| `configure_crc` | *violation*: a failed CRC check is returned as success |
| `ioreg` | two clients on a register with a neighbour behind it, format switches, bad user pointers, signals, exit: the buffer has one user and keeps its contents across page faults, raw accesses stay inside the register and the caller's count, numbers inside 4 bytes, calls return until a bad pointer has cost the buffer |
| `registry` | every step of init failing in turn, then three tasks and three clients: only the named allocations can be missing when used, and `iobuf` only while a task is being loaded; what a failed init leaves; uses are counted on every exit of an access |
| `bofformat` | all small ELF files, bit files and symbol lists, a disk that may fill: what mkbof reports as made is read back by the kernel and by showbof |
| `regtext` | all 8-bit registers and all texts of up to three characters: which are converted right, and when a byte behind the text matters |
| `board` | two runs of `rhino_fan` with every option, failing transactions and signals: reports are true, the clear bit is released, only interleaving makes a run show another speed or write back an old copy, exit codes are honest, runs end |

The violations are behaviours of the code that contradict one of its comments or
messages; each is described under *findings* in `PROJECT.json`, with a fourth, about
the prefix of a number, that `regtext` shows. `bofexec_clean`
leaves out the events behind the first two. Four more events are left out of it
because the code does not withstand them either, and TLC shows it at once when
they are added: `strtab_err` (a load that fails on its string table keeps the
region reserved: `ReservedIsOwned`), `reexec` and `elf_err` (a second load
replaces the `borph_info` that holds the region: `ReservedIsOwned`), and a region
chain shorter than `b_numchip` (`HwLoadedBeforeElf`). With `Preempt = TRUE`, which
is not the shipped configuration, `NotLost` and `ExecEnds` fail as well (a wake-up
between `wake_up` and `set_current_state` is lost).

Elsewhere such events are conditions of the property and not of the run, so that
everything else is checked in their presence: a failed transfer or read
(`CallsApart`: all data sent after the wait, nothing left over for the next call,
no data of another file), payloads of whole pages or
cut short (`CallReturns`), a bad user pointer (`IoReturns`), allocations nobody
tests, bus windows nobody maps and an init that gave up before or at the bus map
but left the type registered (`NothingMissing`: a client that reads a register of
a task still being loaded then follows a NULL `iobuf`), the newline of an ASCII read
of 8 (`ReadsInside`), a full disk (`ReadersFind`,
`FileConsistent`), an ELF file that is big-endian (`ReadersFind`: showbof loses its way, the
kernel refuses the file) or not for ARM (the kernel refuses it), hexadecimal letters and
the stray byte behind a number with a prefix (`PrefixRight`), overlapping runs of
`rhino_fan` (`Truthful`, `ClearReleased`, `OnlyCrossed`) and thresholds of 12800 and more (`Truthful`).

### Bounds

* `Tasks`: 2 to 5. Conflicts are between bkexecd, one owner and one other task;
  a third task adds a queue of two behind a running load.
* `Infos`: the `borph_info` addresses. At most one task owns the region and one
  load is in progress, so two suffice without re-exec and fork; `bofexec_all`
  has three. A new address is one that no pointer still holds, so a stale
  pointer is never mistaken for a valid one.
* `MaxQueue`: no new exec while the queue is that long. It equals the number of
  tasks in `bofexec_clean`, so it cuts nothing there; 1 in `bofexec_all`.
* `PAGE_SIZE = 2` and payloads of 1, 3, 4 and 5 bytes: less than a page, several
  pages with a short last one, and whole pages.
* `MaxCalls = 3`: a call, one that meets what it left, and one more.
  `MaxFlight` bounds the messages in flight (the parts of the longest payload);
  `MaxDone` the completion's counter.
* `ioreg`: a register of one 4-byte word, the only length ASCII can read, in a
  bus window of twice that; counts of 3 (not whole words, less than the
  register) and 8 (more than it); positions 0 and 2, and by reading and writing
  4 and 9. The buffer has 8 bytes, so it never cuts a raw access. Two clients
  suffice for the one buffer: any other is a third waiter.

* `registry`: three tasks and three clients, registers in a mapped window, in an
  unmapped one and outside of all. The single steps of init are all there.
* `bofformat`: ELF files of 0, 52 and 60 bytes (shorter than, equal to and longer
  than a header), bit files of 0 and 7, names of 1, 2 and 5 characters, up to 5
  lines for a table of 4. `NameMod = 8` makes name offsets run over, `Byte = 16`
  keeps byte order visible and `Page = 256` the end of showbof's mapping in reach.
* `regtext`: registers of two hexadecimal digits and texts of up to three
  characters out of ten (a letter beyond f among them), each followed by a stray byte of any class:
  overflow, both prefixes and every kind of bad character occur.
* `board`: two runs, five command lines that use every option (a duty cycle of
  271, which a byte makes 15, and of 16, which is refused; thresholds on both
  sides of 12800). Races are between two runs; the theorems are for any number.

`hwrcount` and `bofexec_clean` check for deadlock. The other runs do not: there
the system really stops (bkexecd dies, a wait never ends, undefined behaviour is
reached, the calls are used up, the programs have ended).

### Fairness

`FairSpec` of `HwrCount` and `BofExec` is weak fairness of each thread that is in
the middle of its work: a runnable thread is scheduled, a `kernel_read` and a
configuration end. No process is forced to exec, fork or exit, and no signal to
arrive. In `RhinoConfigure` the loader has strong fairness, because `down` of a
Linux semaphore serves its waiters in order; the SPI driver finishes every
message one way or the other, and the holder of the I/O buffer gives it back
(register I/O does so on all paths but one, the failing user copy at
`proc_borph.c:373`, as `IoReg` shows). In `IoReg` a page fault ends (weak fairness
of `Run`) and the semaphore serves its waiters in order (strong fairness of
`Get`). In `RhinoFan` each started run is scheduled and a bus transaction returns,
one way or the other. No failure is forced. `RegText`, `HwrRegistry` and
`BofFormat` are about safety only and state no fairness.

`LeaseLive` contains the safety of the lease, `LeaseSafe`, which is what the two
theorems `LeaseCorrect` prove of `HwrCount` and of `BofExec`.

`IoReturns` and the last part of `BufferBalanced` say what holds until the first
bad user pointer, which sets `faulted`: after it the buffer is lost for good and
every later access, and every later load, waits. That is what the code does;
the condition is part of the property rather than of the environment so that
the rest of the run includes it.

## 4. Theorems

All are for every value of the constants, under the named assumptions
`HwrCountAssumption`, `BofExecAssumption`, `RhinoConfigureAssumption`,
`IoRegAssumption`, `TextAssumption`, `RegistryAssumption`, `FormatAssumption`,
`ArgsAssumption`, `StrayAssumption` and `NullAssumption`, which only say that NULL
and bkexecd are not tasks, that files, payloads, lengths, command lines, characters
and environment are of their types, that the tasks and clients of the registry
are finitely many, that `Power` holds the powers of 16, and that the I/O buffer
holds at least a number of 4 bytes. A theorem that needs more has it in its ASSUME.

Every safety invariant and every action property of the passing runs is a
theorem, and so are all type invariants (those of `HwrCount`, `BofExec`, `IoReg`,
`HwrRegistry` and `RhinoFan` are in no run).

* `HwrCountProofs`. Exclusion is not inductive: whether a reservation succeeds
  depends on the exact count. `CountInv` states what the count is worth: one for
  the holder, one more inside `get_hwr .. put_hwr`, one more for a failing
  reservation that has not yet undone its increment; in the two steps after a
  release saw zero it is just the failing reservation; for a region nobody has
  it is -1, or 0 or -2 after a release and a failing reservation met. From it:
  `ExclusiveCorrect`, `OwnerCorrect` and `TypeCorrect`, preemptible or not.
  With `~Preempt` nobody is inside a release while a reservation runs, so the
  last case is -1 only: `NotLostCorrect` and `FailsOnlyIfHeldCorrect`.
  `LeaseCorrect` shows that every step is a step of `FpgaLease` or stutters; the
  lease begins at the increment that finds zero and ends at the decrement that
  reaches zero, not at the later write of -1.
* `BofExecProofs`, in layers. Each is inductive relative to the ones before it,
  and the conditions grow with the layers:
  1. `ExecInv` (types, `Exclusive`, and that between the reservation and
     `list_add` no list has the region and the count is 1), for every `Env` and
     `Files`: `ExclusiveCorrect`, `TypeCorrect`. As `TypeOK` says that `listed` is
     within `live`, the latter also says that no freed `borph_info` is on a list.
  2. `BkInv`, bkexecd's view: the task it loads for is in exec, `chip` is within
     the file's chain, the `borph_info` in hand is allocated and no other task's,
     and it lists the region from `list_add` on; a free region has no owner and
     is not active. Still for every `Env`: `BkCorrect`, and from it `LeaseCorrect`,
     the refinement of `FpgaLease`.
  3. `QueueInv`, without signals: each item belongs to one exec that sleeps until
     bkexecd is done with it (`QueueCorrect`). A signal breaks it, which is the
     finding of `bofexec_signal`.
  4. `SoleInv`, without forks too: each task's `borph_info` is live and its own.
     Hence `NoUseAfterFreeCorrect`.
  5. `PassedInv`, without signals, for files whose chain is as long as
     `b_numchip` says (`CompleteChains`): an exec that got past `load_err` has its
     region listed and ready. `HwLoadedBeforeElfCorrect`.
  6. `KeepInv`, without signals, forks, re-execs and bad bitstreams: a task that
     relies on the FPGA has it, and a load in progress has the owner, the power
     and the design in hand. `RunningKeepsFpgaCorrect`.
  7. `HeldInv`, without re-execs, failing reads of the ELF header or of the
     string table and with string tables that can be allocated (`UsableStrtabs`):
     a counted region is on a list some task points to, or on its way there, and
     a task that waits for its load has no `borph_info` yet. It needs that
     bkexecd works on a task's only item and that an exec which goes round again
     has no `borph_info`: without signals that is `QueueInv` and `RetryInv`, with
     signals it is `LoneInv` (no answer is -ENOEXEC, so no exec goes round
     again), for files that do not store -ENOEXEC in `load_err`
     (`NoStoredRetry`). `ReservedIsOwnedCorrect` covers both cases; with signals
     it says what holds until freed memory is used.
  The events left out of a theorem are those with which TLC finds the property
  violated (section 3); a signal and a stored -ENOEXEC together make an exec
  queue a second item, whose load replaces the `borph_info` of the first.
  `bofexec_clean` satisfies all the conditions.
* `RhinoConfigureProofs`. `IoExcluded` is inductive with the types of `sem` and
  `io`: `IoExcludedCorrect`. `ConfInv` adds the types, `PagesFreed` and, until the
  first failing transfer or read, `CleanInv`: the part counter is the number of
  messages, all of this call; while sending, all messages but the newest are
  whole pages, only the newest can be marked last, and what has arrived and what
  is in flight make up what was sent (`FlightInv`); nothing is left at either
  end of a call. From it `CallsApartCorrect`, `SuccessIsRealCorrect`,
  `PagesFreedCorrect` and the action property `ValidIsStartedCorrect`, with whole
  pages and truncated files included.
* `IoRegProofs`. `BufferInv` is `BufferBalanced` with the types of `pc` and `sem`:
  `BufferBalancedCorrect`. With it, a step that changes the buffer is one that
  takes it, so nobody had it, or one of the client that has it and leaves:
  `BufferKeptCorrect`, an action property. `ReadInv` adds what the counts of a
  call are worth while it waits: the cut made at the start of a read still holds
  when the buffer comes, because only the client itself moves its position, and a
  raw write has no more than a buffer. From it `ReadsInsideCorrect` and
  `TypeCorrect`; the latter says that no word outside of the buffer is sent.
  `OwnInv` says what a waiting write is worth: a raw one has a count within its
  caller's and the register's end, an ASCII one is at position 0, and a client that
  copied into the buffer still finds its own data there: `WritesOwnRangeCorrect`, for every register length and
  position. What the property grants is what the code does: a raw write stays
  inside the register but, from an odd position, also changes the byte before it
  (such a position needs no odd seek: an ASCII read leaves 9); a number is always 4
  bytes, so in a shorter register, as the 2-byte ones of `examples/gpmc_test`, it
  overruns the neighbour by up to that.
* `RegTextProofs`. `TextInv` relates the pointer to the turns left (`Looking`: one
  too many after a base letter) and the value to the digits left (`Ascii`):
  `LooksAtMostOneBehindCorrect`. `MeaningInv` says that in each loop `num` is the
  `Value` of the characters passed: `DecimalRightCorrect`, `PrefixRightCorrect`.
  `EchoInv` says that the characters `to_ascii` made are the remainders of the
  register, and that `num`, which then reads them in base 10, equals their value
  while that is below ten and is less from then on, without ever wrapping:
  `EchoKeepsCorrect`, for two digits and more (in a 4-bit register 8 would be
  negative). These need induction over the text. The library's induction
  theorems take the property as an operator; here it is taken as a set of
  natural numbers (`SetInduction`, from the least element that `WFMin` gives), which
  also yields the existence of the recursive function `Value` is taken from.
* `HwrRegistryProofs`. The invariant says, for each place `at`, what has been
  acquired unless it failed, that a load that got past its test of `rhino_fpga`
  finds an init that was completed, and that a client with the buffer found
  `iobuf`: `NothingMissingCorrect`, and `FailedInitCorrect` from its two parts.
  `TypeCorrect` is inductive as it stands. `CountBalanced` is not: `Paired` adds what the
  count is worth, one for the registration and one for each load and each access
  under way, by the cardinalities of those sets; `CountBalancedCorrect` follows
  it through every exit.
* `BofFormatProofs`. The invariant follows the file as it grows: `size` is the sum
  of what was written, each object that the next steps rely on is at the offset
  the header announces, register k at its multiple of `sizeof`, name k at
  `begin[k]`; a reader's `cur` is one of these offsets. From it `ReadersFindCorrect`
  (showbof for every little-endian file, the kernel for those of this board and of
  ARM), `FileConsistentCorrect` (payload and names) and
  `FailedIsRefusedCorrect`, for every width and every size. `TypeCorrect` includes
  what showbof does with a header in the wrong byte order.
* `RhinoFanProofs`. `Truthful` and `ClearReleased` need that a copy which equals the
  register when it is written differs from the old contents in its own field
  only (`StoreKeeps`); `OnlyCrossed` needs, for a run that nobody came between, that the
  chip still points at its register (`PointerOwn`), that its copy is the register
  (`CopyOwn`) and that the speed it has is its fan's (`SawOwn`), each kept by every
  step of every other run; `ExitHonest` needs `UnderWay` (all options before the present
  section are accounted for). Five theorems, for any number of runs.

Only model-checked: the liveness properties (`ExecEnds`, `CallReturns`, `LeaseLive`,
`IoReturns`, `RunEnds`), since fairness and ENABLED are beyond the prover. The
inductive invariants were checked with TLC on the instances of the runs before
they were proved.

## 5. Not modelled

* `kmalloc` returning NULL where the code dereferences the result (exec item,
  `borph_info`, region, register); a region header or register that
  `kernel_read` returns short; an ELF image that is itself a BOF file; an error
  return of `spi_async`.
* The contents of register lists; registers with `IORM_PIPE` (`sys_read` and
  `sys_write` pass a copy of the position, so they only answer `-ESPIPE`); seeks to
  odd positions; `/proc` lookup and directory listings, status and region files.
* A second hardware type and unloading: the driver is built in and is the only
  one that registers. (`register_hwrtype` would accept a type one past the end of
  its array, which no caller has.)
* The wording of `showbof`, the option parsers of the tools, symbol names beyond
  the 256 bytes of `symbol.name`.
* The resolution bit of the TC654 and the factor of a speed in `rhino_fan`.
* `rhino_mon`, `rhino_led`, `rhino_fmc`, `rhino_pwr`: single reads and writes of
  sensors and GPIO files, without state between them. `power_measure.c` does not
  compile.
* Boot code, board tables, sound: straight-line register writes and tables.
* Vendored Linux, U-Boot, X-Loader: they appear as atomicity and fairness.

## 6. Plan

Done, in this order: `FpgaLease`, `HwrCount`, `BofExec`, `RhinoConfigure`, `IoReg`,
then `HwrRegistry`, `BofFormat`, `RegText`, `RhinoFan`, with their runs and
theorems. Left:

1. Composition of `RhinoConfigure` and `IoReg` over their semaphore, and of
   `BofExec` with `IoReg` over the life of a process.
2. Theorems about the compositions: the lost buffer of `IoReg` seen from the
   loader, and which of `BofExec`'s conditions keep a register file's pointer
   valid.
