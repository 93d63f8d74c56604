---------------------------- MODULE RhinoConfigure ----------------------------
(***************************************************************************)
(* rhino_configure and spi_transfer_completed of hwrtype_rhino.c: the      *)
(* loader thread cuts the payload of a BOF file into pages, queues them as *)
(* asynchronous SPI messages and waits for a completion; the callbacks of  *)
(* the SPI driver run concurrently with it and with the next call.  The    *)
(* semaphore rhino_mutex is shared with the users of the I/O buffer        *)
(* (rhino_get_iobuf, rhino_put_iobuf).                                     *)
(*                                                                         *)
(* A step is what a thread does between two points where it can sleep.     *)
(* The FPGA is modelled by what its pins tell the driver.  The callback    *)
(* reads ctp->last just after it has freed ctp; nothing can reuse the      *)
(* memory in between in this build, so the old value is what it reads.     *)
(***************************************************************************)
EXTENDS Integers, Sequences, FiniteSetsExt

CONSTANTS
  PAGE_SIZE,
  Payloads,  \* payloads of BOF files, see Payload
  Env,       \* what the environment does, see EnvEvents
  MaxCalls,  \* bound: calls of rhino_configure
  MaxFlight, \* bound: SPI messages in flight
  MaxDone    \* bound: the completion's counter saturates here

(* pl_len, the bytes the file really has from pl_off on, and whether they  *)
(* are a valid bitstream.                                                  *)
Payload == [len : Nat, avail : Nat, valid : BOOLEAN]

EnvEvents == {
  "interrupted",   \* SIGKILL or SIGSTOP while waiting for the semaphore
  "init_timeout",  \* INIT_B does not go high
  "read_err",      \* kernel_read of the payload fails
  "spi_err",       \* an SPI message ends with an error
  "slow_done"}     \* the FPGA starts up some time after its last bit

(* The ones that leave traces for later: messages in flight, completions   *)
(* nobody waits for, an FPGA that starts after the call; and a call that   *)
(* gave up because of config_transfer_parts.                               *)
Failures == {"read_err", "spi_err", "slow_done", "gave_up"}

ASSUME RhinoConfigureAssumption ==
  /\ PAGE_SIZE \in Nat \ {0}
  /\ Payloads \subseteq Payload
  /\ Env \subseteq EnvEvents
  /\ {MaxCalls, MaxFlight, MaxDone} \subseteq Nat

EIO == 5
NoPayload == [len |-> 0, avail |-> 0, valid |-> FALSE]

VARIABLES
  cpc,      \* where the loader thread is, see Labels
  payload,  \* the arguments of the call
  sent,     \* bytes of it queued so far
  retval,   \* retval; between calls, what the last call returned
  calls,    \* calls so far
  sem,      \* rhino_mutex
  io,       \* a task holds the I/O buffer
  parts,    \* config_transfer_parts
  done,     \* configuration_data_sent.done
  spi,      \* SPI messages in flight, oldest first
  pages,    \* pages and config_transfer_parts allocated and not freed
  seen,     \* the failures that have happened so far, of those in Failures
  fpga,     \* "off", "ready" for data, "loaded", "started", or "crc_error"
  got,      \* bytes the FPGA received since its memory was cleared
  mixed     \* some of them are not from the payload it is meant to get

callVars == <<payload, sent, calls>>
spiVars == <<parts, done, spi, pages, seen>>
fpgaVars == <<fpga, got, mixed>>
vars == <<cpc, callVars, retval, sem, io, spiVars, fpgaVars>>

(* "idle": not in the call; "down": waiting for the semaphore; "send": in  *)
(* the loop over the payload or waiting for the completion; "check": the   *)
(* completion has come.                                                    *)
Labels == {"idle", "down", "send", "check"}

Init ==
  /\ cpc = "idle"
  /\ payload = NoPayload /\ sent = 0 /\ retval = -EIO /\ calls = 0
  /\ sem = 1 /\ io = FALSE
  /\ parts = 0 /\ done = 0 /\ spi = <<>> /\ pages = 0 /\ seen = {}
  /\ fpga = "off" /\ got = 0 /\ mixed = FALSE

-----------------------------------------------------------------------------
(* bkexecd calls rhino_configure for a region that it has just reserved,   *)
(* so the FPGA is off.                                                     *)
Call(p) ==
  /\ cpc = "idle" /\ fpga = "off" /\ calls < MaxCalls
  /\ cpc' = "down"
  /\ payload' = p /\ sent' = 0 /\ calls' = calls + 1
  /\ retval' = -EIO
  /\ UNCHANGED <<sem, io, spiVars, fpgaVars>>

(* Mutant: the way out gives back a semaphore that was not taken.          *)
InterruptedUp ==
  /\ "interrupted" \in Env
  /\ cpc = "down"
  /\ cpc' = "idle"
  /\ sem' = sem + 1
  /\ UNCHANGED <<callVars, retval, io, spiVars, fpgaVars>>

(* out: without the semaphore, because of a signal (or, with the same      *)
(* effect, because there is no SPI device).                                *)
Interrupted ==
  /\ "interrupted" \in Env
  /\ cpc = "down"
  /\ cpc' = "idle"
  /\ UNCHANGED <<callVars, retval, sem, io, spiVars, fpgaVars>>

(* out_free_mutex.                                                         *)
Return(r) ==
  /\ cpc' = "idle"
  /\ retval' = r
  /\ sem' = sem + 1

(* rhino_set_fpga_psu and the PROG_B pulse.                                *)
ClearMemory == fpga' = "ready" /\ got' = 0 /\ mixed' = FALSE

(* Power up, clear the configuration memory, INIT_B goes high.             *)
Clear ==
  /\ cpc = "down" /\ sem > 0
  /\ sem' = sem - 1
  /\ ClearMemory
  /\ parts' = 0
  /\ cpc' = "send"
  /\ UNCHANGED <<callVars, retval, io, done, spi, pages, seen>>

(* Mutant: goto out in place of goto out_free_mutex.                       *)
InitTimeoutNoUp ==
  /\ "init_timeout" \in Env
  /\ cpc = "down" /\ sem > 0
  /\ sem' = sem - 1
  /\ ClearMemory
  /\ cpc' = "idle"
  /\ UNCHANGED <<callVars, retval, io, spiVars>>

(* The same, and INIT_B stays low: the semaphore is taken and given back.  *)
InitTimeout ==
  /\ "init_timeout" \in Env
  /\ cpc = "down" /\ sem > 0
  /\ ClearMemory
  /\ cpc' = "idle"
  /\ UNCHANGED <<callVars, retval, sem, io, spiVars>>

Left == payload.len - sent

(* What kernel_read returns for the next page.                             *)
ReadCount == Min({PAGE_SIZE, Left, payload.avail - sent})

(* Mutant: a full page counts as the last one.                             *)
SendPartLastAlways ==
  /\ cpc = "send" /\ Left > 0
  /\ Len(spi) < MaxFlight
  /\ parts' = parts + 1
  /\ pages' = pages + 1
  /\ UNCHANGED <<payload, calls, io, done, fpgaVars>>
  /\ IF parts' = 0
       THEN /\ Return(ReadCount)
            /\ seen' = seen \cup {"gave_up"}
            /\ UNCHANGED <<sent, spi>>
       ELSE /\ retval' = ReadCount
            /\ sent' = sent + ReadCount
            /\ spi' = Append(spi, [len |-> ReadCount,
                                   last |-> ReadCount <= PAGE_SIZE,
                                   call |-> calls])
            /\ UNCHANGED <<cpc, sem, seen>>

(* One page is read and queued.  config_transfer_parts was -1 if an SPI    *)
(* transfer has failed: then the call gives up with retval = count and     *)
(* forgets the page it has just allocated.  At the end of a file that is   *)
(* too short kernel_read returns 0, and the loop queues empty parts.       *)
SendPart ==
  /\ cpc = "send" /\ Left > 0
  /\ Len(spi) < MaxFlight
  /\ parts' = parts + 1
  /\ pages' = pages + 1
  /\ UNCHANGED <<payload, calls, io, done, fpgaVars>>
  /\ IF parts' = 0
       THEN /\ Return(ReadCount)
            /\ seen' = seen \cup {"gave_up"}
            /\ UNCHANGED <<sent, spi>>
       ELSE /\ retval' = ReadCount
            /\ sent' = sent + ReadCount
            /\ spi' = Append(spi, [len |-> ReadCount,
                                   last |-> ReadCount < PAGE_SIZE,
                                   call |-> calls])
            /\ UNCHANGED <<cpc, sem, seen>>

(* Mutant: the page just allocated is not freed.                           *)
ReadFailsKeepsPage ==
  /\ "read_err" \in Env
  /\ cpc = "send" /\ Left > 0
  /\ Return(-EIO)
  /\ pages' = pages + 1
  /\ seen' = seen \cup {"read_err"}
  /\ UNCHANGED <<callVars, io, parts, done, spi, fpgaVars>>

ReadFails ==
  /\ "read_err" \in Env
  /\ cpc = "send" /\ Left > 0
  /\ Return(-EIO)
  /\ seen' = seen \cup {"read_err"}
  /\ UNCHANGED <<callVars, io, parts, done, spi, pages, fpgaVars>>

(* Mutant: no wait.                                                        *)
WaitSentNot ==
  /\ cpc = "send" /\ Left = 0
  /\ cpc' = "check"
  /\ UNCHANGED <<callVars, retval, sem, io, spiVars, fpgaVars>>

(* wait_for_completion.                                                    *)
WaitSent ==
  /\ cpc = "send" /\ Left = 0
  /\ done > 0
  /\ done' = done - 1
  /\ cpc' = "check"
  /\ UNCHANGED <<callVars, retval, sem, io, parts, spi, pages, seen, fpgaVars>>

(* INIT_B low is a CRC error; DONE is looked at once.  Neither failure     *)
(* sets retval.                                                            *)
CheckPins ==
  /\ cpc = "check"
  /\ Return(IF fpga = "started" THEN 0 ELSE retval)
  /\ UNCHANGED <<callVars, io, spiVars, fpgaVars>>

-----------------------------------------------------------------------------
(* The FPGA takes the data of one message; with the last bit of a good    *)
(* bitstream it starts, at once or after a while.                          *)
Receive(m) ==
  IF fpga = "ready"
    THEN LET bad == mixed \/ m.call # calls \/ ~payload.valid
             all == got + m.len >= payload.len IN
         /\ got' = got + m.len
         /\ mixed' = bad
         /\ \/ ~all /\ fpga' = "ready" /\ UNCHANGED seen
            \/ all /\ bad /\ fpga' = "crc_error" /\ UNCHANGED seen
            \/ all /\ ~bad /\ fpga' = "started" /\ UNCHANGED seen
            \/ /\ all /\ ~bad /\ "slow_done" \in Env
               /\ fpga' = "loaded"
               /\ seen' = seen \cup {"slow_done"}
    ELSE UNCHANGED <<fpgaVars, seen>>

(* complete(&configuration_data_sent).                                     *)
Complete == done' = Min({done + 1, MaxDone})

(* Mutant: a good transfer does not signal the completion.                 *)
TransferOkSilent ==
  /\ spi # <<>>
  /\ spi' = Tail(spi)
  /\ pages' = pages - 1
  /\ Receive(Head(spi))
  /\ parts' = parts - 1
  /\ UNCHANGED <<done, cpc, callVars, retval, sem, io>>

(* The oldest message is over: spi_transfer_completed.                     *)
TransferOk ==
  /\ spi # <<>>
  /\ spi' = Tail(spi)
  /\ pages' = pages - 1
  /\ Receive(Head(spi))
  /\ parts' = parts - 1
  /\ IF Head(spi).last THEN Complete ELSE UNCHANGED done
  /\ UNCHANGED <<cpc, callVars, retval, sem, io>>

TransferFails ==
  /\ "spi_err" \in Env
  /\ spi # <<>>
  /\ spi' = Tail(spi)
  /\ pages' = pages - 1
  /\ parts' = -1
  /\ Complete
  /\ seen' = seen \cup {"spi_err"}
  /\ UNCHANGED <<cpc, callVars, retval, sem, io, fpgaVars>>

Startup ==
  /\ fpga = "loaded"
  /\ fpga' = "started"
  /\ UNCHANGED <<cpc, callVars, retval, sem, io, spiVars, got, mixed>>

(* rhino_unconfigure, from borph_exit_fpga: the load has failed, or the    *)
(* program on the FPGA exits.                                              *)
Unconfigure ==
  /\ cpc = "idle" /\ fpga # "off"
  /\ fpga' = "off"
  /\ UNCHANGED <<cpc, callVars, retval, sem, io, spiVars, got, mixed>>

(* A read or write of an I/O register gets the buffer and puts it back.    *)
GetIobuf ==
  /\ ~io /\ sem > 0
  /\ io' = TRUE
  /\ sem' = sem - 1
  /\ UNCHANGED <<cpc, callVars, retval, spiVars, fpgaVars>>

PutIobuf ==
  /\ io
  /\ io' = FALSE
  /\ sem' = sem + 1
  /\ UNCHANGED <<cpc, callVars, retval, spiVars, fpgaVars>>

-----------------------------------------------------------------------------
Step == Clear \/ SendPart \/ WaitSent \/ CheckPins

StepFails == Interrupted \/ InitTimeout \/ ReadFails

Spi == TransferOk \/ TransferFails

Next ==
  \/ \E p \in Payloads : Call(p)
  \/ Step
  \/ StepFails
  \/ Spi
  \/ Startup
  \/ Unconfigure
  \/ GetIobuf
  \/ PutIobuf

Spec == Init /\ [][Next]_vars

(* The scheduler runs the loader thread whenever it can go on, the SPI     *)
(* driver finishes its messages, and whoever has the I/O buffer gives it   *)
(* back.  The semaphore serves its waiters in order, so the loader gets it *)
(* although I/O comes again and again: strong fairness.  No failure is     *)
(* forced to happen.                                                       *)
FairSpec ==
  /\ Spec
  /\ SF_vars(Step)
  /\ WF_vars(Spi)
  /\ WF_vars(PutIobuf)

-----------------------------------------------------------------------------
(* Properties.                                                             *)

Message == [len : Nat, last : BOOLEAN, call : Nat]

TypeOK ==
  /\ cpc \in Labels
  /\ payload \in Payloads \cup {NoPayload}
  /\ sent \in Nat /\ sent <= payload.len
  /\ retval \in Int
  /\ calls \in 0 .. MaxCalls
  /\ sem \in {0, 1}
  /\ io \in BOOLEAN
  /\ parts \in Int
  /\ done \in 0 .. MaxDone
  /\ spi \in Seq(Message) /\ Len(spi) <= MaxFlight
  /\ pages \in Nat
  /\ seen \subseteq Failures
  /\ fpga \in {"off", "ready", "loaded", "started", "crc_error"}
  /\ got \in Nat
  /\ mixed \in BOOLEAN

(* None of these failures has happened, in this call or an earlier one.    *)
Never(f) == seen \cap f = {}

(* What borph_load_hw relies on, as it stands: a result that is not        *)
(* negative means a configured FPGA.                                       *)
ResultTrusted ==
  cpc = "idle" /\ fpga # "off" /\ retval >= 0 => fpga = "started"

(* borph_load_hw takes retval >= 0 for a configured FPGA: after such a     *)
(* return the design really runs, whatever payloads were refused, signals  *)
(* and timeouts met before; all that must be ruled out is a bitstream that *)
(* is not valid, a failed transfer or read in any call so far, and an FPGA *)
(* that starts late.                                                       *)
SuccessIsReal ==
  payload.valid /\ Never({"spi_err", "read_err", "slow_done"}) => ResultTrusted

(* "Wait for signal that all configuration data has been sent": after the  *)
(* wait nothing is in flight and the FPGA has every byte, unless a read or *)
(* a transfer has failed, in this call or in any earlier one.              *)
AllSentAfterWait ==
  cpc = "check" /\ Never({"spi_err", "read_err"})
  => spi = <<>> /\ got = payload.len

(* A call leaves nothing behind that the next one would trip over: no      *)
(* message in flight, no completion nobody waited for, the counter at 0.   *)
NothingLeftOver ==
  cpc = "idle" /\ Never({"spi_err", "read_err"})
  => spi = <<>> /\ done = 0 /\ parts = 0

(* Every page is freed by the callback of its message, or at once when it  *)
(* could not be filled; only a call that gives up loses one, and it gives  *)
(* up only if a transfer, or a read of an earlier call, has failed.        *)
PagesFreed ==
  /\ "gave_up" \notin seen => pages = Len(spi)
  /\ "gave_up" \in seen => ~Never({"spi_err", "read_err"})

(* The FPGA never gets data of one BOF file while it is configured from    *)
(* another one, as long as no call was cut short by a failing read or      *)
(* transfer.                                                               *)
OwnDataOnly ==
  fpga = "ready" /\ payload.valid /\ Never({"spi_err", "read_err"}) => ~mixed

(* One call of rhino_configure never meets what another one left: all of   *)
(* this, until the first failing transfer or read.                         *)
CallsApart == AllSentAfterWait /\ NothingLeftOver /\ OwnDataOnly

(* I/O and configuration exclude each other, and the semaphore is given    *)
(* back exactly once on every path out of rhino_configure.                 *)
IoExcluded ==
  LET inside == cpc \in {"send", "check"} IN
  /\ ~(io /\ inside)
  /\ sem = 1 <=> ~io /\ ~inside

(* A call that has begun returns, whatever fails in it or failed before,   *)
(* but for the two payloads without a last part: whole pages, which nobody *)
(* completes, and a file shorter than pl_len, whose loop has no end.       *)
WholePages == payload.len % PAGE_SIZE = 0
Truncated == payload.avail < payload.len
CallReturns ==
  (cpc # "idle") ~> (cpc = "idle" \/ WholePages \/ Truncated)

(* A valid, complete bitstream that is sent without an error ends up       *)
(* running, and the call for it returns 0, if the FPGA is quick enough.    *)
ValidIsStarted ==
  [][cpc = "check" /\ payload.valid /\ Never({"spi_err", "read_err", "slow_done"})
     => retval' = 0 /\ fpga = "started"]_<<cpc, retval>>
===============================================================================
