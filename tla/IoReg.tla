-------------------------------- MODULE IoReg --------------------------------
(***************************************************************************)
(* The files of /proc/<pid>/hw/ioreg: read, write and seek of one register *)
(* of a running BORPH process (fs/proc/proc_borph.c), through the single   *)
(* I/O buffer of the driver (rhino_get_iobuf, rhino_put_iobuf) and the     *)
(* 16-bit bus (rhino_send_iobuf, rhino_recv_iobuf), while other clients do *)
(* the same, the format is switched through ioreg_mode, and the process    *)
(* exits.                                                                  *)
(*                                                                         *)
(* A step is what a client does between two points where it can sleep: in  *)
(* get_iobuf, and in the page faults of copy_from_user and copy_to_user.   *)
(* Every client has an open file of its own.  sys_read and sys_write hand  *)
(* a copy of the file position to the handler and store it back, so a      *)
(* register with IORM_PIPE only ever answers -ESPIPE: it is left out.      *)
(* Lengths and positions are in bytes, memory is in 16-bit words.  A use   *)
(* of the freed register or borph_info has no defined outcome: it sets uaf *)
(* and the behaviour ends there.                                           *)
(***************************************************************************)
EXTENDS Integers, FiniteSetsExt

CONSTANTS
  Clients,    \* tasks that have the register open
  Len,        \* reg->len
  BufSize,    \* PAGE_SIZE - 12: the size of the I/O buffer
  NUMTMPBUF,  \* longest ASCII number
  Counts,     \* byte counts of read and write
  Seeks,      \* positions of lseek, even: the bus has no odd addresses
  Words,      \* size of the bus window in words, the register being first
  Env         \* "efault": bad user pointers; "exit": the process exits;
              \* "signal": a client that waits for the buffer gets a signal

ASSUME IoRegAssumption ==
  /\ {Len, BufSize, NUMTMPBUF, Words} \cup Counts \cup Seeks \subseteq Nat
  /\ NUMTMPBUF <= BufSize
  /\ 4 <= BufSize
  /\ "init" \notin Clients

(* errno.h *)
EINVAL == 22

VARIABLES
  pc,       \* see Labels
  fpos,     \* *fpos of each client
  call,     \* the locals of each client's read or write, see Call
  mode,     \* bi->ioreg_mode
  alive,    \* the process has its borph_info and registers
  sem,      \* rhino_mutex
  buf,      \* iobuf->data, one value per word
  mem,      \* the words on the bus; clients write their own names
  faulted,  \* some raw write met a bad user pointer
  uaf       \* freed memory was used

vars == <<pc, fpos, call, mode, alive, sem, buf, mem, faulted, uaf>>

(* "rget", "wget", "aget": waiting for the buffer in a read, a raw write,  *)
(* an ASCII write; "rcopy": copy_to_user; "wcopy": copy_from_user into the *)
(* buffer; "acopy": copy_from_user into tmpbuf, without the buffer.        *)
Labels == {"idle", "rget", "rcopy", "wget", "wcopy", "acopy", "aget"}

(* Of a call: the byte count the client gave; fcount or datacnt, as cut by *)
(* the handler; regblen; what it will return unless something changes that.*)
Call == [asked : Nat, cnt : Nat, regblen : Nat, ret : Int]
NoCall == [asked |-> 0, cnt |-> 0, regblen |-> 0, ret |-> 0]

BufWords == 0 .. (BufSize \div 2) - 1
Bus == 0 .. Words - 1

Init ==
  /\ pc = [c \in Clients |-> "idle"]
  /\ fpos = [c \in Clients |-> 0]
  /\ call = [c \in Clients |-> NoCall]
  /\ mode = 1
  /\ alive = TRUE
  /\ sem = 1
  /\ buf = [k \in BufWords |-> "init"]
  /\ mem = [k \in Bus |-> "init"]
  /\ faulted = FALSE
  /\ uaf = FALSE

-----------------------------------------------------------------------------
At(c, label) == pc[c] = label /\ alive /\ ~uaf
Goto(c, label) == pc' = [pc EXCEPT ![c] = label]

(* The call is over, its locals are gone.                                  *)
Return(c) == Goto(c, "idle") /\ call' = [call EXCEPT ![c] = NoCall]

(* The words that an access of n bytes at the client's position covers.    *)
Covered(c, n) == LET w == fpos[c] \div 2 IN w .. w + (n \div 2) - 1

(* rhino_recv_iobuf: n bytes, in whole words, from the client's position   *)
(* into the buffer.                                                        *)
Recv(c, n) ==
  buf' = [k \in BufWords |->
            IF k + (fpos[c] \div 2) \in Covered(c, n) \cap Bus
              THEN mem[k + (fpos[c] \div 2)] ELSE buf[k]]

(* rhino_send_iobuf: n bytes, in whole words, from buffer b to the bus.    *)
Send(c, n, b) ==
  mem' = [k \in Bus |->
            IF k \in Covered(c, n) THEN b[k - (fpos[c] \div 2)] ELSE mem[k]]

Advance(c, r) == fpos' = [fpos EXCEPT ![c] = @ + r]

-----------------------------------------------------------------------------
(* ioreg_reg_read.                                                         *)

RegBytes == IF mode = 0 THEN 2 * Len ELSE Len

(* Mutant: the count is not cut at the end of the register.                *)
ReadStartUncut(c, n) ==
  /\ At(c, "idle") /\ fpos[c] < RegBytes
  /\ call' = [call EXCEPT ![c] =
                [asked |-> n, regblen |-> RegBytes, ret |-> 0,
                 cnt |-> Min({n, BufSize})]]
  /\ Goto(c, "rget")
  /\ UNCHANGED <<fpos, mode, alive, sem, buf, mem, faulted, uaf>>

(* The length in the format of this moment cuts the count; then the read   *)
(* asks for the buffer.  At the end of the register it returns 0 at once.  *)
ReadStart(c, n) ==
  /\ At(c, "idle") /\ fpos[c] < RegBytes
  /\ call' = [call EXCEPT ![c] =
                [asked |-> n, regblen |-> RegBytes, ret |-> 0,
                 cnt |-> Min({n, RegBytes - fpos[c], BufSize})]]
  /\ Goto(c, "rget")
  /\ UNCHANGED <<fpos, mode, alive, sem, buf, mem, faulted, uaf>>

(* The format is looked at again.  to_ascii turns one 4-byte word into 8   *)
(* hexadecimal digits and a newline and refuses everything else.           *)
ReadLen(c) ==
  LET n == call[c].cnt IN 2 * ((IF mode = 0 THEN n \div 2 ELSE n) \div 2)

(* Mutant: the buffer is given back before its data is copied out.         *)
ReadRecvPutEarly(c) ==
  /\ At(c, "rget") /\ sem > 0
  /\ Recv(c, ReadLen(c))
  /\ IF mode = 0 /\ ReadLen(c) # 4
       THEN Return(c)
       ELSE /\ Goto(c, "rcopy")
            /\ call' = [call EXCEPT ![c].ret = IF mode = 0 THEN 9 ELSE ReadLen(c)]
  /\ UNCHANGED <<fpos, mode, alive, sem, mem, faulted, uaf>>

(* Mutant: to_ascii converts what it gets, of any length.                  *)
ReadRecvAnyLength(c) ==
  /\ At(c, "rget") /\ sem > 0
  /\ Recv(c, ReadLen(c))
  /\ Goto(c, "rcopy")
  /\ call' = [call EXCEPT ![c].ret = IF mode = 0 THEN 9 ELSE ReadLen(c)]
  /\ sem' = sem - 1
  /\ UNCHANGED <<fpos, mode, alive, mem, faulted, uaf>>

ReadRecv(c) ==
  /\ At(c, "rget") /\ sem > 0
  /\ Recv(c, ReadLen(c))
  /\ IF mode = 0 /\ ReadLen(c) # 4
       THEN Return(c) /\ UNCHANGED sem
       ELSE /\ Goto(c, "rcopy")
            /\ call' = [call EXCEPT ![c].ret = IF mode = 0 THEN 9 ELSE ReadLen(c)]
            /\ sem' = sem - 1
  /\ UNCHANGED <<fpos, mode, alive, mem, faulted, uaf>>

(* copy_to_user, whose result is ignored, is over.                         *)
ReadCopied(c) ==
  /\ At(c, "rcopy")
  /\ Advance(c, call[c].ret)
  /\ Return(c)
  /\ sem' = sem + 1
  /\ UNCHANGED <<mode, alive, buf, mem, faulted, uaf>>

-----------------------------------------------------------------------------
(* ioreg_reg_write.                                                        *)

(* Mutant: the data is not cut at the end of the register.                 *)
RawWriteStartUncut(c, n) ==
  /\ At(c, "idle") /\ fpos[c] < Len /\ mode = 1
  /\ call' = [call EXCEPT ![c] =
                [asked |-> n, regblen |-> 0, ret |-> -EINVAL, cnt |-> n]]
  /\ Goto(c, "wget")
  /\ UNCHANGED <<fpos, mode, alive, sem, buf, mem, faulted, uaf>>

(* Mode 1 is the raw format.  "no appending": a write past the end claims  *)
(* at once to have written everything.                                     *)
RawWriteStart(c, n) ==
  /\ At(c, "idle") /\ fpos[c] < Len /\ mode = 1
  /\ call' = [call EXCEPT ![c] =
                [asked |-> n, regblen |-> 0, ret |-> -EINVAL,
                 cnt |-> Min({n, Len - fpos[c]})]]
  /\ Goto(c, "wget")
  /\ UNCHANGED <<fpos, mode, alive, sem, buf, mem, faulted, uaf>>

(* Every other mode writes ASCII, which wants position 0 and a short       *)
(* number and otherwise returns an error at once.                          *)
AsciiWriteStart(c, n) ==
  /\ At(c, "idle") /\ fpos[c] < Len /\ mode # 1
  /\ fpos[c] = 0 /\ n <= NUMTMPBUF
  /\ call' = [call EXCEPT ![c] =
                [asked |-> n, regblen |-> 0, ret |-> -EINVAL, cnt |-> n]]
  /\ Goto(c, "acopy")
  /\ UNCHANGED <<fpos, mode, alive, sem, buf, mem, faulted, uaf>>

(* A raw write has the buffer; the first word is copied before a page of   *)
(* the user's data has to be brought in.                                   *)
WriteGet(c) ==
  /\ At(c, "wget") /\ sem > 0
  /\ sem' = sem - 1
  /\ call' = [call EXCEPT ![c].cnt = Min({@, BufSize})]
  /\ buf' = [buf EXCEPT ![0] = c]
  /\ Goto(c, "wcopy")
  /\ UNCHANGED <<fpos, mode, alive, mem, faulted, uaf>>

(* The rest is copied, the buffer is sent and given back.  A count that is *)
(* too small for a word sends nothing and returns 0.                       *)
WriteSend(c) ==
  /\ At(c, "wcopy")
  /\ buf' = [k \in BufWords |-> IF k > 0 /\ k < call[c].cnt \div 2
                                   THEN c ELSE buf[k]]
  /\ Send(c, call[c].cnt, buf')
  /\ Return(c)
  /\ Advance(c, 2 * (call[c].cnt \div 2))
  /\ sem' = sem + 1
  /\ UNCHANGED <<mode, alive, faulted, uaf>>

(* copy_from_user fails: the error return does not give the buffer back.   *)
WriteFaults(c) ==
  /\ "efault" \in Env
  /\ At(c, "wcopy")
  /\ Return(c)
  /\ faulted' = TRUE
  /\ UNCHANGED <<fpos, mode, alive, sem, buf, mem, uaf>>

(* An ASCII number is copied (or not) and converted (or not).              *)
AsciiConvert(c) ==
  /\ At(c, "acopy")
  /\ Goto(c, "aget")
  /\ UNCHANGED <<fpos, call, mode, alive, sem, buf, mem, faulted, uaf>>

AsciiRefused(c) ==
  /\ At(c, "acopy")
  /\ Return(c)
  /\ UNCHANGED <<fpos, mode, alive, sem, buf, mem, faulted, uaf>>

(* Mutant: the buffer is not given back.                                   *)
AsciiSendNoPut(c) ==
  /\ At(c, "aget") /\ sem > 0
  /\ buf' = [k \in BufWords |-> IF k < 2 THEN c ELSE buf[k]]
  /\ Send(c, 4, buf')
  /\ Return(c)
  /\ Advance(c, 4)
  /\ sem' = sem - 1
  /\ UNCHANGED <<mode, alive, faulted, uaf>>

(* The buffer is taken, filled with the 4 bytes of the number, sent and    *)
(* given back without a sleep.                                             *)
AsciiSend(c) ==
  /\ At(c, "aget") /\ sem > 0
  /\ buf' = [k \in BufWords |-> IF k < 2 THEN c ELSE buf[k]]
  /\ Send(c, 4, buf')
  /\ Return(c)
  /\ Advance(c, 4)
  /\ UNCHANGED <<mode, alive, sem, faulted, uaf>>

-----------------------------------------------------------------------------
(* down_interruptible is interrupted: get_iobuf returns NULL.  The call    *)
(* returns what is already in its retval: 0 for a read, -EINVAL for a      *)
(* write.                                                                  *)
Interrupted(c) ==
  /\ "signal" \in Env
  /\ pc[c] \in {"rget", "wget", "aget"} /\ alive /\ ~uaf
  /\ Return(c)
  /\ UNCHANGED <<fpos, mode, alive, sem, buf, mem, faulted, uaf>>

(* ioreg_reg_lseek.                                                        *)
Lseek(c, p) ==
  /\ At(c, "idle")
  /\ fpos' = [fpos EXCEPT ![c] = p]
  /\ UNCHANGED <<pc, call, mode, alive, sem, buf, mem, faulted, uaf>>

(* ioregmode_write takes the digits '0' to '9'; 2 stands for all the ones  *)
(* above 1.                                                                *)
IoregModeWrite(m) ==
  /\ alive /\ ~uaf
  /\ mode' = m
  /\ UNCHANGED <<pc, fpos, call, alive, sem, buf, mem, faulted, uaf>>

(* borph_exit_fpga frees the registers and the borph_info and powers the   *)
(* FPGA off, without a look at the semaphore.                              *)
ProcessExits ==
  /\ "exit" \in Env
  /\ alive /\ ~uaf
  /\ alive' = FALSE
  /\ UNCHANGED <<pc, fpos, call, mode, sem, buf, mem, faulted, uaf>>

(* A client goes on, or calls again, with the pointers of its open file.   *)
UsesFreed ==
  /\ ~alive /\ ~uaf
  /\ uaf' = TRUE
  /\ UNCHANGED <<pc, fpos, call, mode, alive, sem, buf, mem, faulted>>

-----------------------------------------------------------------------------
(* What waits for the buffer, and what goes on when it has been woken.     *)
Get(c) == ReadRecv(c) \/ WriteGet(c) \/ AsciiSend(c)

Run(c) ==
  \/ ReadCopied(c) \/ WriteSend(c) \/ WriteFaults(c)
  \/ AsciiConvert(c) \/ AsciiRefused(c)

Start(c) ==
  \/ \E n \in Counts :
       ReadStart(c, n) \/ RawWriteStart(c, n) \/ AsciiWriteStart(c, n)
  \/ \E p \in Seeks : Lseek(c, p)

Next ==
  \/ \E c \in Clients : Start(c) \/ Get(c) \/ Run(c) \/ Interrupted(c)
  \/ \E m \in {0, 1, 2} : IoregModeWrite(m)
  \/ ProcessExits
  \/ UsesFreed

Spec == Init /\ [][Next]_vars

(* A page fault ends; the semaphore serves its waiters in order, so that a *)
(* waiter gets it although others come again and again.                    *)
FairSpec ==
  /\ Spec
  /\ \A c \in Clients : WF_vars(Run(c)) /\ SF_vars(Get(c))

-----------------------------------------------------------------------------
(* Properties.                                                             *)

TypeOK ==
  /\ pc \in [Clients -> Labels]
  /\ fpos \in [Clients -> Nat]
  /\ call \in [Clients -> Call]
  /\ mode \in {0, 1, 2}
  /\ sem \in {0, 1}
  /\ buf \in [BufWords -> Clients \cup {"init"}]
  /\ mem \in [Bus -> Clients \cup {"init"}]
  /\ alive \in BOOLEAN /\ faulted \in BOOLEAN /\ uaf \in BOOLEAN

Holds(c) == pc[c] \in {"rcopy", "wcopy"}

(* "there can only be one ioreg performing I/O at a time": one client has  *)
(* the buffer, and as long as no user pointer was bad it is free whenever  *)
(* nobody has it: every path out of a read or write gives it back.         *)
BufferBalanced ==
  /\ \A c, d \in Clients : Holds(c) /\ Holds(d) => c = d
  /\ \A c \in Clients : Holds(c) => sem = 0
  /\ (\A c \in Clients : ~Holds(c)) /\ ~faulted => sem = 1

(* While a client copies between the buffer and its own memory, asleep in  *)
(* a page fault perhaps, nobody else changes the buffer.                   *)
BufferKept ==
  [][\A c \in Clients : Holds(c) /\ pc'[c] = pc[c] => buf' = buf]_vars

(* A word on the bus changes only to the data of a client that is writing. *)
(* A raw write stays within the register and within that client's position *)
(* and count (at an odd position it changes the whole word around it); an  *)
(* ASCII write changes no more than the first 4 bytes, which is over the   *)
(* end of a register that is shorter.                                      *)
WritesOwnRange ==
  [][\A k \in Bus : mem'[k] # mem[k] =>
       \E c \in Clients :
         /\ mem'[k] = c /\ pc'[c] = "idle"
         /\ \/ /\ pc[c] = "wcopy"
               /\ 2 * k + 1 >= fpos[c]
               /\ 2 * k + 2 <= Len
               /\ 2 * k + 2 <= fpos[c] + call[c].asked
            \/ /\ pc[c] = "aget"
               /\ fpos[c] = 0
               /\ 2 * k + 2 <= 4]_vars

(* A read for which the format stayed raw returns at most what was asked   *)
(* for, and nothing from beyond the register: its cut, made before the     *)
(* wait for the buffer, is still right after it.                           *)
RawReadInside ==
  \A c \in Clients : LET r == call[c].ret IN
    pc[c] = "rcopy" /\ call[c].regblen = Len /\ r # 9 =>
      r <= call[c].asked /\ fpos[c] + r <= Len

(* A read hands its client no more bytes than were asked for, although the *)
(* format may change between the cut of the count and the conversion, with *)
(* one exception: who asks for the 8 digits of a word gets the newline too.*)
ReadFits ==
  \A c \in Clients : LET r == call[c].ret IN
    pc[c] = "rcopy" => r <= call[c].asked \/ (r = 9 /\ call[c].asked = 8)

(* A read stays inside the register and inside the memory of its client.   *)
ReadsInside == RawReadInside /\ ReadFits

(* Every read and write returns, unless a bad user pointer has cost the    *)
(* system its buffer, or the process exited.                               *)
IoReturns ==
  \A c \in Clients : (pc[c] # "idle") ~> (pc[c] = "idle" \/ faulted \/ ~alive)

==============================================================================
