----------------------------- MODULE IoRegProofs -----------------------------
(* For any clients, register, buffer size, counts and environment: one      *)
(* client at a time has the I/O buffer, gives it back, and finds in it what *)
(* it put there; a read stays inside the register and the client's memory;  *)
(* a write changes only its own range of a register of 4 to 9 bytes.        *)
EXTENDS IoReg, TLAPS

(* BufferBalanced is inductive once the program points and the semaphore   *)
(* have their types: a semaphore of 2 would let a second client in.        *)
BufferInv ==
  /\ pc \in [Clients -> Labels]
  /\ sem \in {0, 1}
  /\ BufferBalanced

LEMMA InitBuffer == Init => BufferInv
  BY DEF Init, BufferInv, BufferBalanced, Holds, Labels

(* A call that takes or returns the buffer, or does neither.                *)
LEMMA NextBuffer == BufferInv /\ [Next]_vars => BufferInv'
<1> SUFFICES ASSUME BufferInv, [Next]_vars PROVE BufferInv'
  OBVIOUS
<1> USE DEF BufferInv, BufferBalanced, Holds, Labels
<1>1. ASSUME NEW c \in Clients, Start(c) PROVE BufferInv'
  BY <1>1 DEF Start, ReadStart, RawWriteStart, AsciiWriteStart, Lseek, At, Goto
<1>2. ASSUME NEW c \in Clients, ReadRecv(c) PROVE BufferInv'
  <2>1. CASE mode = 0 /\ ReadLen(c) # 4
    BY <1>2, <2>1 DEF ReadRecv, At, Goto, Return
  <2>2. CASE ~(mode = 0 /\ ReadLen(c) # 4)
    BY <1>2, <2>2 DEF ReadRecv, At, Goto, Return
  <2> QED BY <2>1, <2>2
<1>3. ASSUME NEW c \in Clients, WriteGet(c) PROVE BufferInv'
  BY <1>3 DEF WriteGet, At, Goto
<1>4. ASSUME NEW c \in Clients, AsciiSend(c) PROVE BufferInv'
  BY <1>4 DEF AsciiSend, At, Goto, Return
<1>5. ASSUME NEW c \in Clients, ReadCopied(c) PROVE BufferInv'
  BY <1>5 DEF ReadCopied, At, Goto, Return
<1>6. ASSUME NEW c \in Clients, WriteSend(c) PROVE BufferInv'
  BY <1>6 DEF WriteSend, At, Goto, Return
<1>7. ASSUME NEW c \in Clients, WriteFaults(c) PROVE BufferInv'
  BY <1>7 DEF WriteFaults, At, Goto, Return
<1>8. ASSUME NEW c \in Clients, AsciiConvert(c) \/ AsciiRefused(c)
      PROVE  BufferInv'
  BY <1>8 DEF AsciiConvert, AsciiRefused, At, Goto, Return
<1>9. ASSUME NEW c \in Clients, Interrupted(c) PROVE BufferInv'
  BY <1>9 DEF Interrupted, Goto, Return
<1>10. CASE \E m \in {0, 1, 2} : IoregModeWrite(m)
  BY <1>10 DEF IoregModeWrite
<1>11. CASE ProcessExits \/ UsesFreed
  BY <1>11 DEF ProcessExits, UsesFreed
<1>12. CASE UNCHANGED vars
  BY <1>12 DEF vars
<1> QED
  BY <1>1, <1>2, <1>3, <1>4, <1>5, <1>6, <1>7, <1>8, <1>9, <1>10, <1>11, <1>12
  DEF Next, Get, Run

(* BufferBalanced holds for any number of clients and any environment:     *)
(* rhino_get_iobuf and rhino_put_iobuf are paired on every path of         *)
(* ioreg_reg_read and ioreg_reg_write but the one of a bad user pointer.   *)
THEOREM BufferBalancedCorrect == Spec => []BufferBalanced
<1>1. Spec => []BufferInv
  BY InitBuffer, NextBuffer, PTL DEF Spec
<1> QED
  BY <1>1, PTL DEF BufferInv

(* A step that changes the buffer is one of a client that takes it, so     *)
(* that nobody had it, or of the client that has it and leaves.            *)
LEMMA StepKeepsBuffer ==
  ASSUME BufferInv, [Next]_vars,
         NEW c \in Clients, Holds(c), pc'[c] = pc[c]
  PROVE  buf' = buf
<1> USE DEF BufferInv, BufferBalanced, Holds, Labels
<1>1. sem = 0
  OBVIOUS
<1>2. ASSUME NEW d \in Clients, Start(d) PROVE buf' = buf
  BY <1>2 DEF Start, ReadStart, RawWriteStart, AsciiWriteStart, Lseek
<1>3. ASSUME NEW d \in Clients PROVE ~Get(d)
  BY <1>1 DEF Get, ReadRecv, WriteGet, AsciiSend
<1>4. ASSUME NEW d \in Clients, Run(d) PROVE buf' = buf
  <2>1. CASE WriteSend(d)
    <3>1. d = c
      BY <2>1 DEF WriteSend, At
    <3> QED
      BY <2>1, <3>1 DEF WriteSend, At, Goto, Return
  <2> QED
    BY <1>4, <2>1 DEF Run, ReadCopied, WriteFaults, AsciiConvert, AsciiRefused
<1>5. ASSUME NEW d \in Clients, Interrupted(d) PROVE buf' = buf
  BY <1>5 DEF Interrupted
<1>6. CASE \E m \in {0, 1, 2} : IoregModeWrite(m)
  BY <1>6 DEF IoregModeWrite
<1>7. CASE ProcessExits \/ UsesFreed
  BY <1>7 DEF ProcessExits, UsesFreed
<1>8. CASE UNCHANGED vars
  BY <1>8 DEF vars
<1> QED
  BY <1>2, <1>3, <1>4, <1>5, <1>6, <1>7, <1>8 DEF Next

(* BufferKept holds likewise: a client that sleeps in copy_to_user or      *)
(* copy_from_user wakes up to the buffer it left.                          *)
THEOREM BufferKeptCorrect == Spec => BufferKept
<1>1. Spec => []BufferInv
  BY InitBuffer, NextBuffer, PTL DEF Spec
<1>2. BufferInv /\ [Next]_vars =>
        [\A c \in Clients : Holds(c) /\ pc'[c] = pc[c] => buf' = buf]_vars
  BY StepKeepsBuffer
<1> QED
  BY <1>1, <1>2, PTL DEF Spec, BufferKept

-----------------------------------------------------------------------------
(* The counts of a read or write at each of its steps: what ReadStart cut  *)
(* is still cut when the buffer comes, since the client's own position     *)
(* does not move meanwhile.                                                *)
CountsOK(c) ==
  /\ pc[c] = "rget" => /\ call[c].cnt <= call[c].asked
                       /\ fpos[c] + call[c].cnt <= call[c].regblen
  /\ pc[c] = "rcopy" => call[c].ret \in Nat
  /\ pc[c] = "wcopy" => call[c].cnt <= BufSize

ReadInv ==
  /\ TypeOK
  /\ \A c \in Clients : CountsOK(c)
  /\ ReadsInside

(* The smallest of three numbers is one of them and none is below it.      *)
LEMMA MinOfThree ==
  ASSUME NEW a \in Nat, NEW b \in Nat, NEW d \in Nat
  PROVE  /\ Min({a, b, d}) \in Nat
         /\ Min({a, b, d}) <= a /\ Min({a, b, d}) <= b /\ Min({a, b, d}) <= d
<1> DEFINE S == {a, b, d}
<1>1. \E x \in S : \A y \in S : x <= y
  <2>1. CASE a <= b /\ a <= d
    BY <2>1
  <2>2. CASE b <= a /\ b <= d
    BY <2>2
  <2>3. CASE d <= a /\ d <= b
    BY <2>3
  <2> QED BY <2>1, <2>2, <2>3
<1>2. Min(S) \in S /\ \A y \in S : Min(S) <= y
  BY <1>1 DEF Min
<1> QED BY <1>2

(* A buffer, sent in whole words, puts words of the buffer on the bus.     *)
LEMMA SendType ==
  ASSUME NEW c \in Clients, NEW n \in Nat, n <= BufSize,
         NEW b \in [BufWords -> Clients \cup {"init"}], TypeOK, Send(c, n, b)
  PROVE  mem' \in [Bus -> Clients \cup {"init"}]
<1>1. fpos[c] \in Nat /\ BufSize \in Nat /\ Words \in Nat
  BY IoRegAssumption DEF TypeOK
<1>2. ASSUME NEW k \in Bus, k \in Covered(c, n) PROVE k - (fpos[c] \div 2) \in BufWords
  <2> DEFINE w == fpos[c] \div 2
  <2>1. w \in Nat /\ n \div 2 \in Nat /\ BufSize \div 2 \in Nat /\ n \div 2 <= BufSize \div 2
    BY <1>1
  <2>2. k \in Int /\ w <= k /\ k <= w + (n \div 2) - 1
    BY <1>2, <2>1 DEF Covered
  <2> HIDE DEF w
  <2>3. k - w \in 0 .. (BufSize \div 2) - 1
    BY <2>1, <2>2
  <2> QED BY <2>3 DEF w, BufWords
<1>3. mem \in [Bus -> Clients \cup {"init"}]
  BY DEF TypeOK
<1> QED
  BY <1>2, <1>3 DEF Send

(* A call of client c begins, goes on or ends without the bus.             *)
LEMMA ReadStep ==
  ASSUME ReadInv, NEW c \in Clients, ReadRecv(c)
  PROVE  ReadInv'
<1> DEFINE n == call[c].cnt
           r == IF mode = 0 THEN 9 ELSE ReadLen(c)
<1>1. /\ n \in Nat /\ fpos[c] \in Nat /\ call[c].asked \in Nat /\ call[c].regblen \in Nat
      /\ n <= call[c].asked /\ fpos[c] + n <= call[c].regblen
      /\ pc[c] = "rget" /\ sem = 1
  BY DEF ReadInv, TypeOK, Call, CountsOK, ReadRecv, At
<1>2. /\ ReadLen(c) \in Nat
      /\ mode # 0 => ReadLen(c) <= n
      /\ mode = 0 /\ ReadLen(c) = 4 => 8 <= n
  BY <1>1 DEF ReadLen
<1>3. buf' \in [BufWords -> Clients \cup {"init"}]
  <2>1. \A k \in BufWords, m \in Nat : k + (fpos[c] \div 2) \in Covered(c, m) \cap Bus
            => mem[k + (fpos[c] \div 2)] \in Clients \cup {"init"}
    BY DEF ReadInv, TypeOK
  <2> QED BY <1>2, <2>1 DEF ReadRecv, Recv, ReadInv, TypeOK
<1>4. CASE mode = 0 /\ ReadLen(c) # 4
  <2>1. /\ pc' = [pc EXCEPT ![c] = "idle"] /\ call' = [call EXCEPT ![c] = NoCall]
        /\ UNCHANGED <<fpos, mode, alive, sem, mem, faulted, uaf>>
    BY <1>4 DEF ReadRecv, Return, Goto
  <2>2. TypeOK'
    BY <1>3, <2>1 DEF ReadInv, TypeOK, Labels, NoCall, Call
  <2> QED
    BY <2>1, <2>2 DEF ReadInv, TypeOK, CountsOK, ReadsInside, RawReadInside, ReadFits
<1>5. CASE ~(mode = 0 /\ ReadLen(c) # 4)
  <2>1. /\ pc' = [pc EXCEPT ![c] = "rcopy"] /\ call' = [call EXCEPT ![c].ret = r]
        /\ sem' = sem - 1
        /\ UNCHANGED <<fpos, mode, alive, mem, faulted, uaf>>
    BY <1>5 DEF ReadRecv, Return, Goto
  <2>2. r \in Nat /\ (r <= call[c].asked \/ (r = 9 /\ call[c].asked = 8))
        /\ (r # 9 => r <= call[c].asked /\ fpos[c] + r <= call[c].regblen)
    BY <1>1, <1>2, <1>5
  <2> HIDE DEF r
  <2>3. TypeOK'
    BY <1>1, <1>3, <2>1, <2>2 DEF ReadInv, TypeOK, Labels, Call
  <2>4. /\ \A d \in Clients : d # c => pc'[d] = pc[d] /\ call'[d] = call[d]
        /\ pc'[c] = "rcopy" /\ call'[c].ret = r /\ call'[c].asked = call[c].asked
        /\ call'[c].regblen = call[c].regblen
    BY <2>1 DEF ReadInv, TypeOK, Call
  <2>5. ReadsInside'
    BY <2>1, <2>2, <2>4 DEF ReadInv, ReadsInside, RawReadInside, ReadFits
  <2>6. \A d \in Clients : CountsOK(d)'
    BY <2>1, <2>2, <2>4 DEF ReadInv, CountsOK
  <2> QED BY <2>3, <2>5, <2>6 DEF ReadInv
<1> QED BY <1>4, <1>5

(* A call begins with counts that are cut to the register and the buffer.  *)
LEMMA StartStep ==
  ASSUME ReadInv, NEW c \in Clients, Start(c)
  PROVE  ReadInv'
<1> USE IoRegAssumption
<1>1. /\ fpos[c] \in Nat /\ Len \in Nat /\ BufSize \in Nat /\ RegBytes \in Nat
      /\ \A n \in Counts : n \in Nat
      /\ pc[c] = "idle"
  <2>1. fpos[c] \in Nat /\ Len \in Nat /\ BufSize \in Nat /\ \A n \in Counts : n \in Nat
    BY DEF ReadInv, TypeOK
  <2>2. RegBytes \in Nat
    BY <2>1 DEF RegBytes
  <2>3. pc[c] = "idle"
    BY DEF Start, ReadStart, RawWriteStart, AsciiWriteStart, Lseek, At
  <2> QED BY <2>1, <2>2, <2>3
<1>2. ASSUME NEW k \in [asked : Nat, cnt : Nat, regblen : Nat, ret : Int],
             NEW l \in {"rget", "wget", "acopy"},
             l = "rget" => k.cnt <= k.asked /\ fpos[c] + k.cnt <= k.regblen,
             call' = [call EXCEPT ![c] = k], Goto(c, l),
             UNCHANGED <<fpos, mode, alive, sem, buf, mem, faulted, uaf>>
      PROVE  ReadInv'
  <2>1. TypeOK'
    BY <1>2 DEF ReadInv, TypeOK, Goto, Labels, Call
  <2>2. /\ \A d \in Clients : d # c => pc'[d] = pc[d] /\ call'[d] = call[d]
        /\ pc'[c] = l /\ call'[c] = k
    BY <1>2 DEF ReadInv, TypeOK, Goto
  <2>3. ReadsInside'
    BY <1>2, <2>2 DEF ReadInv, ReadsInside, RawReadInside, ReadFits
  <2>4. \A d \in Clients : CountsOK(d)'
    BY <1>2, <2>2 DEF ReadInv, CountsOK
  <2> QED BY <2>1, <2>3, <2>4 DEF ReadInv
<1>3. ASSUME NEW n \in Counts, ReadStart(c, n) PROVE ReadInv'
  <2> DEFINE m == Min({n, RegBytes - fpos[c], BufSize})
  <2>1. fpos[c] < RegBytes
    BY <1>3 DEF ReadStart
  <2>2. m \in Nat /\ m <= n /\ m <= RegBytes - fpos[c]
    BY <1>1, <2>1, MinOfThree
  <2>3. fpos[c] + m <= RegBytes
    BY <1>1, <2>2
  <2> HIDE DEF m
  <2>4. /\ call' = [call EXCEPT ![c] = [asked |-> n, regblen |-> RegBytes, ret |-> 0, cnt |-> m]]
        /\ Goto(c, "rget") /\ UNCHANGED <<fpos, mode, alive, sem, buf, mem, faulted, uaf>>
    BY <1>3 DEF ReadStart, m
  <2>5. [asked |-> n, regblen |-> RegBytes, ret |-> 0, cnt |-> m]
          \in [asked : Nat, cnt : Nat, regblen : Nat, ret : Int]
    BY <1>1, <2>2
  <2> QED
    BY <1>2, <2>2, <2>3, <2>4, <2>5
<1>4. ASSUME NEW n \in Counts, RawWriteStart(c, n) PROVE ReadInv'
  <2> DEFINE m == Min({n, Len - fpos[c]})
  <2>1. fpos[c] < Len
    BY <1>4 DEF RawWriteStart
  <2>2. m = Min({n, Len - fpos[c], Len - fpos[c]})
    <3>1. {n, Len - fpos[c]} = {n, Len - fpos[c], Len - fpos[c]}
      OBVIOUS
    <3> QED BY <3>1
  <2>3. m \in Nat
    BY <1>1, <2>1, <2>2, MinOfThree
  <2> HIDE DEF m
  <2>4. /\ call' = [call EXCEPT ![c] = [asked |-> n, regblen |-> 0, ret |-> -EINVAL, cnt |-> m]]
        /\ Goto(c, "wget") /\ UNCHANGED <<fpos, mode, alive, sem, buf, mem, faulted, uaf>>
    BY <1>4 DEF RawWriteStart, m
  <2>5. [asked |-> n, regblen |-> 0, ret |-> -EINVAL, cnt |-> m]
          \in [asked : Nat, cnt : Nat, regblen : Nat, ret : Int]
    BY <1>1, <2>3 DEF EINVAL
  <2> QED
    BY <1>2, <2>4, <2>5
<1>5. ASSUME NEW n \in Counts, AsciiWriteStart(c, n) PROVE ReadInv'
  <2>1. /\ call' = [call EXCEPT ![c] = [asked |-> n, regblen |-> 0, ret |-> -EINVAL, cnt |-> n]]
        /\ Goto(c, "acopy") /\ UNCHANGED <<fpos, mode, alive, sem, buf, mem, faulted, uaf>>
    BY <1>5 DEF AsciiWriteStart
  <2>2. [asked |-> n, regblen |-> 0, ret |-> -EINVAL, cnt |-> n]
          \in [asked : Nat, cnt : Nat, regblen : Nat, ret : Int]
    BY <1>1 DEF EINVAL
  <2> QED
    BY <1>2, <2>1, <2>2
<1>6. ASSUME NEW p \in Seeks, Lseek(c, p) PROVE ReadInv'
  <2>1. TypeOK'
    BY <1>6 DEF ReadInv, TypeOK, Lseek
  <2>2. \A d \in Clients : d # c => fpos'[d] = fpos[d]
    BY <1>6 DEF Lseek, ReadInv, TypeOK
  <2> QED
    BY <1>1, <1>6, <2>1, <2>2 DEF Lseek, ReadInv, CountsOK, ReadsInside, RawReadInside, ReadFits
<1> QED
  BY <1>3, <1>4, <1>5, <1>6 DEF Start

(* Client c returns: what remains to be shown is its file position and the *)
(* shared state.                                                           *)
LEMMA ReturnStep ==
  ASSUME ReadInv, NEW c \in Clients, Return(c),
         sem' \in {0, 1}, mode' = mode, alive' = alive, uaf' = uaf,
         faulted' \in BOOLEAN,
         NEW q \in Nat, fpos' = [fpos EXCEPT ![c] = q],
         buf' \in [BufWords -> Clients \cup {"init"}],
         mem' \in [Bus -> Clients \cup {"init"}]
  PROVE  ReadInv'
<1>1. TypeOK'
  BY DEF ReadInv, TypeOK, Return, Goto, Labels, NoCall, Call
<1>2. /\ \A d \in Clients : d # c => pc'[d] = pc[d] /\ call'[d] = call[d] /\ fpos'[d] = fpos[d]
      /\ pc'[c] = "idle"
  BY DEF ReadInv, TypeOK, Return, Goto
<1> QED
  BY <1>1, <1>2 DEF ReadInv, CountsOK, ReadsInside, RawReadInside, ReadFits

(* Every step keeps the counts of every client within bounds.              *)
LEMMA NextRead == ReadInv /\ BufferInv /\ [Next]_vars => ReadInv'
<1> SUFFICES ASSUME ReadInv, BufferInv, [Next]_vars PROVE ReadInv'
  OBVIOUS
<1>t. /\ mode \in {0, 1, 2} /\ sem \in {0, 1} /\ fpos \in [Clients -> Nat]
      /\ buf \in [BufWords -> Clients \cup {"init"}]
      /\ mem \in [Bus -> Clients \cup {"init"}]
      /\ faulted \in BOOLEAN /\ alive \in BOOLEAN /\ uaf \in BOOLEAN
      /\ \A c \in Clients : fpos[c] \in Nat /\ call[c].cnt \in Nat
      /\ \A c \in Clients : fpos = [fpos EXCEPT ![c] = fpos[c]]
  BY DEF ReadInv, TypeOK, Call
<1>s. sem' \in {0, 1}
  BY NextBuffer DEF BufferInv
<1>1. ASSUME NEW c \in Clients, WriteGet(c) PROVE ReadInv'
  <2> DEFINE m == Min({call[c].cnt, BufSize})
  <2>1. m \in Nat /\ m <= BufSize
    <3>1. {call[c].cnt, BufSize} = {call[c].cnt, BufSize, BufSize}
      OBVIOUS
    <3>2. m = Min({call[c].cnt, BufSize, BufSize})
      BY <3>1
    <3> QED BY <1>t, <3>2, MinOfThree, IoRegAssumption
  <2> HIDE DEF m
  <2>2. /\ pc' = [pc EXCEPT ![c] = "wcopy"] /\ call' = [call EXCEPT ![c].cnt = m]
        /\ buf' = [buf EXCEPT ![0] = c]
        /\ UNCHANGED <<fpos, mode, alive, mem, faulted, uaf>>
    BY <1>1 DEF WriteGet, Goto, m
  <2>3. TypeOK'
    BY <1>s, <2>1, <2>2 DEF ReadInv, TypeOK, Labels, Call
  <2>4. /\ \A d \in Clients : d # c => pc'[d] = pc[d] /\ call'[d] = call[d]
        /\ pc'[c] = "wcopy" /\ call'[c].cnt = m
    BY <2>2 DEF ReadInv, TypeOK, Call
  <2>5. ReadsInside'
    BY <2>2, <2>4 DEF ReadInv, ReadsInside, RawReadInside, ReadFits
  <2>6. \A d \in Clients : CountsOK(d)'
    BY <2>1, <2>2, <2>4 DEF ReadInv, CountsOK
  <2> QED BY <2>3, <2>5, <2>6 DEF ReadInv
<1>2. ASSUME NEW c \in Clients, AsciiSend(c) PROVE ReadInv'
  <2>1. /\ Return(c) /\ fpos' = [fpos EXCEPT ![c] = fpos[c] + 4] /\ Send(c, 4, buf')
        /\ UNCHANGED <<mode, alive, sem, faulted, uaf>>
    BY <1>2 DEF AsciiSend, Advance
  <2>2. buf' \in [BufWords -> Clients \cup {"init"}]
    BY <1>2, <1>t DEF AsciiSend
  <2>3. mem' \in [Bus -> Clients \cup {"init"}]
    BY <2>1, <2>2, SendType, IoRegAssumption DEF ReadInv
  <2>4. fpos[c] + 4 \in Nat
    BY <1>t
  <2> QED
    BY <1>t, <2>1, <2>2, <2>3, <2>4, ReturnStep
<1>3. ASSUME NEW c \in Clients, ReadCopied(c) PROVE ReadInv'
  <2>1. /\ Return(c) /\ fpos' = [fpos EXCEPT ![c] = fpos[c] + call[c].ret]
        /\ UNCHANGED <<mode, alive, buf, mem, faulted, uaf>>
    BY <1>3 DEF ReadCopied, Advance
  <2>2. fpos[c] + call[c].ret \in Nat
    BY <1>3, <1>t DEF ReadInv, CountsOK, ReadCopied, At
  <2> QED
    BY <1>s, <1>t, <2>1, <2>2, ReturnStep
<1>4. ASSUME NEW c \in Clients, WriteSend(c) PROVE ReadInv'
  <2>1. /\ Return(c) /\ fpos' = [fpos EXCEPT ![c] = fpos[c] + 2 * (call[c].cnt \div 2)]
        /\ Send(c, call[c].cnt, buf')
        /\ UNCHANGED <<mode, alive, faulted, uaf>>
    BY <1>4 DEF WriteSend, Advance
  <2>2. buf' \in [BufWords -> Clients \cup {"init"}]
    BY <1>4, <1>t DEF WriteSend
  <2>3. call[c].cnt <= BufSize
    BY <1>4 DEF WriteSend, At, ReadInv, CountsOK
  <2>4. mem' \in [Bus -> Clients \cup {"init"}]
    BY <1>t, <2>1, <2>2, <2>3, SendType DEF ReadInv
  <2>5. fpos[c] + 2 * (call[c].cnt \div 2) \in Nat
    BY <1>t
  <2> QED
    BY <1>s, <1>t, <2>1, <2>2, <2>4, <2>5, ReturnStep
<1>5. ASSUME NEW c \in Clients, WriteFaults(c) \/ AsciiRefused(c) \/ Interrupted(c)
      PROVE  ReadInv'
  <2>1. /\ Return(c) /\ UNCHANGED <<fpos, mode, alive, buf, mem, uaf>>
        /\ faulted' \in {TRUE, faulted}
    BY <1>5 DEF WriteFaults, AsciiRefused, Interrupted
  <2>2. fpos' = [fpos EXCEPT ![c] = fpos[c]] /\ faulted' \in BOOLEAN
    BY <1>t, <2>1
  <2> QED
    BY <1>s, <1>t, <2>1, <2>2, ReturnStep
<1>6. ASSUME NEW c \in Clients, AsciiConvert(c) PROVE ReadInv'
  <2>1. TypeOK'
    BY <1>6 DEF AsciiConvert, Goto, ReadInv, TypeOK, Labels
  <2> QED
    BY <1>6, <2>1 DEF AsciiConvert, Goto, ReadInv, TypeOK, CountsOK, ReadsInside,
       RawReadInside, ReadFits
<1>7. CASE (\E m \in {0, 1, 2} : IoregModeWrite(m)) \/ ProcessExits \/ UsesFreed \/ UNCHANGED vars
  <2>1. /\ UNCHANGED <<pc, fpos, call, sem, buf, mem>>
        /\ mode' \in {0, 1, 2} /\ alive' \in BOOLEAN /\ faulted' \in BOOLEAN /\ uaf' \in BOOLEAN
    BY <1>7, <1>t DEF IoregModeWrite, ProcessExits, UsesFreed, vars
  <2>2. TypeOK'
    BY <2>1 DEF ReadInv, TypeOK
  <2> QED
    BY <2>1, <2>2 DEF ReadInv, CountsOK, ReadsInside, RawReadInside, ReadFits
<1> QED
  BY <1>1, <1>2, <1>3, <1>4, <1>5, <1>6, <1>7, ReadStep, StartStep DEF Next, Get, Run

LEMMA ReadCorrect == Spec => []ReadInv
<1>1. Init => ReadInv
  <2> SUFFICES ASSUME Init PROVE ReadInv
    OBVIOUS
  <2>1. TypeOK
    <3>1. NoCall \in Call
      BY DEF NoCall, Call
    <3>2. /\ call \in [Clients -> Call]
          /\ buf \in [BufWords -> Clients \cup {"init"}]
          /\ mem \in [Bus -> Clients \cup {"init"}]
      BY <3>1 DEF Init
    <3> QED
      BY <3>2 DEF Init, TypeOK, Labels
  <2>2. \A c \in Clients : pc[c] = "idle"
    BY DEF Init
  <2> QED
    BY <2>1, <2>2 DEF ReadInv, CountsOK, ReadsInside, RawReadInside, ReadFits
<1>2. Spec => []BufferInv
  BY InitBuffer, NextBuffer, PTL DEF Spec
<1> QED
  BY <1>1, <1>2, NextRead, PTL DEF Spec

(* For any register, buffer, counts, positions and switches of the format: *)
(* a read returns no more than was asked for (but for the newline of an    *)
(* ASCII read of 8), and a raw one nothing from beyond the register.       *)
THEOREM ReadsInsideCorrect == Spec => []ReadsInside
<1>1. ReadInv => ReadsInside
  BY DEF ReadInv
<1> QED BY <1>1, ReadCorrect, PTL

(* Type correctness of the register files, for every value of the          *)
(* constants: no word of the buffer or the bus is read outside of them.    *)
THEOREM TypeCorrect == Spec => []TypeOK
<1>1. ReadInv => TypeOK
  BY DEF ReadInv
<1> QED BY <1>1, ReadCorrect, PTL
-----------------------------------------------------------------------------
(* Of the client's own call: where it is, how it was cut, and that the     *)
(* first word of the buffer is still its own.                              *)
OwnRange(c) ==
  /\ pc[c] \in {"wget", "wcopy"} =>
       /\ call[c].cnt <= call[c].asked
       /\ fpos[c] + call[c].cnt <= Len
  /\ pc[c] \in {"acopy", "aget"} => fpos[c] = 0
  /\ pc[c] = "wcopy" => buf[0] = c

OwnInv == \A c \in Clients : OwnRange(c)

(* A client whose step is somebody else's keeps its range: its position    *)
(* and its call are its own, and the buffer is, as long as it has it.      *)
LEMMA OthersKeep ==
  ASSUME OwnInv, BufferInv, [Next]_vars, NEW d \in Clients,
         pc'[d] = pc[d], call'[d] = call[d], fpos'[d] = fpos[d]
  PROVE  OwnRange(d)'
<1>1. pc[d] = "wcopy" => buf' = buf
  BY StepKeepsBuffer DEF Holds
<1> QED
  BY <1>1 DEF OwnInv, OwnRange

(* A client that starts a call: the cut of a raw write.                    *)
LEMMA OwnStart ==
  ASSUME ReadInv, OwnInv, NEW c \in Clients, Start(c)
  PROVE  OwnRange(c)'
<1> USE IoRegAssumption
<1>1. fpos[c] \in Nat /\ Len \in Nat /\ pc \in [Clients -> Labels]
      /\ fpos \in [Clients -> Nat] /\ call \in [Clients -> Call]
  BY DEF ReadInv, TypeOK
<1>2. ASSUME NEW n \in Counts, ReadStart(c, n) PROVE OwnRange(c)'
  BY <1>1, <1>2 DEF ReadStart, Goto, OwnInv, OwnRange
<1>3. ASSUME NEW n \in Counts, RawWriteStart(c, n) PROVE OwnRange(c)'
  <2> DEFINE m == Min({n, Len - fpos[c]})
  <2>1. fpos[c] < Len /\ pc'[c] = "wget" /\ fpos' = fpos /\ n \in Nat
    BY <1>1, <1>3 DEF RawWriteStart, Goto
  <2>2. m \in Nat /\ m <= n /\ m <= Len - fpos[c]
    <3>1. {n, Len - fpos[c]} = {n, Len - fpos[c], Len - fpos[c]}
      OBVIOUS
    <3>2. m = Min({n, Len - fpos[c], Len - fpos[c]})
      BY <3>1
    <3>3. Len - fpos[c] \in Nat
      BY <1>1, <2>1
    <3> HIDE DEF m
    <3> QED BY <2>1, <3>2, <3>3, MinOfThree
  <2>3. call'[c].cnt = m /\ call'[c].asked = n
    BY <1>1, <1>3 DEF RawWriteStart
  <2> HIDE DEF m
  <2> QED
    BY <1>1, <2>1, <2>2, <2>3 DEF OwnRange
<1>4. ASSUME NEW n \in Counts, AsciiWriteStart(c, n) PROVE OwnRange(c)'
  BY <1>1, <1>4 DEF AsciiWriteStart, Goto, OwnInv, OwnRange
<1>5. ASSUME NEW p \in Seeks, Lseek(c, p) PROVE OwnRange(c)'
  BY <1>1, <1>5 DEF Lseek, At, OwnRange
<1> QED
  BY <1>2, <1>3, <1>4, <1>5 DEF Start

(* A client that returns has no range.                                     *)
LEMMA OwnReturn ==
  ASSUME ReadInv, NEW c \in Clients, Return(c)
  PROVE  OwnRange(c)'
<1>1. pc'[c] = "idle"
  BY DEF ReadInv, TypeOK, Return, Goto
<1> QED
  BY <1>1 DEF OwnRange

(* A client that goes on with its call.                                    *)
LEMMA OwnGoesOn ==
  ASSUME ReadInv, OwnInv, NEW c \in Clients,
         Get(c) \/ Run(c) \/ Interrupted(c)
  PROVE  OwnRange(c)'
<1> USE IoRegAssumption
<1>1. /\ fpos[c] \in Nat /\ Len \in Nat /\ BufSize \in Nat
      /\ pc \in [Clients -> Labels]
      /\ fpos \in [Clients -> Nat] /\ call \in [Clients -> Call]
      /\ call[c].cnt \in Nat /\ call[c].asked \in Nat
  BY DEF ReadInv, TypeOK, Call
<1>2. CASE ReadRecv(c)
  <2>1. CASE mode = 0 /\ ReadLen(c) # 4
    BY <1>2, <2>1, OwnReturn DEF ReadRecv
  <2>2. CASE ~(mode = 0 /\ ReadLen(c) # 4)
    BY <1>1, <1>2, <2>2 DEF ReadRecv, Goto, OwnRange
  <2> QED BY <2>1, <2>2
<1>3. CASE WriteGet(c)
  <2> DEFINE m == Min({call[c].cnt, BufSize})
  <2>1. m \in Nat /\ m <= call[c].cnt
    <3>1. {call[c].cnt, BufSize} = {call[c].cnt, BufSize, BufSize}
      OBVIOUS
    <3>2. m = Min({call[c].cnt, BufSize, BufSize})
      BY <3>1
    <3> HIDE DEF m
    <3> QED BY <1>1, <3>2, MinOfThree
  <2>2. /\ pc[c] = "wget" /\ pc'[c] = "wcopy" /\ fpos' = fpos
        /\ call'[c].cnt = m /\ call'[c].asked = call[c].asked
    BY <1>1, <1>3 DEF WriteGet, At, Goto, Call
  <2> HIDE DEF m
  <2>3. buf'[0] = c
    <3>1. 0 \in BufWords
      BY <1>1 DEF BufWords
    <3> QED
      BY <1>3, <3>1 DEF WriteGet, ReadInv, TypeOK
  <2> QED
    BY <1>1, <2>1, <2>2, <2>3 DEF OwnInv, OwnRange
<1>4. CASE AsciiSend(c) \/ ReadCopied(c) \/ WriteSend(c)
  BY <1>4, OwnReturn DEF AsciiSend, ReadCopied, WriteSend
<1>7. CASE WriteFaults(c) \/ AsciiRefused(c) \/ Interrupted(c)
  BY <1>7, OwnReturn DEF WriteFaults, AsciiRefused, Interrupted
<1>8. CASE AsciiConvert(c)
  BY <1>1, <1>8 DEF AsciiConvert, At, Goto, OwnInv, OwnRange
<1> QED
  BY <1>2, <1>3, <1>4, <1>7, <1>8 DEF Get, Run

(* A step of client c is not one of any other.                             *)
LEMMA OnlyOne ==
  ASSUME NEW c \in Clients, Start(c) \/ Get(c) \/ Run(c) \/ Interrupted(c), TypeOK
  PROVE  \A d \in Clients \ {c} :
           pc'[d] = pc[d] /\ call'[d] = call[d] /\ fpos'[d] = fpos[d]
<1> USE DEF TypeOK, Goto, Return, Advance
<1>1. CASE Start(c)
  BY <1>1 DEF Start, ReadStart, RawWriteStart, AsciiWriteStart, Lseek
<1>2. CASE ReadRecv(c)
  BY <1>2 DEF ReadRecv
<1>3. CASE WriteGet(c) \/ AsciiSend(c)
  BY <1>3 DEF WriteGet, AsciiSend
<1>4. CASE Run(c)
  BY <1>4 DEF Run, ReadCopied, WriteSend, WriteFaults, AsciiConvert, AsciiRefused
<1>5. CASE Interrupted(c)
  BY <1>5 DEF Interrupted
<1> QED
  BY <1>1, <1>2, <1>3, <1>4, <1>5 DEF Get

(* Every step keeps the range of every client.                             *)
LEMMA NextOwn ==
  ASSUME ReadInv, BufferInv, OwnInv, [Next]_vars
  PROVE  OwnInv'
<1>1. ASSUME NEW c \in Clients, Start(c) \/ Get(c) \/ Run(c) \/ Interrupted(c)
      PROVE  OwnInv'
  <2>1. OwnRange(c)'
    BY <1>1, OwnStart, OwnGoesOn
  <2>2. \A d \in Clients \ {c} : OwnRange(d)'
    <3> TAKE d \in Clients \ {c}
    <3>1. pc'[d] = pc[d] /\ call'[d] = call[d] /\ fpos'[d] = fpos[d]
      BY <1>1, OnlyOne DEF ReadInv
    <3> QED BY <3>1, OthersKeep
  <2> QED
    BY <2>1, <2>2 DEF OwnInv
<1>2. CASE (\E m \in {0, 1, 2} : IoregModeWrite(m)) \/ ProcessExits \/ UsesFreed \/ UNCHANGED vars
  <2>1. UNCHANGED <<pc, call, fpos, buf>>
    BY <1>2 DEF IoregModeWrite, ProcessExits, UsesFreed, vars
  <2> QED
    BY <2>1 DEF OwnInv, OwnRange
<1> QED
  BY <1>1, <1>2 DEF Next

(* What a step of WritesOwnRange says.                                     *)
OwnWord(k, c) ==
  /\ mem'[k] = c /\ pc'[c] = "idle"
  /\ \/ /\ pc[c] = "wcopy"
        /\ 2 * k + 1 >= fpos[c]
        /\ 2 * k + 2 <= Len
        /\ 2 * k + 2 <= fpos[c] + call[c].asked
     \/ /\ pc[c] = "aget"
        /\ fpos[c] = 0
        /\ 2 * k + 2 <= 4

(* The words that n bytes at a position cover lie in those bytes, but for  *)
(* the byte before an odd position.                                        *)
LEMMA CoveredInside ==
  ASSUME NEW c \in Clients, fpos[c] \in Nat, NEW n \in Nat,
         NEW k \in Covered(c, n)
  PROVE  /\ k \in Nat
         /\ k - (fpos[c] \div 2) \in 0 .. (n \div 2) - 1
         /\ 2 * k + 1 >= fpos[c]
         /\ 2 * k + 2 <= fpos[c] + n
<1> DEFINE w == fpos[c] \div 2
<1>1. /\ w \in Nat /\ 2 * w <= fpos[c] /\ fpos[c] <= 2 * w + 1
      /\ n \div 2 \in Nat /\ 2 * (n \div 2) <= n
  OBVIOUS
<1>2. k \in w .. w + (n \div 2) - 1
  BY DEF Covered
<1> HIDE DEF w
<1>3. k \in Nat /\ k - w \in 0 .. (n \div 2) - 1 /\ 2 * k >= 2 * w
      /\ 2 * k + 2 <= 2 * w + 2 * (n \div 2)
  BY <1>1, <1>2
<1> QED
  BY <1>1, <1>3 DEF w

(* Only the two sends change the bus, each of them as the property says.   *)
LEMMA StepWritesOwn ==
  ASSUME ReadInv, OwnInv, [Next]_vars,
         NEW k \in Bus, mem'[k] # mem[k]
  PROVE  \E c \in Clients : OwnWord(k, c)
<1> USE IoRegAssumption
<1>1. PICK c \in Clients : WriteSend(c) \/ AsciiSend(c)
  <2>1. CASE \E m \in {0, 1, 2} : IoregModeWrite(m)
    BY <2>1 DEF IoregModeWrite
  <2>2. CASE ProcessExits \/ UsesFreed \/ UNCHANGED vars
    BY <2>2 DEF ProcessExits, UsesFreed, vars
  <2>3. ASSUME NEW c \in Clients, Start(c) PROVE FALSE
    BY <2>3 DEF Start, ReadStart, RawWriteStart, AsciiWriteStart, Lseek
  <2>4. ASSUME NEW c \in Clients, ReadRecv(c) \/ WriteGet(c) \/ Interrupted(c) PROVE FALSE
    BY <2>4 DEF ReadRecv, WriteGet, Interrupted
  <2>5. ASSUME NEW c \in Clients,
               ReadCopied(c) \/ WriteFaults(c) \/ AsciiConvert(c) \/ AsciiRefused(c)
        PROVE  FALSE
    BY <2>5 DEF ReadCopied, WriteFaults, AsciiConvert, AsciiRefused
  <2> QED
    BY <2>1, <2>2, <2>3, <2>4, <2>5 DEF Next, Get, Run
<1>2. /\ fpos[c] \in Nat /\ Len \in Nat /\ BufSize \in Nat /\ call[c].cnt \in Nat
      /\ call[c].asked \in Nat /\ pc \in [Clients -> Labels]
  BY DEF ReadInv, TypeOK, Call
<1>3. CASE WriteSend(c)
  <2> DEFINE n == call[c].cnt
             w == fpos[c] \div 2
  <2>1. /\ n <= call[c].asked /\ fpos[c] + n <= Len
        /\ buf[0] = c /\ n <= BufSize /\ pc[c] = "wcopy" /\ pc'[c] = "idle"
    BY <1>2, <1>3 DEF WriteSend, At, Return, Goto, OwnInv, OwnRange, ReadInv, CountsOK
  <2>2. k \in Covered(c, n) /\ mem'[k] = buf'[k - w]
    BY <1>3 DEF WriteSend, Send
  <2>3. /\ k \in Nat /\ k - w \in 0 .. (n \div 2) - 1
        /\ 2 * k + 1 >= fpos[c] /\ 2 * k + 2 <= fpos[c] + n
    BY <1>2, <2>2, CoveredInside
  <2>4. k - w \in BufWords
    <3>1. n \div 2 <= BufSize \div 2 /\ n \div 2 \in Nat /\ BufSize \div 2 \in Nat
      BY <1>2, <2>1
    <3>2. w \in Nat
      BY <1>2
    <3> HIDE DEF w, n
    <3> QED BY <2>3, <3>1, <3>2 DEF BufWords
  <2>5. buf'[k - w] = c
    <3>1. CASE k - w = 0
      BY <1>3, <2>1, <2>4, <3>1 DEF WriteSend
    <3>2. CASE k - w > 0
      <4>1. k - w < n \div 2
        BY <1>2, <2>3
      <4> QED
        BY <1>3, <2>4, <3>2, <4>1 DEF WriteSend
    <3> QED
      BY <1>2, <2>3, <3>1, <3>2
  <2> HIDE DEF n, w
  <2>6. 2 * k + 2 <= Len /\ 2 * k + 2 <= fpos[c] + call[c].asked
    BY <1>2, <2>1, <2>3 DEF n
  <2> QED
    BY <2>1, <2>2, <2>3, <2>5, <2>6 DEF OwnWord
<1>4. CASE AsciiSend(c)
  <2>1. fpos[c] = 0 /\ pc[c] = "aget" /\ pc'[c] = "idle"
    BY <1>2, <1>4 DEF AsciiSend, At, Return, Goto, OwnInv, OwnRange
  <2>2. k \in Covered(c, 4) /\ mem'[k] = buf'[k - (fpos[c] \div 2)]
    BY <1>4 DEF AsciiSend, Send
  <2>3. k \in {0, 1} /\ mem'[k] = buf'[k]
    BY <2>1, <2>2 DEF Covered
  <2>4. k \in BufWords
    BY <1>2, <2>3 DEF BufWords
  <2>5. buf'[k] = c
    BY <1>4, <2>3, <2>4 DEF AsciiSend
  <2>6. 2 * k + 2 <= 4
    BY <2>3
  <2> QED
    BY <2>1, <2>3, <2>5, <2>6 DEF OwnWord
<1> QED
  BY <1>1, <1>3, <1>4

(* For any clients, register length, buffer size, positions, counts and    *)
(* window: rhino_send_iobuf changes words at the writer's own position and *)
(* count only, within the register for a raw write and within the first 4  *)
(* bytes for a number, and to the writer's own data, although the buffer   *)
(* between them is shared and the copy into it sleeps.                     *)
THEOREM WritesOwnRangeCorrect == Spec => WritesOwnRange
<1>1. Init => OwnInv
  BY DEF Init, OwnInv, OwnRange
<1>2. ReadInv /\ BufferInv /\ OwnInv /\ [Next]_vars => OwnInv'
  BY NextOwn
<1>3. Spec => []BufferInv
  BY InitBuffer, NextBuffer, PTL DEF Spec
<1>4. ReadInv /\ OwnInv /\ [Next]_vars =>
        [\A k \in Bus : mem'[k] # mem[k] => \E c \in Clients : OwnWord(k, c)]_vars
  BY StepWritesOwn
<1>5. WritesOwnRange <=>
        [][\A k \in Bus : mem'[k] # mem[k] => \E c \in Clients : OwnWord(k, c)]_vars
  BY DEF WritesOwnRange, OwnWord
<1> QED
  BY <1>1, <1>2, <1>3, <1>4, <1>5, ReadCorrect, PTL DEF Spec
==============================================================================
