------------------------- MODULE RhinoConfigureProofs -------------------------
(***************************************************************************)
(* Proofs about rhino_configure for any page size, payloads and behaviour  *)
(* of the environment: the semaphore rhino_mutex, the parts in flight, the *)
(* pages, and what a result that is not negative means.                    *)
(***************************************************************************)
EXTENDS RhinoConfigure, TLAPS

(* IoExcluded is inductive once the types of its variables are added.      *)
SemInv ==
  /\ sem \in {0, 1}
  /\ io \in BOOLEAN
  /\ IoExcluded

(* Every path through rhino_configure, every callback and every use of the *)
(* I/O buffer keeps SemInv.                                                *)
LEMMA SemStep == SemInv /\ [Next]_vars => SemInv'
<1>. SUFFICES ASSUME SemInv, [Next]_vars PROVE SemInv'
  OBVIOUS
<1>. USE DEF SemInv, IoExcluded
<1>1. ASSUME NEW p \in Payloads, Call(p) PROVE SemInv'
  BY <1>1 DEF Call
<1>2. CASE Interrupted
  BY <1>2 DEF Interrupted
<1>3. CASE Clear
  BY <1>3 DEF Clear
<1>4. CASE InitTimeout
  BY <1>4 DEF InitTimeout
<1>5. CASE SendPart
  <2>1. CASE parts' = 0
    BY <1>5, <2>1 DEF SendPart, Return
  <2>2. CASE parts' # 0
    BY <1>5, <2>2 DEF SendPart
  <2>. QED
    BY <2>1, <2>2
<1>6. CASE ReadFails
  BY <1>6 DEF ReadFails, Return
<1>7. CASE WaitSent
  BY <1>7 DEF WaitSent
<1>8. CASE CheckPins
  BY <1>8 DEF CheckPins, Return
<1>9. CASE Spi
  BY <1>9 DEF Spi, TransferOk, TransferFails
<1>10. CASE Startup \/ Unconfigure
  BY <1>10 DEF Startup, Unconfigure
<1>11. CASE GetIobuf
  BY <1>11 DEF GetIobuf
<1>12. CASE PutIobuf
  <2>1. sem = 0 /\ cpc \notin {"send", "check"}
    BY <1>12 DEF PutIobuf
  <2>2. io' = FALSE /\ sem' = 1 /\ cpc' = cpc
    BY <1>12, <2>1 DEF PutIobuf
  <2>. QED
    BY <2>1, <2>2
<1>13. CASE UNCHANGED vars
  BY <1>13 DEF vars
<1>. QED
  BY <1>1, <1>2, <1>3, <1>4, <1>5, <1>6, <1>7, <1>8, <1>9, <1>10, <1>11,
     <1>12, <1>13
  DEF Next, Step, StepFails

(* I/O and configuration never overlap, and the semaphore is given back    *)
(* exactly once on every path, for any page size, any payload and any mix  *)
(* of SPI failures, read failures, timeouts and signals.                   *)
THEOREM IoExcludedCorrect == Spec => []IoExcluded
<1>1. Init => SemInv
  BY DEF Init, SemInv, IoExcluded
<1>2. SemInv => IoExcluded
  BY DEF SemInv
<1>. QED
  BY <1>1, <1>2, SemStep, PTL DEF Spec

-----------------------------------------------------------------------------
(* Types, with the two bounds they rest on.                                *)

USE RhinoConfigureAssumption

(* No more is sent than the file has, and a message in flight has a page.  *)
ConfTypeInv ==
  /\ TypeOK
  /\ sent <= payload.avail
  /\ Len(spi) <= pages

(* The smallest of three integers is one of them and none is below it.     *)
LEMMA MinThree ==
  ASSUME NEW a \in Int, NEW b \in Int, NEW d \in Int
  PROVE  /\ Min({a, b, d}) \in {a, b, d}
         /\ Min({a, b, d}) <= a /\ Min({a, b, d}) <= b /\ Min({a, b, d}) <= d
<1>. DEFINE S == {a, b, d}
<1>1. \E x \in S : \A y \in S : x <= y
  <2>1. CASE a <= b /\ a <= d
    BY <2>1
  <2>2. CASE b <= a /\ b <= d
    BY <2>2
  <2>3. CASE d <= a /\ d <= b
    BY <2>3
  <2>. QED
    BY <2>1, <2>2, <2>3
<1>2. Min(S) \in S /\ \A y \in S : Min(S) <= y
  BY <1>1 DEF Min
<1>. QED
  BY <1>2

(* kernel_read: what is left of the payload, of the file or of the page.   *)
LEMMA ReadCountBounds ==
  ASSUME ConfTypeInv
  PROVE  /\ payload.len \in Nat /\ payload.avail \in Nat
         /\ ReadCount \in Nat /\ ReadCount <= PAGE_SIZE
         /\ sent + ReadCount <= payload.len
         /\ sent + ReadCount <= payload.avail
         /\ ~Truncated /\ Left > 0 =>
              /\ ReadCount > 0
              /\ ReadCount = PAGE_SIZE \/ sent + ReadCount = payload.len
<1>1. /\ payload.len \in Nat /\ payload.avail \in Nat
      /\ sent \in Nat /\ sent <= payload.len /\ sent <= payload.avail
  BY DEF ConfTypeInv, TypeOK, Payload, NoPayload
<1>. DEFINE b == payload.len - sent
            d == payload.avail - sent
<1>2. b \in Int /\ d \in Int /\ PAGE_SIZE \in Int
  BY <1>1
<1>3. /\ ReadCount = Min({PAGE_SIZE, b, d})
  BY DEF ReadCount, Left
<1>4. /\ ReadCount \in {PAGE_SIZE, b, d}
      /\ ReadCount <= PAGE_SIZE /\ ReadCount <= b /\ ReadCount <= d
  BY <1>2, <1>3, MinThree
<1>. QED
  BY <1>1, <1>4 DEF Left, Truncated

(* The completion's counter, and its bound.                                *)
LEMMA CompleteBounds ==
  ASSUME done \in 0 .. MaxDone, Complete
  PROVE  done' \in 0 .. MaxDone /\ done' <= done + 1
<1>1. done + 1 \in Int /\ MaxDone \in Int
  OBVIOUS
<1>2. {done + 1, MaxDone, MaxDone} = {done + 1, MaxDone}
  OBVIOUS
<1>3. done' = Min({done + 1, MaxDone, MaxDone})
  BY <1>2 DEF Complete
<1>4. done' \in {done + 1, MaxDone} /\ done' <= done + 1 /\ done' <= MaxDone
  BY <1>1, <1>2, <1>3, MinThree
<1>. QED
  BY <1>4

(* What the FPGA does with a message keeps its types.                      *)
LEMMA ReceiveTypes ==
  ASSUME ConfTypeInv, NEW m \in Message, Receive(m)
  PROVE  /\ fpga' \in {"off", "ready", "loaded", "started", "crc_error"}
         /\ got' \in Nat /\ mixed' \in BOOLEAN /\ seen' \subseteq Failures
<1>t. /\ fpga \in {"off", "ready", "loaded", "started", "crc_error"}
      /\ got \in Nat /\ mixed \in BOOLEAN /\ seen \subseteq Failures /\ m.len \in Nat
  BY DEF ConfTypeInv, TypeOK, Message
<1>1. CASE fpga = "ready"
  <2>1. mixed' \in BOOLEAN
    BY <1>1, Zenon DEF Receive
  <2>2. got' = got + m.len
    BY <1>1 DEF Receive
  <2>3. /\ fpga' \in {"ready", "crc_error", "started", "loaded"}
        /\ seen' = seen \/ seen' = seen \cup {"slow_done"}
    BY <1>1 DEF Receive
  <2>4. got' \in Nat
    BY <1>t, <2>2
  <2>5. seen' \subseteq Failures
    BY <1>t, <2>3 DEF Failures
  <2>. QED
    BY <2>1, <2>3, <2>4, <2>5, Zenon
<1>2. CASE fpga # "ready"
  BY <1>t, <1>2, Zenon DEF Receive, fpgaVars
<1>. QED
  BY <1>1, <1>2

LEMMA ConfTypeStep == ConfTypeInv /\ SemInv /\ SemInv' /\ [Next]_vars => ConfTypeInv'
<1>. SUFFICES ASSUME ConfTypeInv, SemInv, SemInv', [Next]_vars PROVE ConfTypeInv'
  OBVIOUS
<1>. USE DEF ConfTypeInv, TypeOK, SemInv
<1>q. /\ Len(spi) \in Nat
      /\ spi # <<>> => /\ Head(spi) \in Message /\ Tail(spi) \in Seq(Message)
                       /\ Len(Tail(spi)) = Len(spi) - 1 /\ Len(spi) > 0
  OBVIOUS
<1>1. ASSUME NEW p \in Payloads, Call(p) PROVE ConfTypeInv'
  <2>1. p.avail \in Nat /\ p.len \in Nat
    BY DEF Payload
  <2>. QED
    BY <1>1, <2>1 DEF Call, Labels, spiVars, fpgaVars, EIO
<1>2. CASE Interrupted \/ InitTimeout \/ Clear
  <2>1. mixed' \in BOOLEAN
    BY <1>2 DEF Interrupted, InitTimeout, Clear, ClearMemory, fpgaVars
  <2>2. /\ UNCHANGED <<payload, sent, calls, retval, done, spi, pages, seen>>
        /\ cpc' \in Labels /\ parts' \in Int
        /\ fpga' \in {fpga, "ready"} /\ got' \in {got, 0}
    BY <1>2 DEF Interrupted, InitTimeout, Clear, ClearMemory, Labels, callVars, spiVars,
                fpgaVars
  <2>. QED
    BY <2>1, <2>2
<1>3. CASE SendPart
  <2>1. /\ ReadCount \in Nat /\ sent + ReadCount <= payload.len
        /\ sent + ReadCount <= payload.avail
    BY ReadCountBounds
  <2>2. CASE parts' = 0
    <3>1. /\ UNCHANGED <<payload, sent, calls, done, spi, fpga, got, mixed>>
          /\ cpc' \in Labels /\ retval' \in Int /\ pages' = pages + 1
          /\ seen' = seen \cup {"gave_up"}
      BY <1>3, <2>1, <2>2 DEF SendPart, Return, Labels, fpgaVars
    <3>2. seen' \subseteq Failures
      BY <3>1 DEF Failures
    <3>. QED
      BY <1>q, <2>2, <3>1, <3>2
  <2>3. CASE parts' # 0
    <3>. DEFINE m == [len |-> ReadCount, last |-> ReadCount < PAGE_SIZE, call |-> calls]
    <3>1. m \in Message
      BY <2>1 DEF Message
    <3>2. spi' = Append(spi, m)
      BY <1>3, <2>3 DEF SendPart
    <3>3. spi' \in Seq(Message) /\ Len(spi') = Len(spi) + 1
      BY <3>1, <3>2
    <3>. HIDE DEF m
    <3>. QED
      BY <1>3, <1>q, <2>1, <2>3, <3>3 DEF SendPart, fpgaVars
  <2>. QED
    BY <2>2, <2>3
<1>4. CASE ReadFails
  BY <1>4 DEF ReadFails, Return, Labels, callVars, fpgaVars, EIO, Failures
<1>5. CASE WaitSent
  BY <1>5 DEF WaitSent, Labels, callVars, fpgaVars
<1>6. CASE CheckPins
  BY <1>6 DEF CheckPins, Return, Labels, callVars, spiVars, fpgaVars
<1>7. CASE TransferOk
  <2>1. /\ Head(spi) \in Message /\ Receive(Head(spi)) /\ spi # <<>>
    BY <1>7, <1>q DEF TransferOk
  <2>2. /\ fpga' \in {"off", "ready", "loaded", "started", "crc_error"}
        /\ got' \in Nat /\ mixed' \in BOOLEAN /\ seen' \subseteq Failures
    BY <2>1, ReceiveTypes
  <2>3. done' \in 0 .. MaxDone
    BY <1>7, CompleteBounds DEF TransferOk
  <2>. QED
    BY <1>7, <1>q, <2>1, <2>2, <2>3 DEF TransferOk, callVars
<1>8. CASE TransferFails
  <2>1. done' \in 0 .. MaxDone
    BY <1>8, CompleteBounds DEF TransferFails
  <2>. QED
    BY <1>8, <1>q, <2>1 DEF TransferFails, callVars, fpgaVars, Failures
<1>9. CASE Startup \/ Unconfigure \/ GetIobuf \/ PutIobuf
  BY <1>9 DEF Startup, Unconfigure, GetIobuf, PutIobuf, callVars, spiVars, fpgaVars
<1>10. CASE UNCHANGED vars
  BY <1>10 DEF vars, callVars, spiVars, fpgaVars
<1>. QED
  BY <1>1, <1>2, <1>3, <1>4, <1>5, <1>6, <1>7, <1>8, <1>9, <1>10
  DEF Next, Step, StepFails, Spi

-----------------------------------------------------------------------------
(* Calls, parts and callbacks until the first failing transfer or read.    *)

Clean == Never({"spi_err", "read_err"})

(* The bytes of the messages in flight, all pages but the newest.          *)
InFlight ==
  IF spi = <<>> THEN 0 ELSE (Len(spi) - 1) * PAGE_SIZE + spi[Len(spi)].len

(* The newest message: a whole page, or the rest of the payload.           *)
NewestPart ==
  LET m == spi[Len(spi)] IN
  \/ m.len = PAGE_SIZE /\ ~m.last
  \/ m.len \in 1 .. (PAGE_SIZE - 1) /\ m.last /\ sent = payload.len

(* While a payload the file has in full is sent: what is in flight and     *)
(* what the FPGA got add up to what was sent, the FPGA stops listening     *)
(* with the last byte, and only then the completion is signalled.          *)
FlightInv ==
  /\ \A k \in 1 .. (Len(spi) - 1) : spi[k].len = PAGE_SIZE /\ ~spi[k].last
  /\ spi # <<>> => NewestPart
  /\ fpga = "ready" => got + InFlight = sent
  /\ fpga # "ready" => spi = <<>> /\ sent = payload.len /\ got = payload.len
  /\ done \in {0, 1}
  /\ done = 1 => spi = <<>> /\ fpga # "ready"

CleanInv ==
  /\ parts = Len(spi)
  /\ \A k \in DOMAIN spi : spi[k].call = calls
  /\ cpc \in {"idle", "down"} => spi = <<>> /\ done = 0
  /\ cpc = "down" => sent = 0
  /\ cpc = "send" /\ ~Truncated => FlightInv
  /\ cpc = "check" => /\ spi = <<>> /\ done = 0
                      /\ got = payload.len /\ fpga # "ready"
  /\ fpga = "ready" /\ payload.valid => ~mixed

(* With an FPGA that starts at once: a valid bitstream that is complete    *)
(* runs.                                                                   *)
QuickInv ==
  payload.valid /\ "slow_done" \notin seen =>
    /\ cpc \in {"send", "check"} => fpga \in {"ready", "started"}
    /\ cpc = "down" => retval = -EIO
    /\ ResultTrusted

(* A page is read and queued.                                              *)
LEMMA CleanSend ==
  ASSUME ConfTypeInv, CleanInv, SendPart
  PROVE  CleanInv' /\ parts' # 0 /\ seen' = seen /\ cpc' = "send" /\ cpc = "send"
         /\ UNCHANGED <<payload, fpgaVars>> /\ Len(spi') = Len(spi) + 1
         /\ pages' = pages + 1
<1>. DEFINE m == [len |-> ReadCount, last |-> ReadCount < PAGE_SIZE, call |-> calls]
            n == Len(spi)
<1>t. /\ spi \in Seq(Message) /\ n \in Nat /\ sent \in Nat /\ parts = n
      /\ payload.len \in Nat /\ ReadCount \in Nat
  BY ReadCountBounds DEF ConfTypeInv, TypeOK, CleanInv
<1>1. parts' # 0
  BY <1>t DEF SendPart
<1>2. /\ parts' = n + 1 /\ sent' = sent + ReadCount /\ spi' = Append(spi, m)
      /\ pages' = pages + 1 /\ cpc = "send" /\ Left > 0
      /\ UNCHANGED <<payload, calls, done, cpc, seen, fpga, got, mixed>>
  BY <1>1, <1>t DEF SendPart, fpgaVars
<1>3. /\ Len(spi') = n + 1 /\ spi' # <<>> /\ DOMAIN spi' = 1 .. (n + 1)
      /\ spi'[n + 1] = m /\ \A k \in 1 .. n : spi'[k] = spi[k]
      /\ DOMAIN spi = 1 .. n /\ (spi = <<>> <=> n = 0)
  BY <1>t, <1>2
<1>4. /\ m.len = ReadCount /\ (m.last <=> ReadCount < PAGE_SIZE) /\ m.call = calls
  OBVIOUS
<1>. HIDE DEF m
<1>5. \A k \in DOMAIN spi' : spi'[k].call = calls'
  BY <1>2, <1>3, <1>4 DEF CleanInv
<1>6. ~Truncated => FlightInv'
  <2>. SUFFICES ASSUME ~Truncated PROVE FlightInv'
    OBVIOUS
  <2>1. FlightInv /\ sent < payload.len
    BY <1>2, <1>t DEF CleanInv, Left
  <2>2. fpga = "ready" /\ done = 0
    BY <1>t, <2>1 DEF FlightInv
  <2>3. n > 0 => spi[n].len = PAGE_SIZE /\ ~spi[n].last
    BY <1>3, <1>t, <2>1 DEF FlightInv, NewestPart
  <2>4. \A k \in 1 .. n : spi'[k].len = PAGE_SIZE /\ ~spi'[k].last
    BY <1>3, <1>t, <2>1, <2>3 DEF FlightInv
  <2>5. /\ ReadCount > 0 /\ ReadCount <= PAGE_SIZE
        /\ ReadCount = PAGE_SIZE \/ sent + ReadCount = payload.len
    BY <1>2, ReadCountBounds
  <2>6. NewestPart'
    <3>0. spi'[Len(spi')] = m
      BY <1>3
    <3>1. CASE ReadCount = PAGE_SIZE
      BY <1>4, <1>t, <3>0, <3>1 DEF NewestPart
    <3>2. CASE ReadCount # PAGE_SIZE
      BY <1>2, <1>4, <1>t, <2>5, <3>0, <3>2 DEF NewestPart
    <3>. QED
      BY <3>1, <3>2
  <2>7. got' + InFlight' = sent'
    <3>1. InFlight = n * PAGE_SIZE
      <4>1. CASE n = 0
        BY <4>1, <1>3 DEF InFlight
      <4>2. CASE n > 0
        BY <4>2, <1>3, <1>t, <2>3 DEF InFlight
      <4>. QED
        BY <1>t, <4>1, <4>2
    <3>2. InFlight' = n * PAGE_SIZE + ReadCount
      BY <1>3, <1>4, <1>t DEF InFlight
    <3>3. got + InFlight = sent /\ got \in Nat
      BY <2>1, <2>2 DEF FlightInv, ConfTypeInv, TypeOK
    <3>4. n * PAGE_SIZE \in Nat
      BY <1>t
    <3>. QED
      BY <1>2, <1>t, <3>1, <3>2, <3>3, <3>4, SMTT(30)
  <2>. QED
    BY <1>2, <1>3, <1>t, <2>2, <2>4, <2>6, <2>7 DEF FlightInv
<1>7. Truncated' <=> Truncated
  BY <1>2 DEF Truncated
<1>8. CleanInv'
  BY <1>2, <1>3, <1>5, <1>6, <1>7 DEF CleanInv
<1>. QED
  BY <1>1, <1>2, <1>3, <1>8 DEF fpgaVars

(* The oldest message is over.                                             *)
LEMMA CleanTransfer ==
  ASSUME ConfTypeInv, CleanInv, TransferOk
  PROVE  CleanInv'
<1>. DEFINE n == Len(spi)
            m == Head(spi)
<1>t. /\ spi \in Seq(Message) /\ n \in Nat /\ sent \in Nat /\ got \in Nat
      /\ payload.len \in Nat /\ sent <= payload.len /\ parts = n
  BY ReadCountBounds DEF ConfTypeInv, TypeOK, CleanInv
<1>1. /\ spi # <<>> /\ spi' = Tail(spi) /\ parts' = n - 1 /\ Receive(m)
      /\ UNCHANGED <<payload, calls, sent, cpc>>
      /\ m.last => Complete
      /\ ~m.last => done' = done
  BY <1>t DEF TransferOk, callVars
<1>2. /\ n > 0 /\ m = spi[1] /\ Len(spi') = n - 1 /\ DOMAIN spi' = 1 .. (n - 1)
      /\ \A k \in 1 .. (n - 1) : spi'[k] = spi[k + 1]
      /\ DOMAIN spi = 1 .. n /\ (spi' = <<>> <=> n = 1)
      /\ m \in Message
  <2>1. n > 0 /\ m = spi[1] /\ DOMAIN spi = 1 .. n /\ m \in Message
    BY <1>t, <1>1
  <2>2. /\ spi' \in Seq(Message) /\ Len(spi') = n - 1
        /\ \A k \in 1 .. (n - 1) : spi'[k] = spi[k + 1]
    BY <1>t, <1>1, <2>1
  <2>3. DOMAIN spi' = 1 .. (n - 1) /\ (spi' = <<>> <=> n - 1 = 0)
    BY <2>2
  <2>. QED
    BY <1>t, <2>1, <2>2, <2>3
<1>. HIDE DEF m
<1>3. m.call = calls /\ m.len \in Nat
  BY <1>2 DEF CleanInv, Message
<1>4. \A k \in DOMAIN spi' : spi'[k].call = calls'
  BY <1>1, <1>2, <1>t DEF CleanInv
<1>5. cpc = "send"
  BY <1>1 DEF CleanInv, ConfTypeInv, TypeOK, Labels
<1>6. fpga' = "ready" /\ payload'.valid => ~mixed'
  <2>1. CASE fpga = "ready"
    <3>1. mixed' = (mixed \/ m.call # calls \/ ~payload.valid)
      BY <1>1, <2>1, Zenon DEF Receive
    <3>2. payload.valid => ~mixed
      BY <2>1 DEF CleanInv
    <3>. QED
      BY <1>1, <1>3, <3>1, <3>2
  <2>2. CASE fpga # "ready"
    BY <1>1, <2>2 DEF Receive, fpgaVars
  <2>. QED
    BY <2>1, <2>2
<1>7. ~Truncated => FlightInv'
  <2>. SUFFICES ASSUME ~Truncated PROVE FlightInv'
    OBVIOUS
  <2>1. FlightInv
    BY <1>5 DEF CleanInv
  <2>2. fpga = "ready" /\ done = 0 /\ got + InFlight = sent
    BY <1>1, <2>1 DEF FlightInv
  <2>3. /\ got' = got + m.len
        /\ got + m.len < payload.len => fpga' = "ready"
        /\ ~(got + m.len < payload.len) => fpga' # "ready"
    BY <1>1, <1>3, <1>t, <2>2 DEF Receive
  <2>4. CASE n = 1
    <3>1. spi' = <<>> /\ Len(spi') = 0
      BY <1>2, <2>4
    <3>2. InFlight = m.len /\ InFlight' = 0
      BY <1>1, <1>2, <1>3, <2>4, <3>1 DEF InFlight
    <3>3. got' = sent
      BY <2>2, <2>3, <3>2
    <3>4. m.last => sent = payload.len
      BY <1>1, <1>2, <2>1, <2>4 DEF FlightInv, NewestPart
    <3>5. done' \in {0, 1} /\ (done' = 1 => sent = payload.len)
      <4>1. CASE m.last
        BY <1>1, <2>2, <3>4, <4>1, CompleteBounds DEF ConfTypeInv, TypeOK
      <4>2. CASE ~m.last
        BY <1>1, <2>2, <4>2
      <4>. QED
        BY <4>1, <4>2
    <3>6. fpga' # "ready" => sent' = payload'.len /\ got' = payload'.len
      BY <1>1, <1>t, <2>3, <3>3
    <3>7. done' = 1 => fpga' # "ready"
      BY <1>t, <2>3, <3>3, <3>5
    <3>8. fpga' = "ready" => got' + InFlight' = sent'
      BY <1>1, <1>t, <3>2, <3>3
    <3>. QED
      BY <3>1, <3>5, <3>6, <3>7, <3>8 DEF FlightInv
  <2>5. CASE n > 1
    <3>1. /\ spi' # <<>> /\ Len(spi') = n - 1 /\ n - 1 \in 1 .. (n - 1)
          /\ spi'[n - 1] = spi[n]
      BY <1>2, <1>t, <2>5
    <3>2. m.len = PAGE_SIZE /\ ~m.last
      BY <1>2, <1>t, <2>1, <2>5 DEF FlightInv
    <3>3. \A k \in 1 .. (n - 2) : spi'[k].len = PAGE_SIZE /\ ~spi'[k].last
      <4>. SUFFICES ASSUME NEW k \in 1 .. (n - 2)
                    PROVE  spi'[k].len = PAGE_SIZE /\ ~spi'[k].last
        OBVIOUS
      <4>1. k \in 1 .. (n - 1) /\ k + 1 \in 1 .. (n - 1)
        BY <1>t
      <4>2. spi[k + 1].len = PAGE_SIZE /\ ~spi[k + 1].last
        BY <2>1, <4>1 DEF FlightInv
      <4>. QED
        BY <1>2, <4>1, <4>2
    <3>4. NewestPart /\ NewestPart'
      BY <1>1, <2>1, <3>1 DEF FlightInv, NewestPart
    <3>5. spi[n].len \in Nat /\ spi[n].len > 0
      BY <3>4 DEF NewestPart
    <3>6. /\ InFlight = (n - 1) * PAGE_SIZE + spi[n].len
          /\ InFlight' = (n - 1 - 1) * PAGE_SIZE + spi[n].len
      BY <1>1, <3>1 DEF InFlight
    <3>7. (n - 1) * PAGE_SIZE = (n - 1 - 1) * PAGE_SIZE + PAGE_SIZE
      BY <1>t
    <3>8. (n - 1 - 1) * PAGE_SIZE \in Nat
      BY <1>t, <2>5
    <3>9. got' + InFlight' = sent /\ got' < payload.len
      <4>. DEFINE x == (n - 1 - 1) * PAGE_SIZE
                  l == spi[n].len
      <4>1. x \in Nat /\ l \in Nat /\ l > 0 /\ PAGE_SIZE \in Nat
        BY <3>5, <3>8
      <4>2. InFlight = x + PAGE_SIZE + l /\ InFlight' = x + l
        BY <3>6, <3>7
      <4>3. got' = got + PAGE_SIZE
        BY <2>3, <3>2
      <4>. HIDE DEF x, l
      <4>4. got + (x + PAGE_SIZE + l) = sent
        BY <2>2, <4>2
      <4>. QED
        BY <1>t, <4>1, <4>2, <4>3, <4>4
    <3>10. fpga' = "ready" /\ done' = 0
      BY <1>1, <2>2, <2>3, <3>2, <3>9
    <3>. QED
      BY <1>1, <1>t, <3>1, <3>3, <3>4, <3>9, <3>10 DEF FlightInv
  <2>. QED
    BY <1>2, <1>t, <2>4, <2>5
<1>8. Truncated' <=> Truncated
  BY <1>1 DEF Truncated
<1>. QED
  BY <1>1, <1>2, <1>4, <1>5, <1>6, <1>7, <1>8 DEF CleanInv

(* Failures are not forgotten.                                             *)
LEMMA SeenGrows == [Next]_vars => seen \subseteq seen'
<1>. SUFFICES ASSUME [Next]_vars PROVE seen \subseteq seen'
  OBVIOUS
<1>1. ASSUME NEW p \in Payloads, Call(p) PROVE seen' = seen
  BY <1>1 DEF Call, spiVars
<1>2. CASE SendPart
  BY <1>2 DEF SendPart
<1>3. CASE TransferOk
  <2>1. Receive(Head(spi))
    BY <1>3 DEF TransferOk
  <2>. QED
    BY <2>1 DEF Receive
<1>4. CASE TransferFails \/ ReadFails
  BY <1>4 DEF TransferFails, ReadFails
<1>5. CASE \/ Clear \/ WaitSent \/ CheckPins \/ Interrupted \/ InitTimeout \/ Startup
           \/ Unconfigure \/ GetIobuf \/ PutIobuf \/ UNCHANGED vars
  BY <1>5 DEF Clear, WaitSent, CheckPins, Interrupted, InitTimeout, Startup, Unconfigure,
              GetIobuf, PutIobuf, vars, spiVars
<1>. QED
  BY <1>1, <1>2, <1>3, <1>4, <1>5 DEF Next, Step, StepFails, Spi

(* Every step that is not itself a failure keeps what a call relies on.    *)
LEMMA CleanStep ==
  ASSUME ConfTypeInv, SemInv, Clean', CleanInv, [Next]_vars
  PROVE  CleanInv'
<1>t. /\ cpc \in Labels /\ sent \in Nat /\ payload.len \in Nat /\ payload.avail \in Nat
      /\ sent <= payload.len /\ sent <= payload.avail /\ got \in Nat
      /\ fpga \in {"off", "ready", "loaded", "started", "crc_error"}
      /\ done \in 0 .. MaxDone
  BY ReadCountBounds DEF ConfTypeInv, TypeOK
<1>1. ASSUME NEW p \in Payloads, Call(p) PROVE CleanInv'
  <2>1. /\ cpc = "idle" /\ cpc' = "down" /\ fpga = "off" /\ sent' = 0
        /\ UNCHANGED <<parts, done, spi, fpga, got, mixed>>
    BY <1>1 DEF Call, spiVars, fpgaVars
  <2>. QED
    BY <2>1 DEF CleanInv
<1>2. CASE Interrupted
  BY <1>2 DEF Interrupted, CleanInv, callVars, spiVars, fpgaVars
<1>3. CASE InitTimeout
  BY <1>3 DEF InitTimeout, ClearMemory, CleanInv, callVars, spiVars
<1>4. CASE Clear
  <2>1. /\ cpc = "down" /\ cpc' = "send" /\ parts' = 0 /\ fpga' = "ready" /\ got' = 0
        /\ mixed' = FALSE /\ UNCHANGED <<payload, sent, calls, done, spi>>
    BY <1>4 DEF Clear, ClearMemory, callVars
  <2>2. spi = <<>> /\ done = 0 /\ parts = Len(spi) /\ sent = 0
    BY <2>1 DEF CleanInv
  <2>3. FlightInv'
    BY <2>1, <2>2 DEF FlightInv, InFlight
  <2>. QED
    BY <2>1, <2>2, <2>3 DEF CleanInv
<1>5. CASE SendPart
  BY <1>5, CleanSend
<1>6. ~ReadFails /\ ~TransferFails
  BY DEF ReadFails, TransferFails, Clean, Never
<1>7. CASE WaitSent
  <2>1. /\ cpc = "send" /\ sent = payload.len /\ done > 0 /\ done' = done - 1
        /\ cpc' = "check" /\ UNCHANGED <<payload, sent, calls, parts, spi, fpga, got, mixed>>
    BY <1>7, <1>t DEF WaitSent, Left, callVars, fpgaVars
  <2>2. ~Truncated
    BY <1>t, <2>1 DEF Truncated
  <2>3. FlightInv
    BY <2>1, <2>2 DEF CleanInv
  <2>4. spi = <<>> /\ done = 1 /\ fpga # "ready" /\ got = payload.len
    BY <1>t, <2>1, <2>3 DEF FlightInv
  <2>. QED
    BY <2>1, <2>4 DEF CleanInv
<1>8. CASE CheckPins
  BY <1>8 DEF CheckPins, Return, CleanInv, callVars, spiVars, fpgaVars
<1>9. CASE TransferOk
  BY <1>9, CleanTransfer
<1>10. CASE Startup
  <2>1. /\ fpga = "loaded" /\ fpga' = "started"
        /\ UNCHANGED <<cpc, payload, sent, calls, parts, done, spi, got, mixed>>
    BY <1>10 DEF Startup, callVars, spiVars
  <2>2. (Truncated <=> Truncated') /\ (FlightInv => FlightInv')
    BY <2>1 DEF Truncated, FlightInv, NewestPart
  <2>. QED
    BY <2>1, <2>2 DEF CleanInv
<1>11. CASE Unconfigure
  BY <1>11 DEF Unconfigure, CleanInv, callVars, spiVars
<1>12. CASE GetIobuf \/ PutIobuf \/ UNCHANGED vars
  <2>1. UNCHANGED <<cpc, payload, sent, calls, parts, done, spi, fpga, got, mixed>>
    BY <1>12 DEF GetIobuf, PutIobuf, vars, callVars, spiVars, fpgaVars
  <2>2. (Truncated <=> Truncated') /\ (FlightInv => FlightInv')
    BY <2>1 DEF Truncated, FlightInv, NewestPart, InFlight
  <2>. QED
    BY <2>1, <2>2 DEF CleanInv
<1>. QED
  BY <1>1, <1>2, <1>3, <1>4, <1>5, <1>6, <1>7, <1>8, <1>9, <1>10, <1>11, <1>12
  DEF Next, Step, StepFails, Spi

(* With an FPGA that starts at once, a call that returns a result that is  *)
(* not negative has left the design running.                               *)
LEMMA QuickStep ==
  ASSUME ConfTypeInv, SemInv, Clean', CleanInv, QuickInv, [Next]_vars
  PROVE  QuickInv'
<1>t. cpc \in Labels /\ fpga \in {"off", "ready", "loaded", "started", "crc_error"}
  BY DEF ConfTypeInv, TypeOK
<1>. SUFFICES ASSUME payload'.valid, "slow_done" \notin seen'
              PROVE  /\ cpc' \in {"send", "check"} => fpga' \in {"ready", "started"}
                     /\ cpc' = "down" => retval' = -EIO
                     /\ ResultTrusted'
  BY DEF QuickInv
<1>s. "slow_done" \notin seen
  BY SeenGrows
<1>q. ASSUME payload' = payload
      PROVE  /\ cpc \in {"send", "check"} => fpga \in {"ready", "started"}
             /\ cpc = "down" => retval = -EIO
             /\ ResultTrusted
  BY <1>q, <1>s DEF QuickInv
<1>. USE DEF ResultTrusted
<1>1. ASSUME NEW p \in Payloads, Call(p)
      PROVE  /\ cpc' = "down" /\ retval' = -EIO
  BY <1>1 DEF Call
<1>2. CASE Interrupted
  BY <1>2, <1>q DEF Interrupted, callVars, EIO
<1>3. CASE InitTimeout
  BY <1>3, <1>q DEF InitTimeout, callVars, EIO
<1>4. CASE Clear
  BY <1>4, <1>q DEF Clear, ClearMemory
<1>5. CASE SendPart
  <2>1. cpc' = "send" /\ cpc = "send" /\ UNCHANGED <<payload, fpgaVars>>
    BY <1>5, CleanSend
  <2>. QED
    BY <2>1, <1>q DEF fpgaVars
<1>6. ~ReadFails /\ ~TransferFails
  BY DEF ReadFails, TransferFails, Clean, Never
<1>7. CASE WaitSent
  BY <1>7, <1>q DEF WaitSent, callVars, fpgaVars
<1>8. CASE CheckPins
  <2>1. cpc = "check" /\ cpc' = "idle" /\ fpga' = fpga /\ payload' = payload
    BY <1>8 DEF CheckPins, Return, callVars, fpgaVars
  <2>2. fpga = "started"
    BY <1>q, <2>1 DEF CleanInv
  <2>. QED
    BY <2>1, <2>2
<1>9. CASE TransferOk
  <2>1. /\ spi # <<>> /\ Receive(Head(spi)) /\ UNCHANGED <<cpc, payload, retval, calls>>
    BY <1>9 DEF TransferOk, callVars
  <2>2. cpc = "send" /\ payload.valid
    BY <1>t, <2>1 DEF CleanInv, Labels
  <2>3. fpga' \in {"ready", "started"}
    <3>1. CASE fpga = "ready"
      <4>1. ~mixed
        BY <2>2, <3>1 DEF CleanInv
      <4>2. Head(spi).call = calls
        BY <2>1 DEF CleanInv, ConfTypeInv, TypeOK
      <4>3. ~(mixed \/ Head(spi).call # calls \/ ~payload.valid)
        BY <2>2, <4>1, <4>2
      <4>. QED
        BY <2>1, <3>1, <4>3 DEF Receive
    <3>2. CASE fpga # "ready"
      BY <1>q, <2>1, <2>2, <3>2 DEF Receive, fpgaVars
    <3>. QED
      BY <3>1, <3>2
  <2>. QED
    BY <2>1, <2>2, <2>3
<1>10. CASE Startup
  BY <1>10, <1>q DEF Startup, callVars
<1>11. CASE Unconfigure
  BY <1>11, <1>q DEF Unconfigure, callVars
<1>12. CASE GetIobuf \/ PutIobuf \/ UNCHANGED vars
  BY <1>12, <1>q DEF GetIobuf, PutIobuf, vars, callVars, fpgaVars
<1>. QED
  BY <1>1, <1>2, <1>3, <1>4, <1>5, <1>6, <1>7, <1>8, <1>9, <1>10, <1>11, <1>12
  DEF Next, Step, StepFails, Spi

(* Pages are allocated for messages and freed with them.                   *)
LEMMA PagesStep ==
  ASSUME ConfTypeInv, SemInv, Clean => CleanInv, PagesFreed, [Next]_vars
  PROVE  PagesFreed'
<1>t. /\ spi \in Seq(Message) /\ Len(spi) \in Nat /\ pages \in Nat /\ parts \in Int
      /\ spi # <<>> => Len(Tail(spi)) = Len(spi) - 1
  BY DEF ConfTypeInv, TypeOK
<1>f. ASSUME UNCHANGED <<spi, pages, seen>> PROVE PagesFreed'
  BY <1>f DEF PagesFreed, Never
<1>1. ASSUME NEW p \in Payloads, Call(p) PROVE PagesFreed'
  BY <1>1, <1>f DEF Call, spiVars
<1>2. CASE SendPart
  <2>1. CASE Clean
    <3>1. seen' = seen /\ Len(spi') = Len(spi) + 1 /\ pages' = pages + 1
      BY <1>2, <2>1, CleanSend
    <3>. QED
      BY <1>t, <3>1 DEF PagesFreed, Never
  <2>2. CASE ~Clean
    <3>1. CASE parts' = 0
      BY <1>2, <2>2, <3>1 DEF SendPart, PagesFreed, Clean, Never
    <3>2. CASE parts' # 0
      <4>1. seen' = seen /\ pages' = pages + 1 /\ Len(spi') = Len(spi) + 1
        BY <1>2, <1>t, <3>2 DEF SendPart
      <4>. QED
        BY <1>t, <4>1 DEF PagesFreed, Never
    <3>. QED
      BY <3>1, <3>2
  <2>. QED
    BY <2>1, <2>2
<1>3. CASE TransferOk
  <2>1. /\ spi # <<>> /\ spi' = Tail(spi) /\ pages' = pages - 1
    BY <1>3 DEF TransferOk
  <2>2. seen' = seen \/ seen' = seen \cup {"slow_done"}
    BY <1>3 DEF TransferOk, Receive
  <2>. QED
    BY <1>t, <2>1, <2>2 DEF PagesFreed, Never
<1>4. CASE TransferFails
  <2>1. /\ spi # <<>> /\ spi' = Tail(spi) /\ pages' = pages - 1
        /\ seen' = seen \cup {"spi_err"}
    BY <1>4 DEF TransferFails
  <2>. QED
    BY <1>t, <2>1 DEF PagesFreed, Never
<1>5. CASE ReadFails
  BY <1>5 DEF ReadFails, PagesFreed, Never
<1>6. CASE \/ Clear \/ WaitSent \/ CheckPins \/ Interrupted \/ InitTimeout \/ Startup
           \/ Unconfigure \/ GetIobuf \/ PutIobuf \/ UNCHANGED vars
  BY <1>6, <1>f DEF Clear, WaitSent, CheckPins, Interrupted, InitTimeout, Startup,
                    Unconfigure, GetIobuf, PutIobuf, vars, spiVars
<1>. QED
  BY <1>1, <1>2, <1>3, <1>4, <1>5, <1>6 DEF Next, Step, StepFails, Spi

-----------------------------------------------------------------------------
ConfInv ==
  /\ SemInv /\ ConfTypeInv
  /\ Clean => CleanInv /\ QuickInv
  /\ PagesFreed

(* rhino_configure and its callbacks keep ConfInv, for any page size, any  *)
(* payloads (whole pages and truncated ones too), any number of calls and  *)
(* whatever the environment does.                                          *)
THEOREM ConfCorrect == Spec => []ConfInv
<1>1. Init => ConfInv
  <2>. SUFFICES ASSUME Init PROVE ConfInv
    OBVIOUS
  <2>. USE DEF Init
  <2>1. SemInv
    BY DEF SemInv, IoExcluded
  <2>2. /\ mixed \in BOOLEAN
        /\ io \in BOOLEAN
        /\ spi \in Seq(Message)
    <3>1. mixed \in BOOLEAN /\ io \in BOOLEAN
      BY Zenon
    <3>2. spi \in Seq(Message)
      OBVIOUS
    <3>. QED
      BY <3>1, <3>2, Zenon
  <2>3. ConfTypeInv
    BY <2>1, <2>2 DEF ConfTypeInv, TypeOK, SemInv, Labels, NoPayload, EIO
  <2>4. CleanInv /\ QuickInv
    BY DEF CleanInv, QuickInv, ResultTrusted, NoPayload
  <2>5. PagesFreed
    BY DEF PagesFreed
  <2>. QED
    BY <2>1, <2>3, <2>4, <2>5 DEF ConfInv
<1>2. ConfInv /\ [Next]_vars => ConfInv'
  <2>. SUFFICES ASSUME ConfInv, [Next]_vars PROVE ConfInv'
    OBVIOUS
  <2>1. SemInv' /\ ConfTypeInv'
    BY SemStep, ConfTypeStep DEF ConfInv
  <2>2. Clean' => Clean
    BY SeenGrows DEF Clean, Never
  <2>3. Clean' => CleanInv' /\ QuickInv'
    BY <2>2, CleanStep, QuickStep DEF ConfInv
  <2>4. PagesFreed'
    BY PagesStep DEF ConfInv
  <2>. QED
    BY <2>1, <2>3, <2>4 DEF ConfInv
<1>. QED
  BY <1>1, <1>2, PTL DEF Spec

(* All variables of rhino_configure keep their types, and no more is sent  *)
(* than the payload has.                                                   *)
THEOREM ConfTypeCorrect == Spec => []TypeOK
<1>1. ConfInv => TypeOK
  BY DEF ConfInv, ConfTypeInv
<1>. QED
  BY <1>1, ConfCorrect, PTL

(* No page is lost or freed twice, but for the one that a call loses when  *)
(* it gives up, and it gives up only after a failed transfer or read.      *)
THEOREM PagesFreedCorrect == Spec => []PagesFreed
<1>1. ConfInv => PagesFreed
  BY DEF ConfInv
<1>. QED
  BY <1>1, ConfCorrect, PTL

(* Until the first failing transfer or read, a call of rhino_configure     *)
(* never meets what another one left, and after the wait every byte is at  *)
(* the FPGA: for any page size and payloads, whole pages and truncated     *)
(* ones included, and any order of callbacks and calls.                    *)
THEOREM CallsApartCorrect == Spec => []CallsApart
<1>1. ConfInv => CallsApart
  <2>. SUFFICES ASSUME ConfInv PROVE CallsApart
    OBVIOUS
  <2>1. Clean => CleanInv
    BY DEF ConfInv
  <2>2. AllSentAfterWait
    BY <2>1 DEF AllSentAfterWait, Clean, CleanInv
  <2>3. NothingLeftOver
    BY <2>1 DEF NothingLeftOver, Clean, CleanInv
  <2>4. OwnDataOnly
    BY <2>1 DEF OwnDataOnly, Clean, CleanInv
  <2>. QED
    BY <2>2, <2>3, <2>4 DEF CallsApart
<1>. QED
  BY <1>1, ConfCorrect, PTL

(* borph_load_hw may take a result that is not negative for a running      *)
(* design, if the bitstream is valid, no transfer or read has failed so    *)
(* far and the FPGA starts at once: for any page size and payloads.        *)
THEOREM SuccessIsRealCorrect == Spec => []SuccessIsReal
<1>1. ConfInv => SuccessIsReal
  BY DEF ConfInv, SuccessIsReal, Clean, QuickInv, Never
<1>. QED
  BY <1>1, ConfCorrect, PTL

(* A valid bitstream that was sent without an error runs, and the call for *)
(* it returns 0.                                                           *)
THEOREM ValidIsStartedCorrect == Spec => ValidIsStarted
<1>. DEFINE A == cpc = "check" /\ payload.valid /\ Never({"spi_err", "read_err", "slow_done"})
                   => retval' = 0 /\ fpga = "started"
<1>1. ConfInv /\ [Next]_vars => [A]_<<cpc, retval>>
  <2>. SUFFICES ASSUME ConfInv, [Next]_vars, cpc = "check", payload.valid,
                       Never({"spi_err", "read_err", "slow_done"}),
                       ~UNCHANGED <<cpc, retval>>
                PROVE  retval' = 0 /\ fpga = "started"
    OBVIOUS
  <2>1. Clean /\ "slow_done" \notin seen
    BY DEF Clean, Never
  <2>2. fpga = "started"
    BY <2>1 DEF ConfInv, CleanInv, QuickInv
  <2>3. CASE CheckPins
    BY <2>2, <2>3 DEF CheckPins, Return
  <2>4. ASSUME NEW p \in Payloads, Call(p) PROVE FALSE
    BY <2>4 DEF Call
  <2>5. CASE Clear \/ SendPart \/ WaitSent \/ StepFails
    BY <2>5 DEF Clear, SendPart, WaitSent, StepFails, Interrupted, InitTimeout, ReadFails
  <2>6. CASE Spi \/ Startup \/ Unconfigure \/ GetIobuf \/ PutIobuf \/ UNCHANGED vars
    BY <2>6 DEF Spi, TransferOk, TransferFails, Startup, Unconfigure, GetIobuf, PutIobuf, vars
  <2>. QED
    BY <2>3, <2>4, <2>5, <2>6 DEF Next, Step
<1>. QED
  BY <1>1, ConfCorrect, PTL DEF Spec, ValidIsStarted
===============================================================================
