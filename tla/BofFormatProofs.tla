--------------------------- MODULE BofFormatProofs ---------------------------
(***************************************************************************)
(* For files of any size, any number of registers, names of any length and *)
(* a disk that may fill at any write: mkbof, the kernel and showbof agree  *)
(* on where everything is.                                                 *)
(***************************************************************************)
EXTENDS BofFormat, TLAPS

Types ==
  /\ arg \in [elf : ElfSizes, bit : BitSizes, endian : {"LSB", "MSB"},
              machine : {"arm", "other"}, class : {"rhino", "other"}]
  /\ pc \in Steps
  /\ ret \in {0, 1, -1}
  /\ symtab \in Seq(Nat) /\ begin \in Seq(Nat) /\ name \in Seq(Nat)
  /\ Len(symtab) = numsym /\ Len(begin) = numsym
  /\ strtabSize \in Nat /\ numsym \in Nat /\ i \in Nat /\ nameOff \in Nat
  /\ size \in Int
  /\ hdr \in Hdr

(* Where the name of register k begins, or the table ends.                 *)
Begin(k) == IF k <= numsym THEN begin[k] ELSE strtabSize

(* The history begin is what its comment says.                             *)
Table ==
  /\ numsym = 0 => strtabSize = 0
  /\ numsym > 0 => begin[1] = 0
  /\ \A k \in 1..numsym : Begin(k + 1) = begin[k] + symtab[k] + 1
  /\ \A k \in 1..numsym : begin[k] < strtabSize

(* mkbof is at one of the steps S, or is done, and wrote all it had to.    *)
Reached(S) == ~full /\ (pc \in S \/ (pc = "done" /\ ret = 0))

Iorg(k) == arg.elf + 80 + 12 * (k - 1)

(* The write position at each step.                                        *)
Position ==
  /\ pc \notin {"ehdr", "done"} => arg.elf >= 52
  /\ pc = "done" /\ ret = 0 => arg.elf >= 52
  /\ pc # "done" => ret = 0
  /\ pc \in {"ehdr", "symbols", "bofhdr"} => size = 0 /\ file = {} /\ i = 1 /\ nameOff = 0 /\ name = <<>>
  /\ pc \in {"elfbody", "elfhdr", "hwrhdr"} => i = 1 /\ nameOff = 0 /\ name = <<>>
  /\ pc \in {"symtab", "strtab"} => i \in 1..(numsym + 1)
  /\ ~full =>
       /\ pc = "elfbody" => size = 52
       /\ pc = "elfhdr" => size = arg.elf
       /\ pc = "hwrhdr" => size = arg.elf + 52
       /\ pc = "symtab" => size = Iorg(i)
       /\ pc = "strtab" => size = hdr.strtab + Begin(i)
       /\ pc = "done" /\ ret = 0 => size = hdr.pl + hdr.len

(* What has been written, and where.                                       *)
Placed ==
  /\ Reached({"elfbody", "elfhdr", "hwrhdr", "symtab", "strtab"}) =>
       /\ <<0, Obj("bofhdr", 0)>> \in file
       /\ hdr.elfoff = arg.elf /\ hdr.hwoff = arg.elf + 52
  /\ Reached({"hwrhdr", "symtab", "strtab"}) => <<arg.elf, Obj("elfhdr", 0)>> \in file
  /\ Reached({"symtab", "strtab"}) =>
       /\ <<hdr.hwoff, Obj("hwrhdr", 0)>> \in file
       /\ hdr.nr = numsym
       /\ hdr.strtab = Iorg(numsym + 1)
       /\ hdr.pl = hdr.strtab + strtabSize
       /\ hdr.len = arg.bit
  /\ ~full /\ pc = "symtab" =>
       \A k \in 1..(i - 1) : <<Iorg(k), Obj("ioreg", k)>> \in file
  /\ Reached({"strtab"}) =>
       \A k \in 1..numsym : <<Iorg(k), Obj("ioreg", k)>> \in file
  /\ ~full /\ pc = "strtab" =>
       \A k \in 1..(i - 1) : <<hdr.strtab + begin[k], Obj("name", k)>> \in file
  /\ Reached({}) =>
       /\ \A k \in 1..numsym : <<hdr.strtab + begin[k], Obj("name", k)>> \in file
       /\ <<hdr.pl, Obj("payload", 0)>> \in file

(* The name offsets written so far, and the next one.                      *)
Named ==
  /\ pc = "symtab" =>
       /\ Len(name) = i - 1
       /\ nameOff <= Begin(i)
       /\ Begin(i) < NameMod => nameOff = Begin(i)
  /\ Reached({"strtab"}) => Len(name) = numsym
  /\ \A k \in 1..Len(name) :
       k <= numsym => /\ name[k] <= begin[k]
                      /\ begin[k] < NameMod => name[k] = begin[k]

(* A run of mkbof that ended early wrote nothing, if not for the disk.     *)
Failed ==
  /\ pc = "done" /\ ret # 0 /\ ~full => file = {}
  /\ numsym <= SymtabSize + 1
  /\ numsym > SymtabSize => file = {} /\ pc = "done" /\ ret # 0

MakeInv == Types /\ Table /\ Position /\ Placed /\ Named /\ Failed

LEMMA InitMake == Init => MakeInv
<1> SUFFICES ASSUME Init PROVE MakeInv
  OBVIOUS
<1> USE FormatAssumption DEF Init
<1>1. Types
  <2>1. hdr \in Hdr
    BY DEF NoHdr, Hdr
  <2>2. /\ symtab \in Seq(Nat) /\ begin \in Seq(Nat) /\ name \in Seq(Nat)
        /\ Len(symtab) = numsym /\ Len(begin) = numsym
    OBVIOUS
  <2>3. pc \in Steps /\ ret \in {0, 1, -1}
    BY DEF Steps
  <2>4. strtabSize \in Nat /\ numsym \in Nat /\ i \in Nat /\ nameOff \in Nat /\ size \in Int
    OBVIOUS
  <2> QED
    BY <2>1, <2>2, <2>3, <2>4 DEF Types
<1>2. Table /\ Failed
  BY DEF Table, Failed
<1>3. Position /\ Placed
  BY DEF Position, Placed, Reached
<1>4. Named
  BY DEF Named, Reached
<1> QED
  BY <1>1, <1>2, <1>3, <1>4 DEF MakeInv

(* Taking the remainder makes a number no larger, and changes none that is *)
(* smaller than the modulus.                                               *)
LEMMA Remainder ==
  ASSUME NEW n \in Nat
  PROVE  /\ n % NameMod \in Nat
         /\ n % NameMod <= n
         /\ n < NameMod => n % NameMod = n
  BY FormatAssumption

(* The type facts the steps below need.                                    *)
LEMMA Basics ==
  ASSUME MakeInv
  PROVE  /\ arg.elf \in Nat /\ arg.bit \in Nat /\ numsym \in Nat /\ strtabSize \in Nat
         /\ ret \in {0, 1, -1} /\ name \in Seq(Nat) /\ i \in Nat /\ nameOff \in Nat
         /\ size \in Int /\ hdr.strtab \in Nat /\ hdr.pl \in Nat /\ hdr.len \in Nat
         /\ \A k \in 1..numsym : /\ begin[k] \in Nat /\ symtab[k] \in Nat
                                 /\ Begin(k) = begin[k]
                                 /\ Begin(k + 1) = begin[k] + symtab[k] + 1
         /\ Begin(numsym + 1) = strtabSize
<1>1. arg.elf \in Nat /\ arg.bit \in Nat
  BY FormatAssumption DEF MakeInv, Types
<1>2. /\ numsym \in Nat /\ strtabSize \in Nat /\ ret \in {0, 1, -1} /\ name \in Seq(Nat)
      /\ i \in Nat /\ nameOff \in Nat /\ size \in Int
      /\ symtab \in Seq(Nat) /\ begin \in Seq(Nat) /\ Len(symtab) = numsym /\ Len(begin) = numsym
  BY DEF MakeInv, Types
<1>3. hdr.strtab \in Nat /\ hdr.pl \in Nat /\ hdr.len \in Nat
  BY DEF MakeInv, Types, Hdr
<1>4. \A k \in 1..numsym : begin[k] \in Nat /\ symtab[k] \in Nat
  BY <1>2
<1>5. \A k \in 1..numsym : Begin(k) = begin[k]
  BY <1>2 DEF Begin
<1>6. \A k \in 1..numsym : Begin(k + 1) = begin[k] + symtab[k] + 1
  BY DEF MakeInv, Table
<1>7. Begin(numsym + 1) = strtabSize
  BY <1>2 DEF Begin
<1> QED
  BY <1>1, <1>2, <1>3, <1>4, <1>5, <1>6, <1>7

(* The tables that ReadSymbolFile filled stay as they are.                 *)
LEMMA TableKept ==
  ASSUME MakeInv, UNCHANGED <<arg, symtab, begin, strtabSize, numsym>>
  PROVE  /\ Table'
         /\ \A k \in Nat : Begin(k)' = Begin(k)
         /\ \A k \in Nat : Iorg(k)' = Iorg(k)
  BY DEF MakeInv, Table, Begin, Iorg

(* The two writes of header fields.                                        *)
LEMMA HdrUpdated ==
  ASSUME NEW h \in Hdr, NEW a \in Nat, NEW b \in Nat, NEW c \in Nat, NEW d \in Nat
  PROVE  /\ [h EXCEPT !.elfoff = a, !.hwoff = b] \in Hdr
         /\ [h EXCEPT !.nr = a, !.strtab = b, !.pl = c, !.len = d] \in Hdr
  BY DEF Hdr

(* Types, once the symbols are read.                                       *)
LEMMA TypesKept ==
  ASSUME MakeInv, UNCHANGED <<arg, symtab, begin, strtabSize, numsym>>,
         pc' \in Steps, ret' \in {0, 1, -1}, name' \in Seq(Nat), i' \in Nat,
         nameOff' \in Nat, size' \in Int,
         \/ UNCHANGED hdr
         \/ hdr' \in Hdr
  PROVE  Types'
  BY DEF MakeInv, Types

LEMMA EhdrStep == MakeInv /\ (ReadEhdr \/ SymbolsEnd) => MakeInv'
<1> SUFFICES ASSUME MakeInv, ReadEhdr \/ SymbolsEnd PROVE MakeInv'
  OBVIOUS
<1> USE DEF ReadEhdr, SymbolsEnd, Stop, ElfHdr
<1>1. Types'
  <2>1. /\ UNCHANGED <<arg, symtab, begin, strtabSize, numsym, i, nameOff, size, hdr, name>>
        /\ pc' \in {"symbols", "bofhdr", "done"} /\ ret' \in {ret, 1}
    OBVIOUS
  <2> QED
    BY <2>1 DEF MakeInv, Types, Steps
<1>2. Table'
  BY TableKept
<1>3. Position'
  BY FormatAssumption DEF MakeInv, Types, Position
<1>4. Placed'
  BY DEF MakeInv, Types, Position, Placed, Reached
<1>5. Named'
  <2>1. name' = <<>>
    BY DEF MakeInv, Position
  <2>2. pc' \in {"symbols", "bofhdr"} \/ (pc' = "done" /\ ret' = 1)
    OBVIOUS
  <2> QED
    BY <2>1, <2>2 DEF Named, Reached
<1>6. Failed'
  BY DEF MakeInv, Position, Failed
<1> QED
  BY <1>1, <1>2, <1>3, <1>4, <1>5, <1>6 DEF MakeInv

LEMMA SymbolStep ==
  ASSUME MakeInv, NEW n \in NameLens, ReadSymbol(n)
  PROVE  MakeInv'
<1> USE DEF ReadSymbol, Stop
<1>0. n \in Nat
  BY FormatAssumption
<1>a. /\ symtab \in Seq(Nat) /\ begin \in Seq(Nat)
      /\ Len(symtab) = numsym /\ Len(begin) = numsym /\ numsym \in Nat /\ strtabSize \in Nat
  BY DEF MakeInv, Types
<1>b. symtab' \in Seq(Nat) /\ Len(symtab') = numsym' /\ symtab'[numsym'] = n
  BY <1>0, <1>a
<1>c. begin' \in Seq(Nat) /\ Len(begin') = numsym' /\ begin'[numsym'] = strtabSize
  BY <1>a
<1>d. numsym' \in Nat /\ strtabSize' \in Nat
  BY <1>0, <1>a
<1>1. Types'
  <2> HIDE DEF ReadSymbol
  <2>1. /\ UNCHANGED <<arg, i, nameOff, size, full, hdr, name>>
        /\ pc' \in {pc, "done"} /\ ret' \in {ret, 1}
    BY DEF ReadSymbol
  <2> QED
    BY <1>b, <1>c, <1>d, <2>1 DEF MakeInv, Types, Steps
<1>2. Table'
  <2>1. Len(symtab) = numsym /\ Len(begin) = numsym /\ numsym \in Nat /\ strtabSize \in Nat
    BY <1>a
  <2>2. /\ numsym' = numsym + 1 /\ strtabSize' = strtabSize + n + 1
        /\ begin'[numsym'] = strtabSize /\ symtab'[numsym'] = n
        /\ \A k \in 1..numsym : begin'[k] = begin[k] /\ symtab'[k] = symtab[k]
    BY <1>a, <1>b, <1>c
  <2> HIDE DEF ReadSymbol
  <2>3. ASSUME NEW k \in 1..numsym' PROVE begin'[k] < strtabSize'
    <3>1. CASE k = numsym'
      BY <1>0, <2>1, <2>2, <3>1
    <3>2. CASE k \in 1..numsym
      <4>1. begin[k] \in Nat /\ begin[k] < strtabSize
        BY <1>a, <3>2, SMTT(30) DEF MakeInv, Table
      <4> QED
        BY <1>0, <2>1, <2>2, <3>2, <4>1
    <3> QED
      BY <2>1, <2>2, <3>1, <3>2
  <2>4. begin'[1] = 0
    BY <2>1, <2>2 DEF MakeInv, Table
  <2>5. ASSUME NEW k \in 1..numsym'
        PROVE  Begin(k + 1)' = begin'[k] + symtab'[k] + 1
    <3>1. CASE k = numsym'
      BY <2>1, <2>2, <3>1 DEF Begin
    <3>2. CASE k = numsym
      BY <2>1, <2>2, <3>2 DEF Begin, MakeInv, Table
    <3>3. CASE k < numsym
      BY <2>1, <2>2, <3>3 DEF Begin, MakeInv, Table
    <3> QED
      BY <2>1, <2>2, <3>1, <3>2, <3>3
  <2> QED
    BY <2>1, <2>2, <2>3, <2>4, <2>5 DEF Table
<1>3. Position'
  BY DEF MakeInv, Types, Position
<1>4. Placed'
  BY DEF MakeInv, Types, Placed, Reached
<1>5. Named'
  BY DEF MakeInv, Types, Position, Named, Reached
<1>6. Failed'
  BY FormatAssumption DEF MakeInv, Types, Position, Failed
<1> QED
  BY <1>1, <1>2, <1>3, <1>4, <1>5, <1>6 DEF MakeInv

(* The three writes before the region header.                              *)
LEMMA BofHdrStep == MakeInv /\ WriteBofHdr => MakeInv'
<1> SUFFICES ASSUME MakeInv, WriteBofHdr PROVE MakeInv'
  OBVIOUS
<1> USE DEF WriteBofHdr, Write, Stop, BofHdr, ElfHdr, HwrHdr, BofIoreg
<1>0. arg.elf \in Nat /\ arg.bit \in Nat
  BY FormatAssumption DEF MakeInv, Types
<1>1. Types'
  <2>0. /\ ret \in {0, 1, -1} /\ name \in Seq(Nat) /\ i \in Nat
        /\ nameOff \in Nat /\ size \in Int
    BY DEF MakeInv, Types
  <2>1. /\ pc' \in Steps /\ ret' \in {0, 1, -1} /\ name' \in Seq(Nat) /\ i' \in Nat
        /\ nameOff' \in Nat /\ size' \in Int
    BY <1>0, <2>0 DEF Steps
  <2>2. \/ UNCHANGED hdr
        \/ hdr' \in Hdr
    <3>1. hdr \in Hdr
      BY DEF MakeInv, Types
    <3>2. hdr' = [hdr EXCEPT !.elfoff = arg.elf, !.hwoff = arg.elf + ElfHdr]
      OBVIOUS
    <3>3. arg.elf \in Nat /\ arg.elf + ElfHdr \in Nat
      BY <1>0
    <3> HIDE DEF WriteBofHdr, ElfHdr
    <3> QED
      BY <3>1, <3>2, <3>3, HdrUpdated
  <2> QED
    BY <2>1, <2>2, TypesKept
<1>2. Table' /\ (\A k \in Nat : Begin(k)' = Begin(k)) /\ (\A k \in Nat : Iorg(k)' = Iorg(k))
  BY TableKept
<1>3. Position'
  BY <1>0, <1>2 DEF MakeInv, Types, Position, Placed, Reached
<1>4. Placed'
  BY <1>0, <1>2 DEF MakeInv, Types, Position, Placed, Reached
<1>5. Named'
  BY DEF MakeInv, Types, Position, Named, Reached
<1>6. Failed'
  BY DEF MakeInv, Failed
<1> QED
  BY <1>1, <1>2, <1>3, <1>4, <1>5, <1>6 DEF MakeInv

LEMMA ElfBodyStep == MakeInv /\ CopyElf => MakeInv'
<1> SUFFICES ASSUME MakeInv, CopyElf PROVE MakeInv'
  OBVIOUS
<1> USE DEF CopyElf, Write, Stop, BofHdr, ElfHdr, HwrHdr, BofIoreg
<1>0. arg.elf \in Nat /\ arg.bit \in Nat
  BY FormatAssumption DEF MakeInv, Types
<1>1. Types'
  <2>0. /\ ret \in {0, 1, -1} /\ name \in Seq(Nat) /\ i \in Nat
        /\ nameOff \in Nat /\ size \in Int
    BY DEF MakeInv, Types
  <2>1. /\ pc' \in Steps /\ ret' \in {0, 1, -1} /\ name' \in Seq(Nat) /\ i' \in Nat
        /\ nameOff' \in Nat /\ size' \in Int
    BY <1>0, <2>0 DEF Steps
  <2>2. \/ UNCHANGED hdr
        \/ hdr' \in Hdr
    OBVIOUS
  <2> QED
    BY <2>1, <2>2, TypesKept
<1>2. Table' /\ (\A k \in Nat : Begin(k)' = Begin(k)) /\ (\A k \in Nat : Iorg(k)' = Iorg(k))
  BY TableKept
<1>3. Position'
  BY <1>0, <1>2 DEF MakeInv, Types, Position, Placed, Reached
<1>4. Placed'
  BY <1>0, <1>2 DEF MakeInv, Types, Position, Placed, Reached
<1>5. Named'
  BY DEF MakeInv, Types, Position, Named, Reached
<1>6. Failed'
  BY DEF MakeInv, Failed
<1> QED
  BY <1>1, <1>2, <1>3, <1>4, <1>5, <1>6 DEF MakeInv

LEMMA ElfHdrStep == MakeInv /\ WriteElfHdr => MakeInv'
<1> SUFFICES ASSUME MakeInv, WriteElfHdr PROVE MakeInv'
  OBVIOUS
<1> USE DEF WriteElfHdr, Write, Stop, BofHdr, ElfHdr, HwrHdr, BofIoreg
<1>0. arg.elf \in Nat /\ arg.bit \in Nat
  BY FormatAssumption DEF MakeInv, Types
<1>1. Types'
  <2>0. /\ ret \in {0, 1, -1} /\ name \in Seq(Nat) /\ i \in Nat
        /\ nameOff \in Nat /\ size \in Int
    BY DEF MakeInv, Types
  <2>1. /\ pc' \in Steps /\ ret' \in {0, 1, -1} /\ name' \in Seq(Nat) /\ i' \in Nat
        /\ nameOff' \in Nat /\ size' \in Int
    BY <1>0, <2>0 DEF Steps
  <2>2. \/ UNCHANGED hdr
        \/ hdr' \in Hdr
    OBVIOUS
  <2> QED
    BY <2>1, <2>2, TypesKept
<1>2. Table' /\ (\A k \in Nat : Begin(k)' = Begin(k)) /\ (\A k \in Nat : Iorg(k)' = Iorg(k))
  BY TableKept
<1>3. Position'
  BY <1>0, <1>2 DEF MakeInv, Types, Position, Placed, Reached
<1>4. Placed'
  BY <1>0, <1>2 DEF MakeInv, Types, Position, Placed, Reached
<1>5. Named'
  BY DEF MakeInv, Types, Position, Named, Reached
<1>6. Failed'
  BY DEF MakeInv, Failed
<1> QED
  BY <1>1, <1>2, <1>3, <1>4, <1>5, <1>6 DEF MakeInv

(* The region header: its offsets are sums over what is still to come.     *)
LEMMA HwrHdrStep == MakeInv /\ WriteHwrHdr => MakeInv'
<1> SUFFICES ASSUME MakeInv, WriteHwrHdr PROVE MakeInv'
  OBVIOUS
<1> USE DEF WriteHwrHdr, Write, Stop, BofHdr, ElfHdr, HwrHdr, BofIoreg
<1>0. /\ arg.elf \in Nat /\ arg.bit \in Nat /\ numsym \in Nat /\ strtabSize \in Nat
      /\ symtab \in Seq(Nat) /\ Len(symtab) = numsym /\ i \in Nat
  BY FormatAssumption DEF MakeInv, Types
<1>1. Types'
  <2>0. /\ ret \in {0, 1, -1} /\ name \in Seq(Nat) /\ i \in Nat
        /\ nameOff \in Nat /\ size \in Int
    BY DEF MakeInv, Types
  <2>1. /\ pc' \in Steps /\ ret' \in {0, 1, -1} /\ name' \in Seq(Nat) /\ i' \in Nat
        /\ nameOff' \in Nat /\ size' \in Int
    BY <1>0, <2>0, Remainder DEF Steps
  <2>2. UNCHANGED hdr \/ hdr' \in Hdr
    <3>1. hdr \in Hdr
      BY DEF MakeInv, Types
    <3> DEFINE off == arg.elf + ElfHdr + HwrHdr + numsym * BofIoreg
    <3>2. hdr' = [hdr EXCEPT !.nr = numsym, !.strtab = off, !.pl = off + strtabSize,
                             !.len = arg.bit]
      OBVIOUS
    <3> HIDE DEF WriteHwrHdr, Write, Stop
    <3>3. numsym * BofIoreg \in Nat
      BY <1>0
    <3>4. off \in Nat /\ off + strtabSize \in Nat
      BY <1>0, <3>3
    <3> HIDE DEF off
    <3> QED
      BY <1>0, <3>1, <3>2, <3>4, HdrUpdated
  <2> QED
    BY <2>1, <2>2, TypesKept
<1>2. Table' /\ (\A k \in Nat : Begin(k)' = Begin(k)) /\ (\A k \in Nat : Iorg(k)' = Iorg(k))
  BY TableKept
<1>a. /\ hdr'.nr = numsym /\ hdr'.strtab = arg.elf + 80 + numsym * 12
      /\ hdr'.pl = hdr'.strtab + strtabSize /\ hdr'.len = arg.bit
      /\ hdr'.elfoff = hdr.elfoff /\ hdr'.hwoff = hdr.hwoff
  BY <1>0 DEF MakeInv, Types, Hdr
<1>3. Position'
  BY <1>0, <1>2 DEF MakeInv, Position, Iorg
<1>4. Placed'
  BY <1>0, <1>2, <1>a, SMTT(30) DEF MakeInv, Position, Placed, Reached, Iorg
<1>5. Named'
  BY <1>0, <1>2 DEF MakeInv, Position, Named, Reached, Table, Begin
<1>6. Failed'
  BY DEF MakeInv, Failed
<1> QED
  BY <1>1, <1>2, <1>3, <1>4, <1>5, <1>6 DEF MakeInv

(* One register: the turn of the loop whose name offset may run over.      *)
LEMMA SymtabStep == MakeInv /\ WriteSymtab => MakeInv'
<1> SUFFICES ASSUME MakeInv, WriteSymtab PROVE MakeInv'
  OBVIOUS
<1>0. /\ arg.elf \in Nat /\ arg.bit \in Nat /\ numsym \in Nat /\ strtabSize \in Nat
      /\ ret \in {0, 1, -1} /\ name \in Seq(Nat) /\ i \in Nat /\ nameOff \in Nat
      /\ size \in Int /\ hdr.strtab \in Nat /\ hdr.pl \in Nat /\ hdr.len \in Nat
  BY Basics
<1>a. i \in 1..numsym /\ pc = "symtab"
  BY <1>0 DEF WriteSymtab, MakeInv, Position
<1>d. /\ begin[i] \in Nat /\ symtab[i] \in Nat /\ Begin(i) = begin[i]
      /\ Begin(i + 1) = begin[i] + symtab[i] + 1
  BY <1>a, Basics
<1>b. \/ /\ ~full /\ file' = file \cup {<<size, Obj("ioreg", i)>>} /\ size' = size + 12
         /\ pc' = "symtab" /\ UNCHANGED <<full, ret>>
      \/ full' = TRUE /\ pc' = "symtab" /\ UNCHANGED <<file, size, ret>>
  BY DEF WriteSymtab, Write, BofIoreg
<1>c. /\ name' = Append(name, nameOff) /\ nameOff' = (nameOff + symtab[i] + 1) % NameMod
      /\ i' = i + 1 /\ UNCHANGED <<arg, symtab, begin, strtabSize, numsym, hdr>>
  BY DEF WriteSymtab
<1>2. Table' /\ (\A k \in Nat : Begin(k)' = Begin(k)) /\ (\A k \in Nat : Iorg(k)' = Iorg(k))
  BY <1>c, TableKept
<1>e. nameOff' \in Nat
  <2>1. nameOff + symtab[i] + 1 \in Nat
    BY <1>0, <1>d
  <2> QED
    BY <1>c, <2>1, Remainder
<1>1. Types'
  <2>1. name' \in Seq(Nat)
    BY <1>0, <1>c
  <2>2. pc' \in Steps /\ ret' \in {0, 1, -1} /\ i' \in Nat /\ size' \in Int
    BY <1>0, <1>b, <1>c DEF Steps
  <2> QED
    BY <1>c, <1>e, <2>1, <2>2, TypesKept
<1>3. Position'
  <2>1. Iorg(i + 1) = Iorg(i) + 12 /\ Iorg(i) \in Int
    BY <1>0 DEF Iorg
  <2>2. i' \in 1..(numsym + 1) /\ pc' = "symtab" /\ ret' = 0 /\ arg.elf >= 52
    BY <1>0, <1>a, <1>b, <1>c DEF MakeInv, Position
  <2>3. Iorg(i)' = Iorg(i + 1)
    BY <1>c DEF Iorg
  <2>4. ~full' => size' = Iorg(i)'
    BY <1>0, <1>a, <1>b, <2>1, <2>3 DEF MakeInv, Position
  <2> QED
    BY <1>c, <2>2, <2>4 DEF Position
<1>4. Placed'
  <2>1. ~full' => \A k \in 1..(i' - 1) : <<Iorg(k), Obj("ioreg", k)>> \in file'
    <3>1. SUFFICES ASSUME ~full', NEW k \in 1..(i' - 1) PROVE <<Iorg(k), Obj("ioreg", k)>> \in file'
      OBVIOUS
    <3>2. ~full /\ size = Iorg(i) /\ file' = file \cup {<<size, Obj("ioreg", i)>>}
      BY <1>a, <1>b, <3>1 DEF MakeInv, Position
    <3>3. CASE k = i
      BY <3>2, <3>3
    <3>4. CASE k \in 1..(i - 1)
      BY <1>a, <3>2, <3>4 DEF MakeInv, Placed
    <3> QED
      BY <1>0, <1>c, <3>3, <3>4
  <2>2. pc' = "symtab" /\ UNCHANGED <<arg, begin, numsym, strtabSize, hdr>> /\ file \subseteq file'
    BY <1>b, <1>c
  <2>3. ~full' => ~full
    BY <1>b
  <2> QED
    BY <1>0, <1>a, <1>c, <1>2, <2>1, <2>2, <2>3 DEF MakeInv, Placed, Reached
<1>5. Named'
  <2>1. nameOff <= begin[i] /\ (begin[i] < NameMod => nameOff = begin[i])
    BY <1>a, <1>d DEF MakeInv, Named
  <2>2. /\ Len(name') = i /\ name'[i] = nameOff
        /\ \A k \in 1..(i - 1) : name'[k] = name[k]
    <3>1. Len(name) = i - 1
      BY <1>a DEF MakeInv, Named
    <3> QED
      BY <1>0, <1>a, <1>c, <3>1
  <2>3. /\ nameOff' <= Begin(i + 1)
        /\ Begin(i + 1) < NameMod => nameOff' = Begin(i + 1)
    <3>1. nameOff + symtab[i] + 1 \in Nat /\ nameOff + symtab[i] + 1 <= Begin(i + 1)
      BY <1>0, <1>d, <2>1, SMTT(30)
    <3>2. Begin(i + 1) < NameMod => nameOff + symtab[i] + 1 = Begin(i + 1)
      BY <1>0, <1>d, <2>1, FormatAssumption
    <3>3. Begin(i + 1) \in Nat
      BY <1>d
    <3> QED
      BY <1>c, <1>e, <3>1, <3>2, <3>3, Remainder, FormatAssumption
  <2>4. ASSUME NEW k \in 1..Len(name')
        PROVE  name'[k] <= begin[k] /\ (begin[k] < NameMod => name'[k] = begin[k])
    <3>1. CASE k = i
      BY <2>1, <2>2, <3>1
    <3>2. CASE k \in 1..(i - 1)
      <4>1. k \in 1..Len(name) /\ k <= numsym
        BY <1>0, <1>a, <3>2 DEF MakeInv, Named
      <4> QED
        BY <2>2, <3>2, <4>1 DEF MakeInv, Named
    <3> QED
      BY <1>0, <2>2, <3>1, <3>2
  <2>5. pc' = "symtab" /\ i' = i + 1 /\ UNCHANGED <<begin, numsym>>
    BY <1>b, <1>c
  <2>6. Begin(i)' = Begin(i + 1)
    BY <1>c DEF Begin
  <2> QED
    BY <1>0, <2>2, <2>3, <2>4, <2>5, <2>6 DEF Named, Reached
<1>6. Failed'
  BY <1>a, <1>b, <1>c DEF MakeInv, Position, Failed
<1> QED
  BY <1>1, <1>2, <1>3, <1>4, <1>5, <1>6 DEF MakeInv

(* The end of the loop, where i starts again at the first name.            *)
LEMMA SymtabEndStep == MakeInv /\ SymtabEnd => MakeInv'
<1> SUFFICES ASSUME MakeInv, SymtabEnd PROVE MakeInv'
  OBVIOUS
<1>0. /\ arg.elf \in Nat /\ arg.bit \in Nat /\ numsym \in Nat /\ strtabSize \in Nat
      /\ ret \in {0, 1, -1} /\ name \in Seq(Nat) /\ i \in Nat /\ nameOff \in Nat
      /\ size \in Int /\ hdr.strtab \in Nat /\ hdr.pl \in Nat /\ hdr.len \in Nat
  BY Basics
<1>a. i = numsym + 1 /\ pc = "symtab"
  BY <1>0 DEF SymtabEnd, MakeInv, Position
<1>b. /\ pc' = "strtab" /\ i' = 1
      /\ UNCHANGED <<arg, ret, symtab, begin, strtabSize, numsym, nameOff, file, size,
                     full, hdr, name>>
  BY DEF SymtabEnd
<1>1. Types'
  BY <1>0, <1>b, TypesKept DEF Steps
<1>2. Table' /\ (\A k \in Nat : Begin(k)' = Begin(k)) /\ (\A k \in Nat : Iorg(k)' = Iorg(k))
  BY <1>b, TableKept
<1>3. Position'
  <2>1. Begin(1) = 0
    BY <1>0 DEF MakeInv, Table, Begin
  <2> QED
    BY <1>0, <1>a, <1>b, <1>2, <2>1 DEF MakeInv, Position, Placed, Reached
<1>4. Placed'
  BY <1>0, <1>a, <1>b, <1>2 DEF MakeInv, Placed, Reached
<1>5. Named'
  BY <1>0, <1>a, <1>b, <1>2 DEF MakeInv, Named, Reached
<1>6. Failed'
  BY <1>a, <1>b DEF MakeInv, Failed
<1> QED
  BY <1>1, <1>2, <1>3, <1>4, <1>5, <1>6 DEF MakeInv

(* One name.                                                               *)
LEMMA StrtabStep == MakeInv /\ WriteStrtab => MakeInv'
<1> SUFFICES ASSUME MakeInv, WriteStrtab PROVE MakeInv'
  OBVIOUS
<1>0. /\ arg.elf \in Nat /\ arg.bit \in Nat /\ numsym \in Nat /\ strtabSize \in Nat
      /\ ret \in {0, 1, -1} /\ name \in Seq(Nat) /\ i \in Nat /\ nameOff \in Nat
      /\ size \in Int /\ hdr.strtab \in Nat /\ hdr.pl \in Nat /\ hdr.len \in Nat
  BY Basics
<1>a. i \in 1..numsym /\ pc = "strtab"
  BY <1>0 DEF WriteStrtab, MakeInv, Position
<1>d. /\ begin[i] \in Nat /\ symtab[i] \in Nat /\ Begin(i) = begin[i]
      /\ Begin(i + 1) = begin[i] + symtab[i] + 1
  BY <1>a, Basics
<1>b. \/ /\ ~full /\ file' = file \cup {<<size, Obj("name", i)>>} /\ size' = size + (symtab[i] + 1)
         /\ pc' = "strtab" /\ UNCHANGED <<full, ret>>
      \/ full' = TRUE /\ pc' = "strtab" /\ UNCHANGED <<file, size, ret>>
  BY DEF WriteStrtab, Write, BofIoreg
<1>c. i' = i + 1 /\ UNCHANGED <<arg, symtab, begin, strtabSize, numsym, nameOff, hdr, name>>
  BY DEF WriteStrtab
<1>2. Table' /\ (\A k \in Nat : Begin(k)' = Begin(k)) /\ (\A k \in Nat : Iorg(k)' = Iorg(k))
  BY <1>c, TableKept
<1>1. Types'
  <2>1. /\ size' \in {size, size + (symtab[i] + 1)} /\ pc' = "strtab" /\ ret' = ret
        /\ i' = i + 1
    BY <1>b, <1>c
  <2>2. size + (symtab[i] + 1) \in Int
    BY <1>0, <1>d
  <2>3. pc' \in Steps /\ ret' \in {0, 1, -1} /\ i' \in Nat /\ size' \in Int
    BY <1>0, <2>1, <2>2 DEF Steps
  <2> QED
    BY <1>0, <1>c, <2>3, TypesKept
<1>3. Position'
  <2>1. i' \in 1..(numsym + 1) /\ pc' = "strtab" /\ ret' = 0 /\ arg.elf >= 52
    BY <1>0, <1>a, <1>b, <1>c DEF MakeInv, Position
  <2>2. ~full' => size' = hdr.strtab + Begin(i + 1)
    <3>1. ~full => size = hdr.strtab + Begin(i)
      BY <1>a DEF MakeInv, Position
    <3>2. ~full' => ~full /\ size' = size + (symtab[i] + 1)
      BY <1>b
    <3>3. size = hdr.strtab + Begin(i) /\ size' = size + (symtab[i] + 1)
          => size' = hdr.strtab + Begin(i + 1)
      <4>1. \A h, b, c, z, y \in Int : z = h + b /\ y = z + (c + 1) => y = h + (b + c + 1)
        OBVIOUS
      <4>2. /\ hdr.strtab \in Int /\ Begin(i) \in Int /\ symtab[i] \in Int /\ size \in Int
            /\ Begin(i + 1) = Begin(i) + symtab[i] + 1
        BY <1>0, <1>d
      <4>3. size' = size + (symtab[i] + 1) => size' \in Int
        BY <4>2
      <4> QED
        BY <4>1, <4>2, <4>3
    <3> QED
      BY <3>1, <3>2, <3>3
  <2>3. Begin(i)' = Begin(i + 1)
    BY <1>c DEF Begin
  <2> QED
    BY <1>0, <1>c, <2>1, <2>2, <2>3 DEF Position
<1>4. Placed'
  <2>1. ~full' => \A k \in 1..(i' - 1) : <<hdr.strtab + begin[k], Obj("name", k)>> \in file'
    <3>1. SUFFICES ASSUME ~full', NEW k \in 1..(i' - 1)
                   PROVE  <<hdr.strtab + begin[k], Obj("name", k)>> \in file'
      OBVIOUS
    <3>2. ~full /\ size = hdr.strtab + begin[i] /\ file' = file \cup {<<size, Obj("name", i)>>}
      BY <1>a, <1>b, <1>d, <3>1 DEF MakeInv, Position
    <3>3. CASE k = i
      BY <3>2, <3>3
    <3>4. CASE k \in 1..(i - 1)
      BY <1>a, <3>2, <3>4 DEF MakeInv, Placed
    <3> QED
      BY <1>0, <1>c, <3>3, <3>4
  <2>2. pc' = "strtab" /\ UNCHANGED <<arg, begin, numsym, strtabSize, hdr>> /\ file \subseteq file'
    BY <1>b, <1>c
  <2>3. ~full' => ~full
    BY <1>b
  <2> QED
    BY <1>0, <1>a, <1>c, <1>2, <2>1, <2>2, <2>3 DEF MakeInv, Placed, Reached
<1>5. Named'
  BY <1>0, <1>a, <1>b, <1>c, <1>2 DEF MakeInv, Named, Reached
<1>6. Failed'
  BY <1>a, <1>b, <1>c DEF MakeInv, Position, Failed
<1> QED
  BY <1>1, <1>2, <1>3, <1>4, <1>5, <1>6 DEF MakeInv

(* The payload, which ends the file.                                       *)
LEMMA PayloadStep == MakeInv /\ CopyBit => MakeInv'
<1> SUFFICES ASSUME MakeInv, CopyBit PROVE MakeInv'
  OBVIOUS
<1>0. /\ arg.elf \in Nat /\ arg.bit \in Nat /\ numsym \in Nat /\ strtabSize \in Nat
      /\ ret \in {0, 1, -1} /\ name \in Seq(Nat) /\ i \in Nat /\ nameOff \in Nat
      /\ size \in Int /\ hdr.strtab \in Nat /\ hdr.pl \in Nat /\ hdr.len \in Nat
  BY Basics
<1>a. i = numsym + 1 /\ pc = "strtab"
  BY <1>0 DEF CopyBit, MakeInv, Position
<1>d. Begin(i) = strtabSize
  BY <1>a, Basics
<1>b. \/ /\ ~full /\ file' = file \cup {<<size, Obj("payload", 0)>>} /\ size' = size + arg.bit
         /\ pc' = "done" /\ UNCHANGED <<full, ret>>
      \/ full' = TRUE /\ pc' = "done" /\ UNCHANGED <<file, size, ret>>
  BY DEF CopyBit, Write, BofIoreg
<1>c. i' = i /\ UNCHANGED <<arg, symtab, begin, strtabSize, numsym, nameOff, hdr, name>>
  BY DEF CopyBit
<1>2. Table' /\ (\A k \in Nat : Begin(k)' = Begin(k)) /\ (\A k \in Nat : Iorg(k)' = Iorg(k))
  BY <1>c, TableKept
<1>1. Types'
  <2>1. pc' \in Steps /\ ret' \in {0, 1, -1} /\ size' \in Int
    BY <1>0, <1>b DEF Steps
  <2> QED
    BY <1>0, <1>c, <2>1, TypesKept
<1>e. ~full' => ~full /\ size = hdr.pl /\ file' = file \cup {<<hdr.pl, Obj("payload", 0)>>}
               /\ hdr.len = arg.bit /\ size' = hdr.pl + hdr.len
  BY <1>0, <1>a, <1>b, <1>d DEF MakeInv, Position, Placed, Reached
<1>3. Position'
  <2>1. pc' = "done" /\ arg.elf >= 52
    BY <1>a, <1>b DEF MakeInv, Position
  <2> QED
    BY <1>c, <1>e, <2>1 DEF Position
<1>4. Placed'
  BY <1>0, <1>a, <1>b, <1>c, <1>2, <1>e DEF MakeInv, Placed, Reached
<1>5. Named'
  BY <1>0, <1>a, <1>b, <1>c, <1>2 DEF MakeInv, Named, Reached
<1>6. Failed'
  BY <1>a, <1>b, <1>c DEF MakeInv, Position, Failed
<1> QED
  BY <1>1, <1>2, <1>3, <1>4, <1>5, <1>6 DEF MakeInv

-----------------------------------------------------------------------------
(* The readers.                                                            *)

(* A reader that can make sense of the headers of the file.                *)
Understands ==
  \/ reader = "kernel" /\ ForThisBoard
  \/ reader = "showbof" /\ arg.endian = "LSB"

(* Where such a reader is at each of its steps.                            *)
Reading ==
  /\ pc # "done" => reader = "none"
  /\ reader = "none" => rpc = "idle" /\ regs = 0
  /\ Made /\ Understands =>
       /\ rpc \in {"hwrhdr", "strtab", "regs", "elf", "scan", "end", "fault"}
       /\ rpc \in {"hwrhdr", "strtab"} => regs = 0
       /\ rpc = "strtab" => cur = Iorg(1)
       /\ rpc = "regs" => regs \in Nat /\ regs <= numsym /\ cur = Iorg(regs + 1)
  /\ reader # "none" /\ ret # 0 /\ ~full => rpc = "refused"

Inv == MakeInv /\ Reading

LEMMA MakeStep == Inv /\ Make => Inv'
<1> SUFFICES ASSUME Inv, Make PROVE Inv'
  OBVIOUS
<1>1. MakeInv'
  BY EhdrStep, SymbolStep, BofHdrStep, ElfBodyStep, ElfHdrStep, HwrHdrStep, SymtabStep,
     SymtabEndStep, StrtabStep, PayloadStep DEF Make, Inv
<1>2. pc # "done" /\ UNCHANGED readVars
  BY DEF Make, ReadEhdr, ReadSymbol, SymbolsEnd, WriteBofHdr, CopyElf, WriteElfHdr,
     WriteHwrHdr, WriteSymtab, SymtabEnd, WriteStrtab, CopyBit, readVars
<1> QED
  BY <1>1, <1>2 DEF Inv, Reading, readVars, Understands, ForThisBoard, SaysArm

(* What a reader of a complete file relies on.                             *)
LEMMA Complete ==
  ASSUME Inv, Made
  PROVE  /\ arg.elf \in Nat /\ numsym \in Nat /\ hdr.strtab \in Nat
         /\ hdr.elfoff = arg.elf /\ hdr.hwoff = arg.elf + 52 /\ hdr.nr = numsym
         /\ hdr.strtab = Iorg(numsym + 1) /\ hdr.pl = hdr.strtab + strtabSize
         /\ numsym > 0 => strtabSize # 0 /\ Lands(hdr.strtab, Obj("name", 1))
         /\ Lands(0, Obj("bofhdr", 0))
         /\ Lands(hdr.elfoff, Obj("elfhdr", 0))
         /\ Lands(hdr.hwoff, Obj("hwrhdr", 0))
         /\ \A k \in 1..numsym : Lands(Iorg(k), Obj("ioreg", k))
         /\ Lands(hdr.pl, Obj("payload", 0))
<1>1. /\ arg.elf \in Nat /\ numsym \in Nat /\ hdr.strtab \in Nat /\ strtabSize \in Nat
      /\ \A k \in 1..numsym : begin[k] \in Nat
  BY Basics DEF Inv
<1>2. pc = "done" /\ ret = 0 /\ ~full
  BY DEF Made
<1>3. numsym > 0 => strtabSize # 0 /\ begin[1] = 0
  BY <1>1 DEF Inv, MakeInv, Table
<1>4. Placed
  BY DEF Inv, MakeInv
<1>5. numsym > 0 => Lands(hdr.strtab, Obj("name", 1))
  BY <1>1, <1>2, <1>3, <1>4 DEF Placed, Reached, Lands
<1> QED
  BY <1>1, <1>2, <1>3, <1>4, <1>5 DEF Placed, Reached, Lands

(* The readers change nothing of mkbof's.                                  *)
LEMMA MakeKept == Inv /\ UNCHANGED mkVars => MakeInv'
  BY SMTT(30) DEF Inv, MakeInv, mkVars, Types, Table, Begin, Position, Iorg, Placed, Reached,
     Named, Failed

(* A step of a reader that understands a complete file.                    *)
LEMMA ReadingKept ==
  ASSUME Made, reader # "none", UNCHANGED <<mkVars, reader>>,
         rpc' \in {"strtab", "regs", "elf", "scan", "end", "fault"},
         rpc' = "strtab" => regs' = 0 /\ cur' = Iorg(1),
         rpc' = "regs" => regs' \in Nat /\ regs' <= numsym /\ cur' = Iorg(regs' + 1)
  PROVE  Reading'
  BY DEF Reading, Made, mkVars, Iorg

(* A step of another reader, of which nothing is said.                     *)
LEMMA ReadingOther ==
  ASSUME Inv, reader # "none", rpc # "refused", UNCHANGED <<mkVars, reader>>,
         ~Made \/ ~Understands
  PROVE  Reading'
<1>1. pc = "done" /\ ~(ret # 0 /\ ~full)
  BY DEF Inv, Reading
<1>2. pc' = "done" /\ ~(ret' # 0 /\ ~full') /\ reader' # "none" /\ ~(Made' /\ Understands')
  BY <1>1 DEF mkVars, Made, Understands, ForThisBoard, SaysArm
<1> QED
  BY <1>2 DEF Reading

LEMMA OpenStep ==
  ASSUME Inv, NEW r \in {"kernel", "showbof"}, Open(r)
  PROVE  Reading'
<1>1. /\ pc = "done" /\ rpc = "idle" /\ regs = 0 /\ reader' = r
      /\ UNCHANGED <<mkVars, cur, regs>>
  BY DEF Open, Inv, Reading
<1>2. rpc' \in {"hwrhdr", "refused"}
  BY DEF Open
<1>3. Made /\ Understands' => rpc' = "hwrhdr"
  <2>1. ASSUME Made PROVE Lands(0, Obj("bofhdr", 0))
    BY <2>1, Complete
  <2>2. Understands' => (r = "kernel" => ForThisBoard)
    BY <1>1 DEF Understands, ForThisBoard, SaysArm, mkVars
  <2> QED
    BY <2>1, <2>2 DEF Open
<1>4. ret # 0 /\ ~full => rpc' = "refused"
  <2>1. ret # 0 /\ ~full => ~Lands(0, Obj("bofhdr", 0))
    BY <1>1 DEF Inv, MakeInv, Failed, Lands
  <2> QED
    BY <2>1 DEF Open
<1>5. Made' = Made /\ pc' = "done" /\ ret' = ret /\ full' = full /\ reader' # "none"
  BY <1>1 DEF mkVars, Made
<1> QED
  BY <1>1, <1>2, <1>3, <1>4, <1>5 DEF Reading

(* The two readers count in different ways and look in the same places.    *)
LEMMA LoadStep ==
  ASSUME Inv, LoadHwrHdr \/ LoadStrtab \/ LoadIoreg \/ LoadPayload \/ LoadElf
  PROVE  Reading'
<1>1. reader = "kernel" /\ rpc # "refused" /\ UNCHANGED <<mkVars, reader>>
  BY DEF LoadHwrHdr, LoadStrtab, LoadIoreg, LoadPayload, LoadElf, Reads
<1>2. CASE ~Made \/ ~Understands
  BY <1>1, <1>2, ReadingOther
<1>3. CASE Made /\ Understands
  <2> USE <1>1, <1>3
  <2>c. /\ arg.elf \in Nat /\ numsym \in Nat /\ hdr.nr = numsym
        /\ hdr.hwoff = arg.elf + 52 /\ hdr.strtab = Iorg(numsym + 1)
        /\ hdr.pl = hdr.strtab + strtabSize /\ strtabSize \in Nat
        /\ numsym > 0 => strtabSize # 0 /\ Lands(hdr.strtab, Obj("name", 1))
    BY Complete, Basics DEF Inv
  <2>d. /\ Lands(hdr.elfoff, Obj("elfhdr", 0)) /\ Lands(hdr.hwoff, Obj("hwrhdr", 0))
        /\ \A k \in 1..numsym : Lands(Iorg(k), Obj("ioreg", k))
        /\ Lands(hdr.pl, Obj("payload", 0))
    BY Complete
  <2>r. /\ rpc \in {"hwrhdr", "strtab"} => regs = 0
        /\ rpc = "strtab" => cur = Iorg(1)
        /\ rpc = "regs" => regs \in Nat /\ regs <= numsym /\ cur = Iorg(regs + 1)
    BY DEF Inv, Reading
  <2>1. CASE LoadHwrHdr
    <3>1. rpc' = "strtab" /\ regs' = 0 /\ cur' = hdr.hwoff + 28
      BY <2>1, <2>d, <2>r DEF LoadHwrHdr, Reads, Seek, HwrHdr
    <3>2. Iorg(1) = hdr.hwoff + 28
      BY <2>c DEF Iorg
    <3> QED
      BY <3>1, <3>2, ReadingKept
  <2>2. CASE LoadStrtab
    <3>1. rpc = "strtab" /\ regs = 0 /\ cur = Iorg(1) /\ regs' = regs /\ cur' = cur
      BY <2>2, <2>r DEF LoadStrtab, Reads
    <3>2. cur + hdr.nr * BofIoreg = hdr.strtab
      BY <2>c, <3>1 DEF Iorg, BofIoreg
    <3>3. hdr.strtab \in Int
      BY <2>c DEF Iorg
    <3>4. rpc' = "regs"
      BY <2>2, <2>c, <3>2, <3>3 DEF LoadStrtab, Seek
    <3> QED
      BY <2>c, <3>1, <3>4, ReadingKept
  <2>3. CASE LoadIoreg
    <3>1. rpc = "regs" /\ regs < numsym /\ regs \in Nat /\ cur = Iorg(regs + 1)
      BY <2>3, <2>c, <2>r DEF LoadIoreg, Reads
    <3>2. rpc' = "regs"
      BY <2>3, <2>c, <2>d, <3>1 DEF LoadIoreg, Seek
    <3>3. regs' = regs + 1 /\ cur' = cur + 12
      BY <2>3 DEF LoadIoreg, BofIoreg
    <3>4. cur' = Iorg(regs' + 1)
      BY <2>c, <3>1, <3>3 DEF Iorg
    <3> QED
      BY <2>c, <3>1, <3>2, <3>3, <3>4, ReadingKept
  <2>4. CASE LoadPayload \/ LoadElf
    <3>1. rpc' \in {"elf", "end"}
      BY <2>4, <2>d DEF LoadPayload, LoadElf, Seek
    <3> QED
      BY <3>1, ReadingKept
  <2> QED
    BY <2>1, <2>2, <2>3, <2>4
<1> QED
  BY <1>2, <1>3

LEMMA ShowStep ==
  ASSUME Inv, ShowHwrHdr \/ ShowStrtab \/ ShowIoreg \/ ShowPayload \/ ShowScan
  PROVE  Reading'
<1>1. reader = "showbof" /\ rpc # "refused" /\ UNCHANGED <<mkVars, reader>>
  BY DEF ShowHwrHdr, ShowStrtab, ShowIoreg, ShowPayload, ShowScan, Reads
<1>2. CASE ~Made \/ ~Understands
  BY <1>1, <1>2, ReadingOther
<1>3. CASE Made /\ Understands
  <2> USE <1>1, <1>3
  <2>b. \A n : Decode(n) = n
    BY DEF Understands, Decode
  <2>c. /\ arg.elf \in Nat /\ numsym \in Nat /\ hdr.nr = numsym
        /\ hdr.hwoff = arg.elf + 52 /\ hdr.strtab = Iorg(numsym + 1)
        /\ hdr.pl = hdr.strtab + strtabSize /\ strtabSize \in Nat
        /\ numsym > 0 => strtabSize # 0 /\ Lands(hdr.strtab, Obj("name", 1))
    BY Complete, Basics DEF Inv
  <2>d. /\ Lands(hdr.elfoff, Obj("elfhdr", 0)) /\ Lands(hdr.hwoff, Obj("hwrhdr", 0))
        /\ \A k \in 1..numsym : Lands(Iorg(k), Obj("ioreg", k))
        /\ Lands(hdr.pl, Obj("payload", 0))
    BY Complete
  <2>r. /\ rpc \in {"hwrhdr", "strtab"} => regs = 0
        /\ rpc = "strtab" => cur = Iorg(1)
        /\ rpc = "regs" => regs \in Nat /\ regs <= numsym /\ cur = Iorg(regs + 1)
    BY DEF Inv, Reading
  <2>1. CASE ShowHwrHdr
    <3>1. rpc' = "strtab" /\ regs' = 0 /\ cur' = hdr.hwoff + 28
      BY <2>1, <2>b, <2>d, <2>r DEF ShowHwrHdr, Reads, Seek, HwrHdr
    <3>2. Iorg(1) = hdr.hwoff + 28
      BY <2>c DEF Iorg
    <3> QED
      BY <3>1, <3>2, ReadingKept
  <2>2. CASE ShowStrtab
    <3>1. rpc = "strtab" /\ regs = 0 /\ cur = Iorg(1) /\ regs' = regs /\ cur' = cur
      BY <2>2, <2>r DEF ShowStrtab, Reads
    <3>2. cur + hdr.nr * BofIoreg = hdr.strtab
      BY <2>c, <3>1 DEF Iorg, BofIoreg
    <3>3. hdr.strtab \in Int
      BY <2>c DEF Iorg
    <3>4. rpc' = "regs"
      BY <2>2, <2>b, <2>c, <3>2, <3>3 DEF ShowStrtab, Seek
    <3> QED
      BY <2>c, <3>1, <3>4, ReadingKept
  <2>3. CASE ShowIoreg
    <3>1. rpc = "regs" /\ regs < numsym /\ regs \in Nat /\ cur = Iorg(regs + 1)
      BY <2>3, <2>b, <2>c, <2>r DEF ShowIoreg, Reads
    <3>2. rpc' = "regs"
      BY <2>3, <2>b, <2>c, <2>d, <3>1 DEF ShowIoreg, Seek
    <3>3. regs' = regs + 1 /\ cur' = cur + 12
      BY <2>3 DEF ShowIoreg, BofIoreg
    <3>4. cur' = Iorg(regs' + 1)
      BY <2>c, <3>1, <3>3 DEF Iorg
    <3> QED
      BY <2>c, <3>1, <3>2, <3>3, <3>4, ReadingKept
  <2>4. CASE ShowPayload
    <3>1. rpc = "regs" /\ regs = numsym /\ cur = hdr.strtab
      BY <2>4, <2>b, <2>c, <2>r DEF ShowPayload, Reads
    <3>2. hdr.strtab \in Int
      BY <2>c DEF Iorg
    <3>3. cur + (hdr.pl - hdr.strtab) = hdr.pl
      BY <2>c, <3>1, <3>2
    <3>4. rpc' = "scan"
      BY <2>4, <2>b, <2>d, <3>3 DEF ShowPayload, Seek
    <3> QED
      BY <3>4, ReadingKept
  <2>5. CASE ShowScan
    <3>1. rpc' \in {"end", "fault"}
      BY <2>5 DEF ShowScan
    <3> QED
      BY <3>1, ReadingKept
  <2> QED
    BY <2>1, <2>2, <2>3, <2>4, <2>5
<1> QED
  BY <1>2, <1>3

LEMMA InvCorrect == Spec => []Inv
<1>1. Init => Inv
  BY InitMake DEF Init, Inv, Reading, Made
<1>2. Inv /\ Read => Inv'
  <2> SUFFICES ASSUME Inv, Read PROVE Inv'
    OBVIOUS
  <2>1. UNCHANGED mkVars
    BY DEF Read, Open, LoadHwrHdr, LoadStrtab, LoadIoreg, LoadPayload, LoadElf, ShowHwrHdr,
       ShowStrtab, ShowIoreg, ShowPayload, ShowScan
  <2>2. MakeInv'
    BY <2>1, MakeKept
  <2>3. Reading'
    BY OpenStep, LoadStep, ShowStep DEF Read
  <2> QED
    BY <2>2, <2>3 DEF Inv
<1>3. Inv /\ UNCHANGED vars => Inv'
  <2> SUFFICES ASSUME Inv, UNCHANGED vars PROVE Inv'
    OBVIOUS
  <2>1. MakeInv'
    BY MakeKept DEF vars
  <2>2. Reading'
    BY DEF Inv, Reading, vars, mkVars, readVars, Made, Understands,
       ForThisBoard, SaysArm, Iorg
  <2> QED
    BY <2>1, <2>2 DEF Inv
<1>4. Inv /\ [Next]_vars => Inv'
  BY <1>2, <1>3, MakeStep DEF Next
<1> QED
  BY <1>1, <1>4, PTL DEF Spec

(* For files of any size the kernel finds what mkbof put in a file for this *)
(* board with a little-endian ELF for ARM.                                 *)
THEOREM KernelFindsCorrect == Spec => []KernelFinds
<1>1. Inv => KernelFinds
  BY DEF Inv, Reading, Understands, ForThisBoard, SaysArm, KernelFinds
<1> QED BY <1>1, InvCorrect, PTL

(* So does showbof with the files of a little-endian machine.              *)
THEOREM ShowbofFindsCorrect == Spec => []ShowbofFinds
<1>1. Inv => ShowbofFinds
  BY DEF Inv, Reading, Understands, ShowbofFinds
<1> QED BY <1>1, InvCorrect, PTL

(* Writer and readers agree, each by sums of its own.                      *)
THEOREM ReadersFindCorrect == Spec => []ReadersFind
<1> QED
  BY KernelFindsCorrect, ShowbofFindsCorrect, PTL DEF ReadersFind

(* The file ends where the headers say the payload ends.                   *)
THEOREM PayloadIsRestCorrect == Spec => []PayloadIsRest
<1>1. Inv => PayloadIsRest
  BY DEF Inv, MakeInv, Position, Made, PayloadIsRest
<1> QED BY <1>1, InvCorrect, PTL

(* Names that begin within the range of a name offset are found, and no    *)
(* name is looked for outside of the string table.                         *)
THEOREM NamesResolveCorrect == Spec => []NamesResolve
<1>1. Inv => NamesResolve
  <2> SUFFICES ASSUME Inv, Made, NEW k \in 1..numsym
               PROVE  /\ begin[k] < NameMod => Lands(hdr.strtab + name[k], Obj("name", k))
                      /\ name[k] < hdr.pl - hdr.strtab
    BY DEF NamesResolve
  <2>1. pc = "done" /\ ret = 0 /\ ~full
    BY DEF Made
  <2>2. /\ numsym \in Nat /\ strtabSize \in Nat /\ hdr.strtab \in Nat /\ name \in Seq(Nat)
        /\ begin[k] \in Nat
    BY Basics DEF Inv
  <2>3. Len(name) = numsym /\ hdr.pl = hdr.strtab + strtabSize
    BY <2>1 DEF Inv, MakeInv, Named, Placed, Reached
  <2>4. name[k] <= begin[k] /\ (begin[k] < NameMod => name[k] = begin[k]) /\ name[k] \in Nat
    BY <2>2, <2>3 DEF Inv, MakeInv, Named
  <2>5. begin[k] < strtabSize /\ Lands(hdr.strtab + begin[k], Obj("name", k))
    BY <2>1 DEF Inv, MakeInv, Table, Placed, Reached, Lands
  <2> QED
    BY <2>2, <2>3, <2>4, <2>5
<1> QED BY <1>1, InvCorrect, PTL

(* The file is consistent with its headers.                                *)
THEOREM FileConsistentCorrect == Spec => []FileConsistent
<1> QED
  BY PayloadIsRestCorrect, NamesResolveCorrect, PTL DEF FileConsistent

(* A run of mkbof that fails leaves nothing that is taken for a BOF file.  *)
THEOREM FailedIsRefusedCorrect == Spec => []FailedIsRefused
<1>1. Inv => FailedIsRefused
  BY DEF Inv, MakeInv, Failed, Reading, FailedIsRefused
<1> QED BY <1>1, InvCorrect, PTL
-----------------------------------------------------------------------------
(* What TypeOK says that Inv does not.                                     *)
ReadTypes ==
  /\ symtab \in Seq(NameLens)
  /\ size \in Nat
  /\ full \in BOOLEAN
  /\ reader \in {"none", "kernel", "showbof"}
  /\ rpc \in ReaderSteps
  /\ cur \in Int /\ regs \in Nat

(* A write of n bytes, or one that fails.                                  *)
LEMMA WriteTypes ==
  ASSUME size \in Nat, full \in BOOLEAN, NEW n \in Nat, NEW o, NEW checked, NEW next,
         Write(o, n, checked, next)
  PROVE  size' \in Nat /\ full' \in BOOLEAN
<1>1. size' \in {size, size + n}
  BY DEF Write
<1>2. full' = full \/ full' = TRUE
  BY Zenon DEF Write
<1>3. size' \in Nat
  BY <1>1
<1> QED BY <1>2, <1>3, Zenon

(* The steps of mkbof.                                                     *)
LEMMA MakeTypes == Inv /\ ReadTypes /\ Make => ReadTypes'
<1> SUFFICES ASSUME Inv, ReadTypes, Make PROVE ReadTypes'
  OBVIOUS
<1>1. UNCHANGED readVars
  BY DEF Make, ReadEhdr, ReadSymbol, SymbolsEnd, WriteBofHdr, CopyElf, WriteElfHdr,
     WriteHwrHdr, WriteSymtab, SymtabEnd, WriteStrtab, CopyBit
<1>2. symtab' \in Seq(NameLens)
  <2>1. symtab \in Seq(NameLens)
    BY DEF ReadTypes
  <2>2. ASSUME NEW n \in NameLens, ReadSymbol(n) PROVE symtab' \in Seq(NameLens)
    <3>1. symtab' = Append(symtab, n)
      BY <2>2 DEF ReadSymbol
    <3> QED BY <2>1, <3>1
  <2>3. symtab' = symtab \/ \E n \in NameLens : ReadSymbol(n)
    BY DEF Make, ReadEhdr, SymbolsEnd, WriteBofHdr, CopyElf, WriteElfHdr,
       WriteHwrHdr, WriteSymtab, SymtabEnd, WriteStrtab, CopyBit
  <2> QED BY <2>1, <2>2, <2>3
<1>3. size \in Nat /\ full \in BOOLEAN
  BY DEF ReadTypes
<1>4. /\ arg.elf \in Nat /\ arg.bit \in Nat /\ i \in Nat /\ numsym \in Nat
      /\ \A k \in 1..numsym : symtab[k] \in Nat
  BY Basics DEF Inv
<1>5. size' \in Nat /\ full' \in BOOLEAN
  <2>1. CASE UNCHANGED <<size, full>>
    BY <1>3, <2>1
  <2>2. CASE WriteBofHdr \/ WriteElfHdr \/ WriteHwrHdr \/ WriteSymtab
    <3>1. 52 \in Nat /\ 28 \in Nat /\ 12 \in Nat
      OBVIOUS
    <3> QED
      BY <1>3, <2>2, <3>1, WriteTypes, Zenon DEF WriteBofHdr, WriteElfHdr, WriteHwrHdr,
         WriteSymtab, BofHdr, ElfHdr, HwrHdr, BofIoreg
  <2>3. CASE CopyElf
    <3>1. arg.elf - ElfHdr \in Nat
      BY <1>4, <2>3 DEF CopyElf, Inv, MakeInv, Position, ElfHdr
    <3> QED
      BY <1>3, <2>3, <3>1, WriteTypes, Zenon DEF CopyElf
  <2>4. CASE WriteStrtab
    <3>1. i \in 1..numsym
      BY <1>4, <2>4 DEF WriteStrtab, Inv, MakeInv, Position
    <3>2. symtab[i] + 1 \in Nat
      BY <1>4, <3>1
    <3> QED
      BY <1>3, <2>4, <3>2, WriteTypes, Zenon DEF WriteStrtab
  <2>5. CASE CopyBit
    BY <1>3, <1>4, <2>5, WriteTypes, Zenon DEF CopyBit
  <2> QED
    BY <2>1, <2>2, <2>3, <2>4, <2>5 DEF Make, ReadEhdr, ReadSymbol, SymbolsEnd, SymtabEnd
<1> QED
  BY <1>1, <1>2, <1>5 DEF ReadTypes, readVars

(* A field is a number in either byte order.                               *)
LEMMA DecodeType == ASSUME NEW n \in Nat PROVE Decode(n) \in Nat
<1> DEFINE B2 == Byte * Byte
           B3 == B2 * Byte
<1>1. Byte \in Nat \ {0}
  BY FormatAssumption
<1>2. B2 \in Nat /\ B2 > 0
  BY <1>1
<1>3. B3 \in Nat /\ B3 > 0
  <2> HIDE DEF B2
  <2> QED BY <1>1, <1>2
<1> HIDE DEF B2, B3
<1>4. /\ n % Byte \in Nat /\ (n \div Byte) % Byte \in Nat
      /\ (n \div B2) % Byte \in Nat /\ (n \div B3) % Byte \in Nat
  BY <1>1, <1>2, <1>3
<1> DEFINE d0 == n % Byte
           d1 == (n \div Byte) % Byte
           d2 == (n \div B2) % Byte
           d3 == (n \div B3) % Byte
<1> HIDE DEF d0, d1, d2, d3
<1>5. d0 \in Nat /\ d1 \in Nat /\ d2 \in Nat /\ d3 \in Nat
  BY <1>4 DEF d0, d1, d2, d3
<1>6. d0 * B3 \in Nat /\ d1 * B2 \in Nat /\ d2 * Byte \in Nat
  BY <1>1, <1>2, <1>3, <1>5
<1>7. d0 * B3 + d1 * B2 + d2 * Byte + d3 \in Nat
  BY <1>5, <1>6
<1> QED
  BY <1>7 DEF Decode, B2, B3, d0, d1, d2, d3

(* The steps of the readers.                                               *)
LEMMA ReaderTypes == Inv /\ ReadTypes /\ Read => ReadTypes'
<1> SUFFICES ASSUME Inv, ReadTypes, Read PROVE ReadTypes'
  OBVIOUS
<1>1. UNCHANGED mkVars
  BY DEF Read, Open, LoadHwrHdr, LoadStrtab, LoadIoreg, LoadPayload, LoadElf, ShowHwrHdr,
     ShowStrtab, ShowIoreg, ShowPayload, ShowScan
<1>2. symtab' \in Seq(NameLens) /\ size' \in Nat /\ full' \in BOOLEAN
  BY <1>1, Zenon DEF ReadTypes, mkVars
<1>3. reader' \in {"none", "kernel", "showbof"} /\ rpc' \in ReaderSteps
  <2>1. reader \in {"none", "kernel", "showbof"}
    BY DEF ReadTypes
  <2> QED
    BY <2>1 DEF Read, Open, LoadHwrHdr, LoadStrtab, LoadIoreg, LoadPayload, LoadElf,
       ShowHwrHdr, ShowStrtab, ShowIoreg, ShowPayload, ShowScan, Seek, ReaderSteps
<1>4. regs' \in Nat
  BY DEF ReadTypes, Read, Open, LoadHwrHdr, LoadStrtab, LoadIoreg, LoadPayload, LoadElf,
     ShowHwrHdr, ShowStrtab, ShowIoreg, ShowPayload, ShowScan
<1>5. cur' \in Int
  <2>1. cur \in Int /\ hdr \in Hdr
    BY DEF ReadTypes, Inv, MakeInv, Types
  <2>2. hdr.hwoff \in Nat /\ hdr.pl \in Nat /\ hdr.strtab \in Nat
    BY <2>1 DEF Hdr
  <2>3. Decode(hdr.hwoff) \in Nat /\ Decode(hdr.pl) \in Nat /\ Decode(hdr.strtab) \in Nat
    BY <2>2, DecodeType
  <2>4. \/ cur' \in {cur, cur + BofIoreg}
        \/ cur' \in {hdr.hwoff + HwrHdr, Decode(hdr.hwoff) + HwrHdr}
        \/ cur' = cur + (Decode(hdr.pl) - Decode(hdr.strtab))
    BY DEF Read, Open, LoadHwrHdr, LoadStrtab, LoadIoreg, LoadPayload, LoadElf, ShowHwrHdr,
       ShowStrtab, ShowIoreg, ShowPayload, ShowScan
  <2> QED
    BY <2>1, <2>2, <2>3, <2>4 DEF BofIoreg, HwrHdr
<1> QED
  BY <1>2, <1>3, <1>4, <1>5 DEF ReadTypes

(* Type correctness of mkbof and the readers, for any sizes and names; in  *)
(* particular main of mkbof returns 0, 1 or -1.                            *)
THEOREM TypeCorrect == Spec => []TypeOK
<1>1. Init => ReadTypes
  <2> SUFFICES ASSUME Init PROVE ReadTypes
    OBVIOUS
  <2>1. full \in BOOLEAN
    BY Zenon DEF Init
  <2>2. symtab \in Seq(NameLens) /\ size \in Nat /\ cur \in Int /\ regs \in Nat
    BY DEF Init
  <2> QED
    BY <2>1, <2>2 DEF Init, ReadTypes, ReaderSteps
<1>2. Inv /\ ReadTypes /\ [Next]_vars => ReadTypes'
  <2>1. ReadTypes /\ UNCHANGED vars => ReadTypes'
    BY Zenon DEF ReadTypes, vars, mkVars, readVars
  <2> QED
    BY <2>1, MakeTypes, ReaderTypes DEF Next
<1>3. Inv /\ ReadTypes => TypeOK
  BY DEF Inv, MakeInv, Types, ReadTypes, TypeOK
<1> QED
  BY <1>1, <1>2, <1>3, InvCorrect, PTL DEF Spec
==============================================================================
