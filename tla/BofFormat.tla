------------------------------ MODULE BofFormat ------------------------------
(***************************************************************************)
(* The BOF file: mkbof writes it, borph_load_hw and load_bof_binary in the *)
(* kernel and the tool showbof read it.  Each of the three finds its way   *)
(* by sums of its own: mkbof adds up sizes and stores absolute offsets,    *)
(* the kernel follows some of those and counts on from its read position   *)
(* for the others, showbof counts from the region header alone.            *)
(*                                                                         *)
(* The contents of the file are abstracted to the objects in it and the    *)
(* offset where each begins; a name is its length.  The three programs run *)
(* one after the other (the kernel refuses to exec a file that is open for *)
(* writing).                                                               *)
(***************************************************************************)
EXTENDS Integers, Sequences

CONSTANTS
  ElfSizes,    \* sizes of ELF files
  BitSizes,    \* sizes of bit files
  NameLens,    \* lengths of register names, at most 255
  MaxLines,    \* bound: lines of the symbol file
  SymtabSize,  \* SYMTAB_SIZE
  NameMod,     \* 2^16: bofioreg.name is a uint16_t
  Byte,        \* 2^8: values of a byte, for the order of bytes
  Page,        \* the page size, of which showbof maps one
  DiskMayFill  \* whether the disk may run full

ASSUME FormatAssumption ==
  /\ ElfSizes \subseteq Nat
  /\ BitSizes \subseteq Nat
  /\ NameLens \subseteq Nat \ {0}
  /\ MaxLines \in Nat
  /\ SymtabSize \in Nat
  /\ NameMod \in Nat \ {0}
  /\ Byte \in Nat \ {0, 1}
  /\ Page \in Nat \ {0}
  /\ DiskMayFill \in BOOLEAN

(* sizeof the structs of bof.h; the BOF header has the size of the ELF     *)
(* header whose place it takes.                                            *)
BofHdr == 52
ElfHdr == 52
HwrHdr == 28
BofIoreg == 12
ScanLen == 200   \* the bytes of the payload in which showbof looks for an 'a'

Obj(kind, k) == [kind |-> kind, k |-> k]

VARIABLES
  arg,      \* the input of mkbof: sizes, byte order and machine of the ELF,
            \* hardware class
  pc,       \* of mkbof
  ret,      \* its exit status
  symtab,   \* the lengths of the names
  begin,    \* history: the sum of the sizes of the names before each
  strtabSize, numsym,
  i, nameOff,  \* locals of WriteSymtab and WriteStrtab
  file,     \* the objects written: pairs <<offset, object>>
  size,     \* the size of the file
  full,     \* the disk is full
  hdr,      \* the fields of the two headers
  name,     \* bofioreg.name of each register written
  reader,   \* "none", "kernel" or "showbof"
  rpc,      \* its step
  cur,      \* its read position; below 0 where the unsigned sum of showbof
            \* wraps, on headers it has decoded in the wrong byte order
  regs      \* the number of registers it has read

mkVars == <<arg, pc, ret, symtab, begin, strtabSize, numsym, i, nameOff, size,
            full, hdr, name, file>>
readVars == <<reader, rpc, cur, regs>>
vars == <<mkVars, readVars>>

Hdr == [elfoff : Nat, hwoff : Nat, nr : Nat, strtab : Nat, pl : Nat, len : Nat]

NoHdr == [elfoff |-> 0, hwoff |-> 0, nr |-> 0, strtab |-> 0, pl |-> 0, len |-> 0]

Init ==
  /\ arg \in [elf : ElfSizes, bit : BitSizes, endian : {"LSB", "MSB"},
              machine : {"arm", "other"}, class : {"rhino", "other"}]
  /\ pc = "ehdr" /\ ret = 0
  /\ symtab = <<>> /\ begin = <<>> /\ strtabSize = 0 /\ numsym = 0
  /\ i = 1 /\ nameOff = 0
  /\ file = {} /\ size = 0 /\ full = FALSE
  /\ hdr = NoHdr /\ name = <<>>
  /\ reader = "none" /\ rpc = "idle" /\ cur = 0 /\ regs = 0

-----------------------------------------------------------------------------
(* mkbof.  Initialize has created an empty output file.                    *)

Stop(r) == pc' = "done" /\ ret' = r

(* A write of o, n bytes long.  The caller that looks at the result of     *)
(* fwrite (checked) may see the failure or, stdio being buffered, not; the *)
(* others compare a size_t with < 0 and never do.                          *)
Write(o, n, checked, next) ==
  \/ /\ ~full
     /\ file' = file \cup {<<size, o>>}
     /\ size' = size + n
     /\ pc' = next
     /\ UNCHANGED <<full, ret>>
  \/ /\ full \/ DiskMayFill
     /\ full' = TRUE
     /\ (pc' = next /\ UNCHANGED ret) \/ (checked /\ Stop(-1))
     /\ UNCHANGED <<file, size>>

(* The ELF header, which is kept; a shorter file ends mkbof.               *)
ReadEhdr ==
  /\ pc = "ehdr"
  /\ IF arg.elf >= ElfHdr THEN pc' = "symbols" /\ UNCHANGED ret ELSE Stop(1)
  /\ UNCHANGED <<arg, symtab, begin, strtabSize, numsym, i, nameOff, file, size,
                 full, hdr, name, readVars>>

(* Mutant: strlen without the terminating zero.                            *)
ReadSymbolNoZero(n) ==
  /\ pc = "symbols" /\ numsym < MaxLines
  /\ symtab' = Append(symtab, n)
  /\ begin' = Append(begin, strtabSize)
  /\ strtabSize' = strtabSize + n
  /\ numsym' = numsym + 1
  /\ IF numsym + 1 > SymtabSize THEN Stop(1) ELSE UNCHANGED <<pc, ret>>
  /\ UNCHANGED <<arg, i, nameOff, file, size, full, hdr, name, readVars>>

(* Mutant: no limit on the number of symbols.                              *)
ReadSymbolUnlimited(n) ==
  /\ pc = "symbols" /\ numsym < MaxLines
  /\ symtab' = Append(symtab, n)
  /\ begin' = Append(begin, strtabSize)
  /\ strtabSize' = strtabSize + n + 1
  /\ numsym' = numsym + 1
  /\ UNCHANGED <<arg, pc, ret, i, nameOff, file, size, full, hdr, name, readVars>>

(* A line of the symbol file.  The test for too many comes after the entry *)
(* was written.                                                            *)
ReadSymbol(n) ==
  /\ pc = "symbols" /\ numsym < MaxLines
  /\ symtab' = Append(symtab, n)
  /\ begin' = Append(begin, strtabSize)
  /\ strtabSize' = strtabSize + n + 1
  /\ numsym' = numsym + 1
  /\ IF numsym + 1 > SymtabSize THEN Stop(1) ELSE UNCHANGED <<pc, ret>>
  /\ UNCHANGED <<arg, i, nameOff, file, size, full, hdr, name, readVars>>

(* Mutant: main returns what ReadSymbolFile returned.                      *)
SymbolsEndReturn ==
  /\ pc = "symbols"
  /\ (pc' = "bofhdr" /\ UNCHANGED ret) \/ Stop(2)
  /\ UNCHANGED <<arg, symtab, begin, strtabSize, numsym, i, nameOff, file, size,
                 full, hdr, name, readVars>>

(* The end of the symbol file, or a line that is too long or does not      *)
(* parse.                                                                  *)
SymbolsEnd ==
  /\ pc = "symbols"
  /\ (pc' = "bofhdr" /\ UNCHANGED ret) \/ Stop(1)
  /\ UNCHANGED <<arg, symtab, begin, strtabSize, numsym, i, nameOff, file, size,
                 full, hdr, name, readVars>>

WriteBofHdr ==
  /\ pc = "bofhdr"
  /\ hdr' = [hdr EXCEPT !.elfoff = arg.elf, !.hwoff = arg.elf + ElfHdr]
  /\ Write(Obj("bofhdr", 0), BofHdr, TRUE, "elfbody")
  /\ UNCHANGED <<arg, symtab, begin, strtabSize, numsym, i, nameOff, name, readVars>>

(* copy_remain_file of the ELF file after its header.                      *)
CopyElf ==
  /\ pc = "elfbody"
  /\ Write(Obj("elfbody", 0), arg.elf - ElfHdr, FALSE, "elfhdr")
  /\ UNCHANGED <<arg, symtab, begin, strtabSize, numsym, i, nameOff, hdr, name, readVars>>

WriteElfHdr ==
  /\ pc = "elfhdr"
  /\ Write(Obj("elfhdr", 0), ElfHdr, TRUE, "hwrhdr")
  /\ UNCHANGED <<arg, symtab, begin, strtabSize, numsym, i, nameOff, hdr, name, readVars>>

WriteHwrHdr ==
  /\ pc = "hwrhdr"
  /\ LET strtab == arg.elf + ElfHdr + HwrHdr + numsym * BofIoreg
     IN  hdr' = [hdr EXCEPT !.nr = numsym, !.strtab = strtab,
                            !.pl = strtab + strtabSize, !.len = arg.bit]
  /\ Write(Obj("hwrhdr", 0), HwrHdr, TRUE, "symtab")
  /\ UNCHANGED <<arg, symtab, begin, strtabSize, numsym, i, nameOff, name, readVars>>

(* Mutant: the offset is increased before it is stored.                    *)
WriteSymtabAhead ==
  /\ pc = "symtab" /\ i <= numsym
  /\ name' = Append(name, (nameOff + symtab[i] + 1) % NameMod)
  /\ nameOff' = (nameOff + symtab[i] + 1) % NameMod
  /\ i' = i + 1
  /\ Write(Obj("ioreg", i), BofIoreg, FALSE, "symtab")
  /\ UNCHANGED <<arg, symtab, begin, strtabSize, numsym, hdr, readVars>>

(* One turn of WriteSymtab, whose strtab_off is a uint16_t too.            *)
WriteSymtab ==
  /\ pc = "symtab" /\ i <= numsym
  /\ name' = Append(name, nameOff)
  /\ nameOff' = (nameOff + symtab[i] + 1) % NameMod
  /\ i' = i + 1
  /\ Write(Obj("ioreg", i), BofIoreg, FALSE, "symtab")
  /\ UNCHANGED <<arg, symtab, begin, strtabSize, numsym, hdr, readVars>>

SymtabEnd ==
  /\ pc = "symtab" /\ i > numsym
  /\ pc' = "strtab" /\ i' = 1
  /\ UNCHANGED <<arg, ret, symtab, begin, strtabSize, numsym, nameOff, file, size,
                 full, hdr, name, readVars>>

(* One turn of WriteStrtab.                                                *)
WriteStrtab ==
  /\ pc = "strtab" /\ i <= numsym
  /\ i' = i + 1
  /\ Write(Obj("name", i), symtab[i] + 1, FALSE, "strtab")
  /\ UNCHANGED <<arg, symtab, begin, strtabSize, numsym, nameOff, hdr, name, readVars>>

(* copy_remain_file of the bit file; main returns 0.                       *)
CopyBit ==
  /\ pc = "strtab" /\ i > numsym
  /\ Write(Obj("payload", 0), arg.bit, FALSE, "done")
  /\ UNCHANGED <<arg, symtab, begin, strtabSize, numsym, i, nameOff, hdr, name, readVars>>

-----------------------------------------------------------------------------
(* A reader looks for o at offset off; what it finds there, if it is not   *)
(* o, is not defined, and the reader ends.                                 *)

Lands(off, o) == <<off, o>> \in file

Seek(off, o, next) == rpc' = IF Lands(off, o) THEN next ELSE "lost"

Reads(r, step) == reader = r /\ rpc = step

(* b_elfmachine is e_machine as mkbof, on a little-endian host, finds it   *)
(* in the bytes of the ELF file: for a big-endian ARM ELF it is not EM_ARM.*)
SaysArm == arg.machine = "arm" /\ arg.endian = "LSB"

ForThisBoard == arg.class = "rhino" /\ SaysArm

(* Exec: load_bof_binary refuses what is not a BOF file for this board and *)
(* its processor.                                                          *)
Open(r) ==
  /\ pc = "done" /\ reader = "none"
  /\ reader' = r
  /\ rpc' = IF Lands(0, Obj("bofhdr", 0)) /\ (r = "kernel" => ForThisBoard)
              THEN "hwrhdr" ELSE "refused"
  /\ UNCHANGED <<mkVars, cur, regs>>

LoadHwrHdr ==
  /\ Reads("kernel", "hwrhdr")
  /\ Seek(hdr.hwoff, Obj("hwrhdr", 0), "strtab")
  /\ cur' = hdr.hwoff + HwrHdr
  /\ UNCHANGED <<mkVars, reader, regs>>

(* Mutant: the registers are counted as of the size of a region header.    *)
LoadStrtabWrongSize ==
  /\ Reads("kernel", "strtab")
  /\ IF hdr.nr = 0 THEN rpc' = "regs"
     ELSE Seek(cur + hdr.nr * HwrHdr, Obj("name", 1), "regs")
  /\ UNCHANGED <<mkVars, reader, cur, regs>>

(* The string table is behind the registers; its length is a difference of *)
(* two absolute offsets.                                                   *)
LoadStrtab ==
  /\ Reads("kernel", "strtab")
  /\ IF hdr.nr = 0 THEN rpc' = "regs"
     ELSE IF hdr.pl - hdr.strtab = 0 THEN rpc' = "refused"
     ELSE Seek(cur + hdr.nr * BofIoreg, Obj("name", 1), "regs")
  /\ UNCHANGED <<mkVars, reader, cur, regs>>

LoadIoreg ==
  /\ Reads("kernel", "regs") /\ regs < hdr.nr
  /\ Seek(cur, Obj("ioreg", regs + 1), "regs")
  /\ cur' = cur + BofIoreg
  /\ regs' = regs + 1
  /\ UNCHANGED <<mkVars, reader>>

(* rhino_configure reads pl_len bytes at pl_off.                           *)
LoadPayload ==
  /\ Reads("kernel", "regs") /\ regs = hdr.nr
  /\ Seek(hdr.pl, Obj("payload", 0), "elf")
  /\ UNCHANGED <<mkVars, reader, cur, regs>>

(* load_bof_binary starts over with the ELF header.                        *)
LoadElf ==
  /\ Reads("kernel", "elf")
  /\ Seek(hdr.elfoff, Obj("elfhdr", 0), "end")
  /\ UNCHANGED <<mkVars, reader, cur, regs>>

(* A 32-bit field as showbof decodes it: in the byte order of the ELF,     *)
(* while mkbof writes in the order LSB always.                             *)
Decode(n) ==
  IF arg.endian = "LSB" THEN n
  ELSE LET B2 == Byte * Byte
           B3 == B2 * Byte
       IN  (n % Byte) * B3 + ((n \div Byte) % Byte) * B2
           + ((n \div B2) % Byte) * Byte + ((n \div B3) % Byte)

ShowHwrHdr ==
  /\ Reads("showbof", "hwrhdr")
  /\ Seek(Decode(hdr.hwoff), Obj("hwrhdr", 0), "strtab")
  /\ cur' = Decode(hdr.hwoff) + HwrHdr
  /\ UNCHANGED <<mkVars, reader, regs>>

(* PrintSymbols.                                                           *)
ShowStrtab ==
  /\ Reads("showbof", "strtab")
  /\ IF Decode(hdr.nr) = 0 THEN rpc' = "regs"
     ELSE IF Decode(hdr.pl) - Decode(hdr.strtab) = 0 THEN rpc' = "refused"
     ELSE Seek(cur + Decode(hdr.nr) * BofIoreg, Obj("name", 1), "regs")
  /\ UNCHANGED <<mkVars, reader, cur, regs>>

ShowIoreg ==
  /\ Reads("showbof", "regs") /\ regs < Decode(hdr.nr)
  /\ Seek(cur, Obj("ioreg", regs + 1), "regs")
  /\ cur' = cur + BofIoreg
  /\ regs' = regs + 1
  /\ UNCHANGED <<mkVars, reader>>

(* Mutant: the length of the string table is forgotten.                    *)
ShowPayloadNoStrtab ==
  /\ Reads("showbof", "regs") /\ regs = Decode(hdr.nr)
  /\ Seek(cur, Obj("payload", 0), "scan")
  /\ cur' = cur
  /\ UNCHANGED <<mkVars, reader, regs>>

(* PrintHWRPayload: where the payload is, the table being read as a whole. *)
ShowPayload ==
  /\ Reads("showbof", "regs") /\ regs = Decode(hdr.nr)
  /\ LET off == cur + (Decode(hdr.pl) - Decode(hdr.strtab))
     IN  Seek(off, Obj("payload", 0), "scan") /\ cur' = off
  /\ UNCHANGED <<mkVars, reader, regs>>

(* It maps one page and looks through ScanLen bytes from the payload on:   *)
(* across the end of the mapping if no 'a' comes first, and past the end   *)
(* of a file without another page.                                         *)
ShowScan ==
  /\ Reads("showbof", "scan")
  /\ \/ rpc' = "end"
     \/ (cur % Page) + ScanLen > Page /\ rpc' = "fault"
     \/ cur % Page = 0 /\ cur >= size /\ rpc' = "fault"
  /\ UNCHANGED <<mkVars, reader, cur, regs>>

Make ==
  \/ ReadEhdr \/ (\E n \in NameLens : ReadSymbol(n)) \/ SymbolsEnd
  \/ WriteBofHdr \/ CopyElf \/ WriteElfHdr \/ WriteHwrHdr
  \/ WriteSymtab \/ SymtabEnd \/ WriteStrtab \/ CopyBit

Read ==
  \/ \E r \in {"kernel", "showbof"} : Open(r)
  \/ LoadHwrHdr \/ LoadStrtab \/ LoadIoreg \/ LoadPayload \/ LoadElf
  \/ ShowHwrHdr \/ ShowStrtab \/ ShowIoreg \/ ShowPayload \/ ShowScan

Next == Make \/ Read

Spec == Init /\ [][Next]_vars

-----------------------------------------------------------------------------
(* Properties.                                                             *)

Steps == {"ehdr", "symbols", "bofhdr", "elfbody", "elfhdr", "hwrhdr", "symtab",
          "strtab", "done"}

ReaderSteps == {"idle", "hwrhdr", "strtab", "regs", "elf", "scan", "end",
                "refused", "lost", "fault"}

(* The state of mkbof and of a reader has its types: in particular main    *)
(* returns 0, 1 or -1 only.                                                *)
TypeOK ==
  /\ pc \in Steps
  /\ ret \in {0, 1, -1}
  /\ symtab \in Seq(NameLens) /\ begin \in Seq(Nat) /\ name \in Seq(Nat)
  /\ strtabSize \in Nat /\ numsym \in Nat
  /\ i \in Nat /\ nameOff \in Nat
  /\ size \in Nat /\ full \in BOOLEAN
  /\ hdr \in Hdr
  /\ reader \in {"none", "kernel", "showbof"}
  /\ rpc \in ReaderSteps
  /\ cur \in Int /\ regs \in Nat

(* mkbof ended well on a disk that was large enough.                       *)
Made == pc = "done" /\ ret = 0 /\ ~full

(* Whatever the sizes, the kernel finds the region header, every register, *)
(* the string table, the payload and the ELF header where mkbof put them,  *)
(* by its own way of counting, if the file is for this board and its ELF   *)
(* is a little-endian one for ARM: the kernel refuses every other ELF.     *)
KernelFinds ==
  Made /\ reader = "kernel" /\ arg.class = "rhino" /\ arg.machine = "arm"
       /\ arg.endian = "LSB" => rpc \notin {"lost", "refused"}

(* So does showbof, unless the ELF file is big-endian: then the headers    *)
(* say so and are little-endian all the same.                              *)
ShowbofFinds ==
  Made /\ reader = "showbof" /\ arg.endian = "LSB" => rpc \notin {"lost", "refused"}

(* Both readers arrive where the writer was.                               *)
ReadersFind == KernelFinds /\ ShowbofFinds

(* The payload the headers announce is the rest of the file: with less,    *)
(* rhino_configure would read on behind the end of the file.               *)
PayloadIsRest == Made => hdr.pl + hdr.len = size

(* The name of a register is found at its offset in the string table, as   *)
(* long as it begins before the 16 bits of bofioreg.name run over, and     *)
(* even then no name is looked for outside of the table.                   *)
NamesResolve ==
  Made => \A k \in 1..numsym :
            /\ begin[k] < NameMod => Lands(hdr.strtab + name[k], Obj("name", k))
            /\ name[k] < hdr.pl - hdr.strtab

(* A file is consistent with its own headers: payload and names.           *)
FileConsistent == PayloadIsRest /\ NamesResolve

(* An ELF file that is too short or a symbol file with too many lines      *)
(* makes no file that anything would take for a BOF file, and overruns the *)
(* table of symbols by at most one entry.                                  *)
FailedIsRefused ==
  /\ ret # 0 /\ ~full => rpc \in {"idle", "refused"}
  /\ numsym <= SymtabSize + 1
  /\ numsym > SymtabSize => file = {}
==============================================================================
