------------------------------ MODULE MCBofExec ------------------------------
(* BofExec for TLC: the BOF files worth telling apart.                      *)
EXTENDS BofExec, TLC

Region(placed, addr, strtab) ==
  [rhino |-> TRUE, placed |-> placed, addr |-> addr, strtab |-> strtab]
Bof(numchip, hwr, elf) ==
  [numchip |-> numchip, hwr |-> hwr, elf |-> elf, err |-> 0]

Fpga == Region(TRUE, 0, TRUE)
Unplaced == Region(FALSE, 3, TRUE)

Design == Bof(1, <<Fpga>>, TRUE)                    \* the usual file
Relocatable == Bof(1, <<Unplaced>>, TRUE)           \* bpr_nextfree places it
WrongClass == Bof(1, <<[Fpga EXCEPT !.rhino = FALSE]>>, TRUE)
NoChain == Bof(1, <<>>, TRUE)                       \* b_hwoff = 0
TwoChips == Bof(2, <<Fpga, Unplaced>>, TRUE)        \* RHINO has one FPGA
NotElf == Bof(0, <<>>, FALSE)                       \* software, no ELF image
EmptyStrtab == Bof(1, <<Region(TRUE, 0, FALSE)>>, TRUE)
ShortChain == Bof(2, <<Fpga>>, TRUE)                \* next_hwr = 0 too early

Ordinary == {Design, Relocatable, TwoChips, NoChain, WrongClass, NotElf}
Awkward == {Design, EmptyStrtab, ShortChain}
OnlyDesign == {Design}
OnlyEmptyStrtab == {EmptyStrtab}

Symmetry == Permutations(Tasks) \cup Permutations(Infos)
==============================================================================
