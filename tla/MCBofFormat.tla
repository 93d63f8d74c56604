----------------------------- MODULE MCBofFormat -----------------------------
(* BofFormat for TLC: ELF files shorter than, of the size of and longer than *)
(* an ELF header, an empty bit file, more lines than symbols allowed, and    *)
(* widths so small that name offsets run over and byte order matters.        *)
EXTENDS BofFormat
==============================================================================
