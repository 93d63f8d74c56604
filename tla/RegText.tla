------------------------------- MODULE RegText -------------------------------
(***************************************************************************)
(* The text of a register file in ASCII mode (fs/proc/proc_borph.c):       *)
(* to_ascii, which a read uses, and convert_input, which a write uses, one *)
(* turn of their loops at a time, with the buffer they work on.  A write   *)
(* hands convert_input a buffer on the stack of which it filled the first  *)
(* bytes; what lies behind them, in the buffer or past it, is whatever the *)
(* stack held and is chosen freely.                                        *)
(*                                                                         *)
(* A character is its class and its number in the class: <<"low", 1>> is   *)
(* the letter b.  A register has Digits hexadecimal digits; an int has the *)
(* same width and wraps (the kernel is built with -fno-strict-overflow).   *)
(***************************************************************************)
EXTENDS Integers

CONSTANTS
  Digits,     \* hexadecimal digits of a register, 8 in the code
  Power,      \* the powers of 16 up to the one with that exponent
  NUMTMPBUF,  \* size of the buffer
  Chars       \* the characters a client writes, and stray ones

EINVAL == 22
Mod == Power[Digits]
Half == Mod \div 2
Wrap(n) == ((n + Half) % Mod) - Half

NL == <<"nl", 0>>
X == <<"x", 0>>
B == <<"low", 1>>

Char == {"dec", "low", "up", "x", "nl", "other"} \X Nat

ASSUME TextAssumption ==
  /\ Digits \in Nat \ {0} /\ NUMTMPBUF \in Nat /\ Digits + 1 <= NUMTMPBUF
  /\ Power[0] = 1 /\ \A k \in 1..Digits : Power[k] = 16 * Power[k - 1]
  /\ Power \in [0..Digits -> Nat \ {0}]
  /\ Chars \subseteq Char

VARIABLES
  pc,    \* "ascii", "pad": in to_ascii; "begin", "hex", "bin", "dec": in
         \* convert_input; "done"
  echo,  \* the text was read from a register with value reg
  reg,   \* that value
  val, j,  \* locals of to_ascii
  text,  \* the buffer and the byte behind it
  len,   \* the bytes that were copied into it
  p, cnt, num,  \* buf, cnt and num of convert_input
  last,  \* the last byte it looked at
  res    \* what it returns

vars == <<pc, echo, reg, val, j, text, len, p, cnt, num, last, res>>

Text == [0..NUMTMPBUF -> Chars]

Init ==
  /\ p = 0 /\ num = 0 /\ last = 0 /\ res = 0
  /\ text \in Text
  /\ \/ /\ echo = FALSE /\ pc = "begin" /\ reg = 0 /\ val = 0 /\ j = 0
        /\ len \in 0..NUMTMPBUF
     \/ /\ echo = TRUE /\ pc = "ascii"
        /\ reg \in 0..Mod - 1 /\ val = reg /\ j = Digits
        /\ len = Digits + 1
        /\ \A k \in 0..NUMTMPBUF : text[k] = NL
  /\ cnt = len

-----------------------------------------------------------------------------
(* to_ascii.                                                               *)

AsciiChar(m) == IF m >= 10 THEN <<"up", m - 10>> ELSE <<"dec", m>>

(* Mutant: while (val >>= 4) tested before the last digit is written.      *)
AsciiDigitEarly ==
  /\ pc = "ascii"
  /\ text' = [text EXCEPT ![j - 1] = AsciiChar(val % 16)]
  /\ j' = j - 1
  /\ val' = val \div 16
  /\ pc' = IF val' < 16 THEN "pad" ELSE "ascii"
  /\ UNCHANGED <<echo, reg, len, p, cnt, num, last, res>>

AsciiDigit ==
  /\ pc = "ascii"
  /\ text' = [text EXCEPT ![j - 1] = AsciiChar(val % 16)]
  /\ j' = j - 1
  /\ val' = val \div 16
  /\ pc' = IF val' = 0 THEN "pad" ELSE "ascii"
  /\ UNCHANGED <<echo, reg, len, p, cnt, num, last, res>>

(* The zeros in front, and the newline; the client writes it all back.     *)
AsciiPad ==
  /\ pc = "pad"
  /\ text' = [k \in 0..NUMTMPBUF |-> IF k < j THEN <<"dec", 0>>
                                    ELSE IF k = Digits THEN NL ELSE text[k]]
  /\ pc' = "begin"
  /\ UNCHANGED <<echo, reg, val, j, len, p, cnt, num, last, res>>

-----------------------------------------------------------------------------
(* convert_input.                                                          *)

Return(r) == pc' = "done" /\ res' = r

(* The first byte tells the base, also when there is none.                 *)
Begin ==
  /\ pc = "begin"
  /\ last' = 0
  /\ IF text[0] \in {X, B}
       THEN \/ cnt < 2 /\ Return(-EINVAL) /\ UNCHANGED p
            \/ /\ cnt >= 2 /\ p' = 1
               /\ pc' = (IF text[0] = X THEN "hex" ELSE "bin")
               /\ UNCHANGED res
       ELSE pc' = "dec" /\ UNCHANGED <<p, res>>
  /\ UNCHANGED <<echo, reg, val, j, text, len, cnt, num>>

(* One turn of a loop.  The loops for a base with a letter have moved on   *)
(* by that letter and still take cnt turns.                                *)
Turn(label, n) ==
  /\ pc = label /\ cnt > 0
  /\ num' = Wrap(n)
  /\ last' = p
  /\ p' = p + 1
  /\ cnt' = cnt - 1
  /\ UNCHANGED <<pc, echo, reg, val, j, text, len, res>>

End(label) ==
  /\ pc = label /\ cnt = 0
  /\ Return(num)
  /\ UNCHANGED <<echo, reg, val, j, text, len, p, cnt, num, last>>

(* What a character adds to a hexadecimal number: a letter from a to f its *)
(* number in the alphabet, a foreign character nothing.                    *)
HexValue(c) ==
  IF c[1] = "dec" \/ (c[1] \in {"low", "up"} /\ c[2] <= 5) THEN c[2] ELSE 0

(* Mutant: the newline is taken for a digit.                               *)
HexDigitNewline == Turn("hex", 16 * num + HexValue(text[p]))

HexDigit == Turn("hex", IF text[p] = NL THEN num ELSE 16 * num + HexValue(text[p]))

(* Mutant: one more turn, for a terminating zero.                          *)
BinDigitMore ==
  /\ pc = "bin" /\ cnt >= 0
  /\ text[p] \in {NL, <<"dec", 0>>, <<"dec", 1>>}
  /\ num' = Wrap(IF text[p] = NL THEN num ELSE 2 * num + text[p][2])
  /\ last' = p + 1
  /\ p' = p + 1
  /\ cnt' = cnt - 1
  /\ UNCHANGED <<pc, echo, reg, val, j, text, len, res>>

BinDigit ==
  /\ pc = "bin" /\ cnt > 0
  /\ text[p] \in {NL, <<"dec", 0>>, <<"dec", 1>>}
  /\ Turn("bin", IF text[p] = NL THEN num ELSE 2 * num + text[p][2])

BinRefused ==
  /\ pc = "bin" /\ cnt > 0
  /\ text[p] \notin {NL, <<"dec", 0>>, <<"dec", 1>>}
  /\ last' = p
  /\ Return(-EINVAL)
  /\ UNCHANGED <<echo, reg, val, j, text, len, p, cnt, num>>

(* Mutant: foreign characters count as a digit 0.                          *)
DecDigitAll ==
  Turn("dec", 10 * num + (IF text[p][1] = "dec" THEN text[p][2] ELSE 0))

(* Foreign characters are passed over.                                     *)
DecDigit == Turn("dec", IF text[p][1] = "dec" THEN 10 * num + text[p][2] ELSE num)

Next ==
  \/ AsciiDigit \/ AsciiPad
  \/ Begin \/ HexDigit \/ BinDigit \/ BinRefused \/ DecDigit
  \/ End("hex") \/ End("bin") \/ End("dec")

Spec == Init /\ [][Next]_vars

-----------------------------------------------------------------------------
(* What the text means.                                                    *)

Figure(c) == IF c[1] = "dec" THEN c[2] ELSE 10 + c[2]

(* The characters from a on are figures of the base, but for a newline at  *)
(* the end; n is their number.                                             *)
IsNumber(a, n, base) ==
  /\ n > a
  /\ \A k \in a..n - 1 : /\ text[k][1] \in {"dec", "low", "up"}
                         /\ Figure(text[k]) < base
  /\ n = len \/ (n = len - 1 /\ text[n] = NL)

(* The number that the characters from a to the one before n of a text are. *)
Value(t, a, n, base) ==
  LET v[k \in a..NUMTMPBUF] == IF k = a THEN 0 ELSE base * v[k - 1] + Figure(t[k - 1])
  IN  v[n]

Meaning(a, n, base) == Value(text, a, n, base)

(* The locals of to_ascii and convert_input have their types: the number   *)
(* stays an int and the pointer is at most one past tmpbuf.                *)
TypeOK ==
  /\ pc \in {"ascii", "pad", "begin", "hex", "bin", "dec", "done"}
  /\ echo \in BOOLEAN
  /\ reg \in 0..Mod - 1 /\ val \in 0..Mod - 1 /\ j \in 0..Digits
  /\ len \in 0..NUMTMPBUF /\ cnt \in 0..NUMTMPBUF /\ p \in 0..NUMTMPBUF + 1
  /\ num \in -Half..Half - 1
  /\ res \in {-EINVAL} \cup -Half..Half - 1

(* A decimal number that fits is converted as it reads, whatever lies      *)
(* behind it.                                                              *)
DecimalRight ==
  pc = "done" /\ ~echo =>
    \A n \in 0..len : IsNumber(0, n, 10) /\ Meaning(0, n, 10) < Half =>
                         res = Meaning(0, n, 10)

(* A number with a base letter is converted as it reads if the stray byte  *)
(* behind it is a newline and it has no figures above 9.  The comment of   *)
(* convert_input promises it for its cnt bytes, whatever lies behind them: *)
(* without the first condition TLC finds b0 refused, for cnt is not        *)
(* decremented when the letter is stepped over.                            *)
PrefixRight ==
  pc = "done" /\ ~echo /\ len >= 2 /\ text[len] = NL =>
    \A n \in 1..len :
      /\ text[0] = X /\ IsNumber(1, n, 10) /\ Meaning(1, n, 16) < Half =>
           res = Meaning(1, n, 16)
      /\ text[0] = B /\ IsNumber(1, n, 2) /\ Meaning(1, n, 2) < Half =>
           res = Meaning(1, n, 2)

(* The conversion looks at no byte but those it was given and the one      *)
(* behind them; without a base letter not even at that one.  Nor do its    *)
(* locals, or those of to_ascii, leave their ranges.                       *)
LooksAtMostOneBehind ==
  /\ TypeOK
  /\ last <= len
  /\ last = len /\ len > 0 => text[0] \in {X, B}

(* A read gives the hexadecimal digits of the register and a newline.      *)
AsciiRight ==
  pc \in {"begin", "dec", "done"} =>
    IsNumber(0, Digits, 16) /\ Meaning(0, Digits, 16) = reg

(* A register keeps its value when what was read from it is written back   *)
(* exactly if the value has one decimal digit: the digits are read in      *)
(* hexadecimal, without the x that would say so, and written in decimal.   *)
EchoKeeps ==
  echo => AsciiRight /\ (pc = "done" => (res = reg <=> reg < 10))
==============================================================================
