---------------------------- MODULE RegTextProofs ----------------------------
(***************************************************************************)
(* For registers of any width, a buffer of any size and any characters in  *)
(* it and behind it: to_ascii stays in its digits, convert_input reads at  *)
(* most one byte too many, the number it computes stays an int and is what *)
(* the text means, and what becomes of a register that is read and written *)
(* back.                                                                   *)
(***************************************************************************)
EXTENDS RegText, WellFoundedInduction, TLAPS

(* The variables of to_ascii: what is left of the value fits in the digits *)
(* that are left, so that the loop ends before it runs out of digits.      *)
Ascii ==
  pc = "ascii" => j >= 1 /\ val < Power[j]

(* Before the conversion has begun.                                        *)
Fresh ==
  pc \in {"ascii", "pad", "begin"} =>
    /\ p = 0 /\ last = 0 /\ cnt = len
    /\ pc # "begin" => len > 0

(* In a loop, the byte looked at next is determined by the turns left: one *)
(* more than it should be where a base letter was skipped.                 *)
Looking ==
  /\ pc \in {"hex", "bin"} => text[0] \in {X, B} /\ p + cnt = len + 1 /\ p >= 1
  /\ pc = "dec" => p + cnt = len

Behind ==
  /\ last <= len
  /\ last = len /\ len > 0 => text[0] \in {X, B}

Numbers ==
  /\ pc \in {"ascii", "pad", "begin", "hex", "bin", "dec", "done"}
  /\ reg \in 0..Mod - 1 /\ val \in 0..Mod - 1 /\ j \in 0..Digits
  /\ len \in 0..NUMTMPBUF /\ cnt \in 0..NUMTMPBUF /\ p \in 0..NUMTMPBUF + 1
  /\ num \in -Half..Half - 1
  /\ res \in {-EINVAL} \cup -Half..Half - 1
  /\ last \in Nat
  /\ text \in [0..NUMTMPBUF -> Char]

TextInv ==
  /\ Numbers /\ echo \in BOOLEAN
  /\ Ascii /\ Fresh /\ Looking /\ Behind

(* An int has an even number of values, half of them negative.             *)
LEMMA Widths ==
  /\ Digits \in Nat \ {0} /\ NUMTMPBUF \in Nat /\ Digits + 1 <= NUMTMPBUF
  /\ Mod \in Nat /\ Half \in Nat /\ Mod = 2 * Half
  /\ \A k \in 0..Digits : Power[k] \in Nat /\ Power[k] >= 1
  /\ Half >= 1
<1> USE TextAssumption
<1>1. \A k \in 0..Digits : Power[k] \in Nat
  OBVIOUS
<1>2. Mod = 16 * Power[Digits - 1] /\ Power[Digits - 1] \in Nat
  BY <1>1 DEF Mod
<1>3. Half = 8 * Power[Digits - 1] /\ Mod = 2 * Half
  BY <1>2 DEF Half
<1> QED BY <1>1, <1>2, <1>3, SMTT(30)

(* The result of Wrap is an int.                                           *)
LEMMA WrapRange == ASSUME NEW n \in Int PROVE Wrap(n) \in -Half..Half - 1
<1>1. Mod \in Nat /\ Mod > 0 /\ Half \in Nat /\ Mod = 2 * Half
  BY Widths
<1>2. (n + Half) % Mod \in 0..Mod - 1
  BY <1>1
<1> DEFINE w == (n + Half) % Mod
<1> HIDE DEF w
<1>3. w - Half \in -Half..Half - 1
  BY <1>1, <1>2 DEF w
<1> QED BY <1>3 DEF Wrap, w

LEMMA InitText == Init => TextInv
<1> SUFFICES ASSUME Init PROVE TextInv
  OBVIOUS
<1> USE Widths
<1>1. echo \in BOOLEAN
  BY Zenon DEF Init
<1>2. /\ p = 0 /\ num = 0 /\ last = 0 /\ res = 0 /\ cnt = len
      /\ text \in [0..NUMTMPBUF -> Char]
      /\ pc \in {"begin", "ascii"} /\ len \in 0..NUMTMPBUF
      /\ pc = "ascii" => len = Digits + 1 /\ j = Digits /\ val = reg
      /\ reg \in 0..Mod - 1 /\ val \in 0..Mod - 1 /\ j \in 0..Digits
  <2>1. text \in [0..NUMTMPBUF -> Char]
    BY TextAssumption DEF Init, Text
  <2>2. 0 \in 0..Mod - 1
    OBVIOUS
  <2> QED
    BY <2>1, <2>2 DEF Init
<1>3. Numbers
  BY <1>2 DEF Numbers
<1>4. Ascii
  BY <1>2 DEF Ascii, Mod
<1>5. Fresh /\ Looking
  BY <1>2 DEF Fresh, Looking
<1>6. Behind
  BY <1>2 DEF Behind
<1> QED
  BY <1>1, <1>3, <1>4, <1>5, <1>6 DEF TextInv

(* The type facts the steps below need.                                    *)
LEMMA TextBasics ==
  ASSUME TextInv
  PROVE  /\ p \in Nat /\ cnt \in Nat /\ len \in Nat /\ last \in Nat /\ num \in Int
         /\ j \in Nat /\ val \in Nat /\ len <= NUMTMPBUF /\ cnt <= NUMTMPBUF
         /\ text \in [0..NUMTMPBUF -> Char]
  BY Widths DEF TextInv, Numbers

(* A turn of to_ascii.                                                     *)
LEMMA DigitStep == TextInv /\ AsciiDigit => TextInv'
<1> SUFFICES ASSUME TextInv, AsciiDigit PROVE TextInv'
  OBVIOUS
<1> USE Widths
<1>1. /\ pc = "ascii" /\ j' = j - 1 /\ val' = val \div 16
      /\ pc' = IF val' = 0 THEN "pad" ELSE "ascii"
      /\ text' = [text EXCEPT ![j - 1] = AsciiChar(val % 16)]
      /\ UNCHANGED <<echo, reg, len, p, cnt, num, last, res>>
  BY DEF AsciiDigit
<1>2. /\ j \in 1..Digits /\ val \in Nat /\ val < Power[j] /\ val < Mod
      /\ p = 0 /\ last = 0 /\ cnt = len /\ len > 0 /\ len \in Nat
  BY <1>1 DEF TextInv, Numbers, Ascii, Fresh
<1>3. val' \in 0..Mod - 1 /\ j' \in 0..Digits
  BY <1>1, <1>2
<1>4. val' < Power[j - 1]
  <2>1. Power[j] = 16 * Power[j - 1] /\ Power[j - 1] \in Nat
    BY <1>2, TextAssumption
  <2> QED BY <1>1, <1>2, <2>1
<1>5. pc' = "ascii" => j' >= 1
  <2>1. Power[0] = 1
    BY TextAssumption
  <2> QED BY <1>1, <1>2, <1>3, <1>4, <2>1
<1>6. text' \in [0..NUMTMPBUF -> Char]
  <2>1. val % 16 \in 0..15
    BY <1>2
  <2>2. AsciiChar(val % 16) \in Char
    BY <2>1 DEF AsciiChar, Char
  <2> QED
    BY <1>1, <1>2, <2>2, TextBasics
<1>7. Numbers'
  BY <1>1, <1>3, <1>6 DEF TextInv, Numbers
<1>8. Ascii' /\ Fresh' /\ Looking' /\ Behind'
  BY <1>1, <1>2, <1>4, <1>5 DEF Ascii, Fresh, Looking, Behind
<1>9. echo' \in BOOLEAN
  BY <1>1, Zenon DEF TextInv
<1> QED
  BY <1>7, <1>8, <1>9 DEF TextInv

LEMMA PadStep == TextInv /\ AsciiPad => TextInv'
<1> SUFFICES ASSUME TextInv, AsciiPad PROVE TextInv'
  OBVIOUS
<1> USE Widths
<1>1. /\ pc = "pad" /\ pc' = "begin"
      /\ text' = [k \in 0..NUMTMPBUF |-> IF k < j THEN <<"dec", 0>>
                                        ELSE IF k = Digits THEN NL ELSE text[k]]
      /\ UNCHANGED <<echo, reg, val, j, len, p, cnt, num, last, res>>
  BY DEF AsciiPad
<1>2. text' \in [0..NUMTMPBUF -> Char]
  <2>1. <<"dec", 0>> \in Char /\ NL \in Char
    BY DEF NL, Char
  <2> QED
    BY <1>1, <2>1, TextBasics
<1>3. p = 0 /\ last = 0 /\ cnt = len /\ len > 0 /\ len \in Nat
  BY <1>1, TextBasics DEF TextInv, Fresh
<1>4. Numbers'
  BY <1>1, <1>2 DEF TextInv, Numbers
<1>5. Ascii' /\ Fresh' /\ Looking' /\ Behind'
  BY <1>1, <1>3 DEF Ascii, Fresh, Looking, Behind
<1>6. echo' \in BOOLEAN
  BY <1>1, Zenon DEF TextInv
<1> QED
  BY <1>4, <1>5, <1>6 DEF TextInv

(* The first byte decides where the loop begins.                           *)
LEMMA BeginStep == TextInv /\ Begin => TextInv'
<1> SUFFICES ASSUME TextInv, Begin PROVE TextInv'
  OBVIOUS
<1> USE Widths
<1>1. /\ pc = "begin" /\ last' = 0
      /\ UNCHANGED <<echo, reg, val, j, text, len, cnt, num>>
  BY DEF Begin
<1>2. p = 0 /\ cnt = len /\ len \in Nat /\ last = 0
  BY <1>1, TextBasics DEF TextInv, Fresh
<1>3. \/ pc' = "done" /\ res' = -EINVAL /\ p' = p
      \/ text[0] \in {X, B} /\ cnt >= 2 /\ p' = 1 /\ pc' \in {"hex", "bin"} /\ res' = res
      \/ pc' = "dec" /\ p' = p /\ res' = res
  BY DEF Begin, Return
<1>4. p' \in 0..NUMTMPBUF + 1
  BY <1>2, <1>3
<1>5. Numbers'
  BY <1>1, <1>3, <1>4 DEF TextInv, Numbers
<1>6. Ascii' /\ Fresh' /\ Looking' /\ Behind'
  BY <1>1, <1>2, <1>3 DEF Ascii, Fresh, Looking, Behind
<1>7. echo' \in BOOLEAN
  BY <1>1, Zenon DEF TextInv
<1> QED
  BY <1>5, <1>6, <1>7 DEF TextInv

(* A turn of one of the three loops looks at a byte of the buffer, or the  *)
(* one behind it.                                                          *)
LEMMA TurnStep ==
  ASSUME TextInv, NEW label \in {"hex", "bin", "dec"}, NEW n \in Int, Turn(label, n)
  PROVE  TextInv'
<1> USE Widths
<1>1. /\ pc = label /\ pc' = label /\ cnt > 0
      /\ num' = Wrap(n) /\ last' = p /\ p' = p + 1 /\ cnt' = cnt - 1
      /\ UNCHANGED <<echo, reg, val, j, text, len, res>>
  BY DEF Turn
<1>2. /\ p \in Nat /\ cnt \in Nat /\ len \in Nat /\ cnt <= NUMTMPBUF /\ len <= NUMTMPBUF
  BY TextBasics
<1>3. /\ label \in {"hex", "bin"} => text[0] \in {X, B} /\ p + cnt = len + 1 /\ p >= 1
      /\ label = "dec" => p + cnt = len
  BY <1>1 DEF TextInv, Looking
<1>4. num' \in -Half..Half - 1
  BY <1>1, WrapRange
<1>5. p <= len /\ p' \in 0..NUMTMPBUF + 1 /\ cnt' \in 0..NUMTMPBUF
  BY <1>1, <1>2, <1>3
<1>6. Numbers'
  BY <1>1, <1>2, <1>4, <1>5 DEF TextInv, Numbers
<1>7. Ascii' /\ Fresh' /\ Looking'
  BY <1>1, <1>2, <1>3 DEF Ascii, Fresh, Looking
<1>8. Behind'
  BY <1>1, <1>2, <1>3, <1>5 DEF Behind
<1>9. echo' \in BOOLEAN
  BY <1>1, Zenon DEF TextInv
<1> QED
  BY <1>6, <1>7, <1>8, <1>9 DEF TextInv

(* The byte that a loop looks at is there, and is a character.             *)
LEMMA LooksAtChar ==
  ASSUME TextInv, pc \in {"hex", "bin", "dec"}, cnt > 0
  PROVE  text[p] \in Char /\ text[p][2] \in Nat /\ p <= len
<1>1. p \in 0..NUMTMPBUF /\ p <= len
  BY Widths, TextBasics DEF TextInv, Looking
<1>2. text[p] \in Char
  BY <1>1, TextBasics
<1> QED BY <1>1, <1>2 DEF Char

LEMMA LoopStep ==
  ASSUME TextInv, HexDigit \/ BinDigit \/ BinRefused \/ DecDigit
  PROVE  TextInv'
<1>0. pc \in {"hex", "bin", "dec"} /\ cnt > 0
  BY DEF HexDigit, BinDigit, BinRefused, DecDigit, Turn
<1>1. text[p][2] \in Nat /\ num \in Int /\ p \in Nat /\ p <= len
  BY <1>0, LooksAtChar, TextBasics
<1>2. CASE HexDigit
  <2> DEFINE n == IF text[p] = NL THEN num
                  ELSE 16 * num + HexValue(text[p])
  <2>1. n \in Int
    BY <1>1 DEF HexValue
  <2>2. Turn("hex", n)
    BY <1>2 DEF HexDigit
  <2> HIDE DEF n
  <2> QED BY <2>1, <2>2, TurnStep
<1>3. CASE BinDigit
  <2> DEFINE n == IF text[p] = NL THEN num ELSE 2 * num + text[p][2]
  <2>1. n \in Int
    BY <1>1
  <2>2. Turn("bin", n)
    BY <1>3 DEF BinDigit
  <2> HIDE DEF n
  <2> QED BY <2>1, <2>2, TurnStep
<1>4. CASE DecDigit
  <2> DEFINE n == IF text[p][1] = "dec" THEN 10 * num + text[p][2] ELSE num
  <2>1. n \in Int
    BY <1>1
  <2>2. Turn("dec", n)
    BY <1>4 DEF DecDigit
  <2> HIDE DEF n
  <2> QED BY <2>1, <2>2, TurnStep
<1>5. CASE BinRefused
  <2>1. /\ pc = "bin" /\ last' = p /\ pc' = "done" /\ res' = -EINVAL
        /\ UNCHANGED <<echo, reg, val, j, text, len, p, cnt, num>>
    BY <1>5 DEF BinRefused, Return
  <2>2. text[0] \in {X, B}
    BY <2>1 DEF TextInv, Looking
  <2>3. Numbers'
    BY <1>1, <2>1 DEF TextInv, Numbers
  <2>4. Ascii' /\ Fresh' /\ Looking' /\ Behind'
    BY <1>1, <2>1, <2>2 DEF Ascii, Fresh, Looking, Behind
  <2>5. echo' \in BOOLEAN
    BY <2>1, Zenon DEF TextInv
  <2> QED
    BY <2>3, <2>4, <2>5 DEF TextInv
<1> QED
  BY <1>2, <1>3, <1>4, <1>5

LEMMA EndStep ==
  ASSUME TextInv, NEW label \in {"hex", "bin", "dec"}, End(label)
  PROVE  TextInv'
<1>1. /\ pc' = "done" /\ res' = num
      /\ UNCHANGED <<echo, reg, val, j, text, len, p, cnt, num, last>>
  BY DEF End, Return
<1>2. Numbers'
  BY <1>1 DEF TextInv, Numbers
<1>3. Ascii' /\ Fresh' /\ Looking'
  BY <1>1 DEF Ascii, Fresh, Looking
<1>4. Behind'
  BY <1>1 DEF TextInv, Behind
<1>5. echo' \in BOOLEAN
  BY <1>1, Zenon DEF TextInv
<1> QED
  BY <1>2, <1>3, <1>4, <1>5 DEF TextInv

LEMMA TextCorrect == Spec => []TextInv
<1>1. TextInv /\ UNCHANGED vars => TextInv'
  <2> SUFFICES ASSUME TextInv, UNCHANGED vars PROVE TextInv'
    OBVIOUS
  <2>1. echo' \in BOOLEAN
    BY Zenon DEF TextInv, vars
  <2>2. Numbers' /\ Ascii' /\ Fresh' /\ Looking' /\ Behind'
    BY DEF TextInv, Numbers, Ascii, Fresh, Looking, Behind, vars
  <2> QED BY <2>1, <2>2 DEF TextInv
<1>2. TextInv /\ [Next]_vars => TextInv'
  BY <1>1, DigitStep, PadStep, BeginStep, LoopStep, EndStep DEF Next
<1> QED
  BY <1>2, InitText, PTL DEF Spec

(* For every register width, buffer and text: the loop of to_ascii ends    *)
(* before it runs out of digits, convert_input looks at no byte further    *)
(* than the one behind those it was given, at that one only after a base   *)
(* letter, and its result is -EINVAL or an int.                            *)
THEOREM LooksAtMostOneBehindCorrect == Spec => []LooksAtMostOneBehind
<1>1. TextInv => LooksAtMostOneBehind
  BY DEF TextInv, Numbers, Behind, TypeOK, LooksAtMostOneBehind
<1> QED BY <1>1, TextCorrect, PTL

-----------------------------------------------------------------------------
(* What the loops compute.  The induction theorems of the library take the *)
(* property as an operator; these take it as a set of numbers.             *)

(* Every set of natural numbers has a least one.                           *)
LEMMA LeastNat ==
  ASSUME NEW T \in SUBSET Nat, T # {}
  PROVE  \E x \in T : \A y \in T : x <= y
<1> DEFINE R == {ss \in Nat \X Nat : ss[1] < ss[2]}
<1>1. IsWellFoundedOn(R, Nat)
  BY NatLessThanWellFounded DEF OpToRel
<1>2. PICK x \in T : \A y \in T : <<y, x>> \notin R
  <2> HIDE DEF R
  <2> QED BY <1>1, WFMin
<1>3. \A y \in T : ~(y < x)
  BY <1>2
<1> QED BY <1>3

(* A set with 0, and with the successor of each of its numbers, is Nat.    *)
LEMMA SetInduction ==
  ASSUME NEW S \in SUBSET Nat, 0 \in S, \A k \in S : k + 1 \in S
  PROVE  S = Nat
<1> DEFINE T == Nat \ S
<1> SUFFICES ASSUME T # {} PROVE FALSE
  OBVIOUS
<1>1. PICK x \in T : \A y \in T : x <= y
  <2> HIDE DEF T
  <2>1. T \in SUBSET Nat
    BY DEF T
  <2> QED BY <2>1, LeastNat
<1>2. x \in Nat /\ x # 0 /\ x - 1 \in Nat
  BY <1>1
<1>3. x - 1 \notin T
  BY <1>1, <1>2
<1>4. x - 1 + 1 \in S
  BY <1>2, <1>3
<1> QED BY <1>1, <1>2, <1>4

(* The function that Value is taken from, up to m.                         *)
IsValue(v, t, a, base, m) ==
  v = [k \in a..m |-> IF k = a THEN 0 ELSE base * v[k - 1] + Figure(t[k - 1])]

(* It is extended by one place at a time, so there is one.                 *)
LEMMA ValueExists ==
  ASSUME NEW t, NEW a \in Nat, NEW base, NEW m \in Nat
  PROVE  \E v : IsValue(v, t, a, base, m)
<1> USE DEF IsValue
<1> DEFINE P(n, v) == v = [k \in a..n |-> IF k = a THEN 0
                                          ELSE base * v[k - 1] + Figure(t[k - 1])]
           S == {n \in Nat : n >= a => \E v : P(n, v)}
<1>1. 0 \in S
  <2>1. CASE a = 0
    <3>1. P(0, [k \in 0..0 |-> 0])
      BY <2>1
    <3> QED BY <3>1
  <2>2. CASE a # 0
    BY <2>2
  <2> QED BY <2>1, <2>2
<1>2. ASSUME NEW n \in S PROVE n + 1 \in S
  <2>1. CASE n + 1 < a
    BY <2>1
  <2>2. CASE n + 1 = a
    <3>1. P(a, [k \in a..a |-> 0])
      OBVIOUS
    <3> QED BY <2>2, <3>1
  <2>3. CASE n >= a
    <3>1. PICK v : P(n, v)
      BY <2>3
    <3> DEFINE w == [k \in a..n + 1 |-> IF k <= n THEN v[k]
                                        ELSE base * v[n] + Figure(t[n])]
    <3>2. ASSUME NEW k \in a..n + 1
          PROVE  w[k] = IF k = a THEN 0 ELSE base * w[k - 1] + Figure(t[k - 1])
      <4>1. CASE k = n + 1
        BY <4>1, <2>3
      <4>2. CASE k <= n
        <5>1. v[k] = IF k = a THEN 0 ELSE base * v[k - 1] + Figure(t[k - 1])
          BY <3>1, <4>2
        <5>2. w[k] = v[k] /\ (k # a => w[k - 1] = v[k - 1])
          BY <4>2
        <5> HIDE DEF w
        <5> QED BY <5>1, <5>2
      <4> QED BY <4>1, <4>2
    <3>3. P(n + 1, w)
      <4>1. w = [k \in a..n + 1 |-> w[k]]
        OBVIOUS
      <4> HIDE DEF w
      <4>2. [k \in a..n + 1 |-> w[k]]
            = [k \in a..n + 1 |-> IF k = a THEN 0 ELSE base * w[k - 1] + Figure(t[k - 1])]
        BY <3>2
      <4> QED BY <4>1, <4>2
    <3>4. \E u : P(n + 1, u)
      <4> HIDE DEF w, P
      <4> WITNESS w
      <4> QED BY <3>3
    <3> HIDE DEF P
    <3> QED BY <3>4
  <2> QED BY <2>1, <2>2, <2>3
<1>3. S = Nat
  <2> HIDE DEF S
  <2>1. S \in SUBSET Nat
    BY DEF S
  <2> QED BY <1>1, <1>2, <2>1, SetInduction
<1>4. CASE m >= a
  BY <1>3, <1>4
<1>5. CASE m < a
  <2>1. P(m, [k \in a..m |-> 0])
    BY <1>5
  <2> QED BY <2>1
<1> QED BY <1>4, <1>5

(* The meaning of no character is 0, and one more character multiplies it  *)
(* by the base and adds its figure.                                        *)
LEMMA ValueSteps ==
  ASSUME NEW t, NEW a \in Nat, NEW base, NEW n \in a..NUMTMPBUF
  PROVE  Value(t, a, n, base) = IF n = a THEN 0
                                ELSE base * Value(t, a, n - 1, base) + Figure(t[n - 1])
<1> DEFINE v == CHOOSE f : f = [k \in a..NUMTMPBUF |->
                                  IF k = a THEN 0 ELSE base * f[k - 1] + Figure(t[k - 1])]
<1>1. \E f : IsValue(f, t, a, base, NUMTMPBUF)
  BY ValueExists, Widths
<1>2. v = CHOOSE f : IsValue(f, t, a, base, NUMTMPBUF)
  BY DEF IsValue
<1>3. IsValue(v, t, a, base, NUMTMPBUF)
  <2> HIDE DEF v
  <2> QED BY <1>1, <1>2
<1>4. \A k : Value(t, a, k, base) = v[k]
  BY DEF Value
<1> HIDE DEF v
<1>5. n - 1 \in a..NUMTMPBUF \/ n = a
  BY Widths
<1> QED BY <1>3, <1>4, <1>5 DEF IsValue

LEMMA ValueNone ==
  ASSUME NEW t, NEW a \in 0..NUMTMPBUF, NEW base
  PROVE  Value(t, a, a, base) = 0
<1>1. a \in Nat /\ a \in a..NUMTMPBUF
  BY Widths
<1> QED BY <1>1, ValueSteps

(* It is a natural number.                                                 *)
LEMMA ValueNat ==
  ASSUME NEW t \in [0..NUMTMPBUF -> Char], NEW a \in Nat, NEW base \in {2, 10, 16},
         NEW n \in a..NUMTMPBUF
  PROVE  Value(t, a, n, base) \in Nat
<1> USE Widths
<1> DEFINE S == {k \in Nat : a + k <= NUMTMPBUF => Value(t, a, a + k, base) \in Nat}
<1>1. 0 \in S
  <2>1. Value(t, a, a, base) = 0
    BY ValueSteps
  <2> QED BY <2>1
<1>2. ASSUME NEW k \in S PROVE k + 1 \in S
  <2> SUFFICES ASSUME a + k + 1 <= NUMTMPBUF
               PROVE  Value(t, a, a + k + 1, base) \in Nat
    BY a + (k + 1) = a + k + 1
  <2>1. Value(t, a, a + k, base) \in Nat
    OBVIOUS
  <2>2. Value(t, a, a + k + 1, base) = base * Value(t, a, a + k, base) + Figure(t[a + k])
    <3>1. a + k + 1 \in a..NUMTMPBUF /\ a + k + 1 # a /\ a + k + 1 - 1 = a + k
      OBVIOUS
    <3> QED BY <3>1, ValueSteps
  <2>3. Figure(t[a + k]) \in Nat
    BY SMTT(30) DEF Figure, Char
  <2> QED BY <2>1, <2>2, <2>3
<1>3. S = Nat
  <2> HIDE DEF S
  <2>1. S \in SUBSET Nat
    BY DEF S
  <2> QED BY <1>1, <1>2, <2>1, SetInduction
<1>4. n - a \in Nat /\ a + (n - a) = n
  OBVIOUS
<1>5. n - a \in S
  <2> HIDE DEF S
  <2> QED BY <1>3, <1>4
<1> QED BY <1>4, <1>5

(* More characters mean no less.                                           *)
LEMMA ValueGrows ==
  ASSUME NEW t \in [0..NUMTMPBUF -> Char], NEW a \in Nat, NEW base \in {2, 10, 16},
         NEW m \in a..NUMTMPBUF, NEW n \in m..NUMTMPBUF
  PROVE  Value(t, a, m, base) <= Value(t, a, n, base)
<1> USE Widths
<1> DEFINE S == {k \in Nat : m + k <= NUMTMPBUF =>
                               Value(t, a, m, base) <= Value(t, a, m + k, base)}
<1>0. Value(t, a, m, base) \in Nat
  BY ValueNat
<1>1. 0 \in S
  BY <1>0
<1>2. ASSUME NEW k \in S PROVE k + 1 \in S
  <2> SUFFICES ASSUME m + k + 1 <= NUMTMPBUF
               PROVE  Value(t, a, m, base) <= Value(t, a, m + k + 1, base)
    BY m + (k + 1) = m + k + 1
  <2>1. Value(t, a, m, base) <= Value(t, a, m + k, base)
    OBVIOUS
  <2>2. Value(t, a, m + k + 1, base) = base * Value(t, a, m + k, base) + Figure(t[m + k])
    <3>1. m + k + 1 \in a..NUMTMPBUF /\ m + k + 1 # a /\ m + k + 1 - 1 = m + k
      OBVIOUS
    <3> QED BY <3>1, ValueSteps
  <2>3. Figure(t[m + k]) \in Nat /\ Value(t, a, m + k, base) \in Nat
    <3>1. m + k \in a..NUMTMPBUF
      OBVIOUS
    <3>2. Value(t, a, m + k, base) \in Nat
      BY <3>1, ValueNat
    <3>3. Figure(t[m + k]) \in Nat
      BY SMTT(30) DEF Figure, Char
    <3> QED BY <3>2, <3>3
  <2> QED BY <1>0, <2>1, <2>2, <2>3
<1>3. S = Nat
  <2> HIDE DEF S
  <2>1. S \in SUBSET Nat
    BY DEF S
  <2> QED BY <1>1, <1>2, <2>1, SetInduction
<1>4. n - m \in Nat /\ m + (n - m) = n
  OBVIOUS
<1>5. n - m \in S
  <2> HIDE DEF S
  <2> QED BY <1>3, <1>4
<1> QED BY <1>4, <1>5

(* A number that fits in an int is not changed by wrapping.                *)
LEMMA WrapFits == ASSUME NEW n \in Nat, n < Half PROVE Wrap(n) = n
<1>1. n + Half \in 0..Mod - 1 /\ Mod \in Nat /\ Mod > 0 /\ Half \in Nat
  BY Widths
<1>2. (n + Half) % Mod = n + Half
  BY <1>1
<1> QED BY <1>1, <1>2 DEF Wrap

(* The characters of a number that the loop has passed.                    *)
Passed(n) == IF p < n THEN p ELSE n

(* Which loop runs is decided by the first character, and it begins at 0.  *)
BaseInv ==
  /\ pc \in {"ascii", "pad", "begin"} => num = 0
  /\ pc = "hex" => text[0] = X
  /\ pc = "bin" => text[0] = B
  /\ pc = "dec" => text[0] \notin {X, B}

(* In the loop for decimal numbers, num is what the passed characters mean. *)
DecInv ==
  pc = "dec" =>
    \A n \in 0..len : IsNumber(0, n, 10) /\ Meaning(0, n, 10) < Half =>
                        num = Meaning(0, Passed(n), 10)

(* The same in the other loops, if the stray byte is harmless.             *)
HexInv ==
  pc = "hex" =>
    \A n \in 1..len : IsNumber(1, n, 10) /\ Meaning(1, n, 16) < Half /\ text[len] = NL =>
                        num = Meaning(1, Passed(n), 16)

BinInv ==
  pc = "bin" =>
    \A n \in 1..len : IsNumber(1, n, 2) /\ Meaning(1, n, 2) < Half /\ text[len] = NL =>
                        num = Meaning(1, Passed(n), 2)

MeaningInv ==
  /\ TextInv /\ BaseInv /\ DecInv /\ HexInv /\ BinInv
  /\ DecimalRight /\ PrefixRight

(* One more figure of a number that fits in an int.                        *)
LEMMA OneMore ==
  ASSUME TextInv, NEW a \in {0, 1}, NEW base \in {2, 10, 16}, NEW figures \in {2, 10},
         NEW n \in a..len, IsNumber(a, n, figures), Meaning(a, n, base) < Half,
         a <= p, p < n
  PROVE  /\ text[p][1] = "dec" /\ text[p][2] \in 0..figures - 1 /\ text[p] # NL
         /\ Wrap(base * Meaning(a, p, base) + text[p][2]) = Meaning(a, p + 1, base)
<1> USE Widths
<1>1. /\ p \in Nat /\ n \in Nat /\ n <= NUMTMPBUF /\ p \in a..n - 1
      /\ text \in [0..NUMTMPBUF -> Char]
  BY TextBasics
<1>2. text[p] \in Char /\ text[p][1] \in {"dec", "low", "up"} /\ Figure(text[p]) < figures
  BY <1>1 DEF IsNumber
<1>3. text[p][1] = "dec" /\ text[p][2] \in 0..figures - 1 /\ Figure(text[p]) = text[p][2]
  BY <1>2 DEF Figure, Char
<1>4. text[p] # NL
  BY <1>3 DEF NL
<1>5. Value(text, a, p + 1, base) = base * Value(text, a, p, base) + text[p][2]
  <2> DEFINE q == p + 1
  <2>1. a \in Nat /\ q \in a..NUMTMPBUF /\ q # a /\ q - 1 = p
    BY <1>1
  <2> HIDE DEF q
  <2>2. Value(text, a, q, base) = base * Value(text, a, q - 1, base) + Figure(text[q - 1])
    BY <2>1, ValueSteps
  <2> QED BY <1>3, <2>1, <2>2 DEF q
<1>6. Value(text, a, p + 1, base) \in Nat /\ Value(text, a, n, base) \in Nat
  <2>1. a \in Nat /\ p + 1 \in a..NUMTMPBUF /\ n \in a..NUMTMPBUF
    BY <1>1
  <2> QED BY <1>1, <2>1, ValueNat
<1>7. Value(text, a, p + 1, base) <= Value(text, a, n, base)
  <2>1. p + 1 \in a..NUMTMPBUF /\ n \in p + 1..NUMTMPBUF
    BY <1>1
  <2> QED BY <1>1, <2>1, ValueGrows
<1>8. Value(text, a, p + 1, base) < Half
  BY <1>6, <1>7 DEF Meaning
<1> QED BY <1>3, <1>4, <1>5, <1>6, <1>8, WrapFits DEF Meaning

(* A number is not changed by a turn that adds nothing.                    *)
LEMMA NoMore == ASSUME TextInv PROVE Wrap(num) = num
<1>1. num \in -Half..Half - 1 /\ Half \in Nat /\ Mod = 2 * Half /\ Half >= 1 /\ Mod \in Nat
  BY Widths DEF TextInv, Numbers
<1>2. num + Half \in 0..Mod - 1
  BY <1>1
<1>3. (num + Half) % Mod = num + Half
  BY <1>1, <1>2
<1> QED BY <1>1, <1>3 DEF Wrap

(* The characters that a decimal number passes over at its end.            *)
LEMMA DecimalTurn ==
  ASSUME MeaningInv, DecDigit
  PROVE  DecInv'
<1> USE Widths
<1>1. /\ pc = "dec" /\ cnt > 0 /\ p' = p + 1
      /\ num' = Wrap(IF text[p][1] = "dec" THEN 10 * num + text[p][2] ELSE num)
      /\ text' = text /\ len' = len /\ pc' = pc
  BY DEF DecDigit, Turn
<1>2. TextInv /\ DecInv
  BY DEF MeaningInv
<1>3. p \in Nat /\ len \in Nat /\ p < len
  BY <1>1, <1>2, TextBasics DEF TextInv, Looking
<1> SUFFICES ASSUME NEW n \in 0..len, IsNumber(0, n, 10), Meaning(0, n, 10) < Half
             PROVE  num' = Value(text, 0, IF p + 1 < n THEN p + 1 ELSE n, 10)
  BY <1>1 DEF DecInv, IsNumber, Meaning, Passed
<1>4. num = Meaning(0, Passed(n), 10)
  BY <1>1, <1>2 DEF DecInv
<1>5. CASE p < n
  <2>1. num = Meaning(0, p, 10)
    BY <1>4, <1>5 DEF Passed
  <2>2. /\ text[p][1] = "dec"
        /\ Wrap(10 * Meaning(0, p, 10) + text[p][2]) = Meaning(0, p + 1, 10)
    BY <1>2, <1>3, <1>5, OneMore
  <2>3. num' = Meaning(0, p + 1, 10)
    BY <1>1, <2>1, <2>2
  <2>4. (IF p + 1 < n THEN p + 1 ELSE n) = p + 1
    BY <1>3, <1>5
  <2> QED BY <2>3, <2>4 DEF Meaning
<1>6. CASE p >= n
  <2>1. p = n /\ text[n] = NL
    BY <1>3, <1>6 DEF IsNumber
  <2>2. text[p][1] # "dec"
    BY <2>1 DEF NL
  <2>3. num' = num
    BY <1>1, <1>2, <2>2, NoMore
  <2>4. num' = Value(text, 0, n, 10)
    BY <1>3, <1>4, <1>6, <2>3 DEF Passed, Meaning
  <2> QED BY <1>3, <1>6, <2>4
<1> QED BY <1>3, <1>5, <1>6

LEMMA HexTurn ==
  ASSUME MeaningInv, HexDigit
  PROVE  HexInv'
<1> USE Widths
<1>1. /\ pc = "hex" /\ cnt > 0 /\ p' = p + 1
      /\ num' = Wrap(IF text[p] = NL THEN num
                     ELSE 16 * num + HexValue(text[p]))
      /\ text' = text /\ len' = len /\ pc' = pc
  BY DEF HexDigit, Turn
<1>2. TextInv /\ HexInv
  BY DEF MeaningInv
<1>3. p \in Nat /\ len \in Nat /\ p <= len /\ p >= 1
  BY <1>1, <1>2, TextBasics DEF TextInv, Looking
<1> SUFFICES ASSUME NEW n \in 1..len, IsNumber(1, n, 10), Meaning(1, n, 16) < Half,
                    text[len] = NL
             PROVE  num' = Value(text, 1, IF p + 1 < n THEN p + 1 ELSE n, 16)
  BY <1>1 DEF HexInv, IsNumber, Meaning, Passed
<1>4. num = Meaning(1, Passed(n), 16)
  BY <1>1, <1>2 DEF HexInv
<1>5. CASE p < n
  <2>1. num = Meaning(1, p, 16)
    BY <1>4, <1>5 DEF Passed
  <2>2. /\ text[p][1] = "dec" /\ text[p] # NL
        /\ Wrap(16 * Meaning(1, p, 16) + text[p][2]) = Meaning(1, p + 1, 16)
    BY <1>2, <1>3, <1>5, OneMore
  <2>3. num' = Meaning(1, p + 1, 16)
    BY <1>1, <2>1, <2>2 DEF HexValue
  <2>4. (IF p + 1 < n THEN p + 1 ELSE n) = p + 1
    BY <1>3, <1>5
  <2> QED BY <2>3, <2>4 DEF Meaning
<1>6. CASE p >= n
  <2>1. text[p] = NL
    BY <1>3, <1>6 DEF IsNumber
  <2>2. num' = num
    BY <1>1, <1>2, <2>1, NoMore
  <2>3. num' = Value(text, 1, n, 16)
    BY <1>3, <1>4, <1>6, <2>2 DEF Passed, Meaning
  <2> QED BY <1>3, <1>6, <2>3
<1> QED BY <1>3, <1>5, <1>6

LEMMA BinTurn ==
  ASSUME MeaningInv, BinDigit
  PROVE  BinInv'
<1> USE Widths
<1>1. /\ pc = "bin" /\ cnt > 0 /\ p' = p + 1
      /\ text[p] \in {NL, <<"dec", 0>>, <<"dec", 1>>}
      /\ num' = Wrap(IF text[p] = NL THEN num ELSE 2 * num + text[p][2])
      /\ text' = text /\ len' = len /\ pc' = pc
  BY DEF BinDigit, Turn
<1>2. TextInv /\ BinInv
  BY DEF MeaningInv
<1>3. p \in Nat /\ len \in Nat /\ p <= len /\ p >= 1
  BY <1>1, <1>2, TextBasics DEF TextInv, Looking
<1>5. ASSUME NEW n \in 1..len, IsNumber(1, n, 2), Meaning(1, n, 2) < Half, text[len] = NL
      PROVE  num' = Value(text, 1, IF p + 1 < n THEN p + 1 ELSE n, 2)
  <2>1. num = Meaning(1, Passed(n), 2)
    BY <1>1, <1>2, <1>3, <1>5 DEF BinInv
  <2>2. CASE p < n
    <3>1. num = Meaning(1, p, 2)
      BY <2>1, <2>2 DEF Passed
    <3>2. /\ text[p] # NL
          /\ Wrap(2 * Meaning(1, p, 2) + text[p][2]) = Meaning(1, p + 1, 2)
      BY <1>2, <1>3, <1>5, <2>2, OneMore
    <3>3. num' = Meaning(1, p + 1, 2)
      BY <1>1, <3>1, <3>2
    <3>4. (IF p + 1 < n THEN p + 1 ELSE n) = p + 1
      BY <1>3, <2>2
    <3> QED BY <3>3, <3>4 DEF Meaning
  <2>3. CASE p >= n
    <3>1. text[p] = NL
      BY <1>3, <1>5, <2>3 DEF IsNumber
    <3>2. num' = num
      BY <1>1, <1>2, <3>1, NoMore
    <3>3. num' = Value(text, 1, n, 2)
      BY <1>3, <2>1, <2>3, <3>2 DEF Passed, Meaning
    <3> QED BY <1>3, <2>3, <3>3
  <2> QED BY <1>3, <2>2, <2>3
<1> QED BY <1>1, <1>5 DEF BinInv, IsNumber, Meaning, Passed

(* A text that begins with a base letter is no decimal number.             *)
LEMMA LetterNoDecimal ==
  ASSUME TextInv, text[0] \in {X, B}, NEW n \in 0..len
  PROVE  ~IsNumber(0, n, 10)
<1> SUFFICES ASSUME IsNumber(0, n, 10) PROVE FALSE
  OBVIOUS
<1>1. n \in Nat /\ n > 0
  BY TextBasics DEF IsNumber
<1>2. text[0][1] \in {"dec", "low", "up"} /\ Figure(text[0]) < 10
  BY <1>1 DEF IsNumber
<1> QED BY <1>2 DEF Figure, X, B

(* The base letters, the newline and the binary figures differ.            *)
LEMMA Letters ==
  /\ X # B
  /\ {X, B} \cap {NL, <<"dec", 0>>, <<"dec", 1>>} = {}
  BY DEF X, B, NL

(* to_ascii leaves num alone, and nothing is converted yet.                *)
LEMMA AsciiMeaning ==
  ASSUME MeaningInv, AsciiDigit \/ AsciiPad
  PROVE  MeaningInv'
<1>1. TextInv'
  BY DigitStep, PadStep DEF MeaningInv
<1>2. pc \in {"ascii", "pad"} /\ pc' \in {"ascii", "pad", "begin"} /\ num' = num
  BY DEF AsciiDigit, AsciiPad
<1>3. BaseInv'
  BY <1>2 DEF MeaningInv, BaseInv
<1>4. DecInv' /\ HexInv' /\ BinInv' /\ DecimalRight' /\ PrefixRight'
  BY <1>2 DEF DecInv, HexInv, BinInv, DecimalRight, PrefixRight
<1> QED BY <1>1, <1>3, <1>4 DEF MeaningInv

(* The loops begin before the first figure.                                *)
LEMMA BeginMeaning ==
  ASSUME MeaningInv, Begin
  PROVE  MeaningInv'
<1> USE Widths
<1>1. TextInv /\ TextInv' /\ BaseInv
  BY BeginStep DEF MeaningInv
<1>2. /\ pc = "begin" /\ text' = text /\ len' = len /\ num' = num
      /\ p = 0 /\ num = 0 /\ cnt = len /\ len \in Nat /\ len <= NUMTMPBUF
  BY <1>1, TextBasics DEF Begin, TextInv, Fresh, BaseInv
<1>3. \/ text[0] \in {X, B} /\ len < 2 /\ pc' = "done"
      \/ text[0] = X /\ p' = 1 /\ pc' = "hex"
      \/ text[0] = B /\ p' = 1 /\ pc' = "bin" /\ len >= 2
      \/ text[0] \notin {X, B} /\ p' = 0 /\ pc' = "dec"
  BY <1>2 DEF Begin, Return
<1>4. BaseInv'
  BY <1>2, <1>3, Letters DEF BaseInv
<1>5. DecInv'
  <2> SUFFICES ASSUME pc' = "dec", NEW n \in 0..len, IsNumber(0, n, 10)
               PROVE  num' = Value(text, 0, IF p' < n THEN p' ELSE n, 10)
    BY <1>2 DEF DecInv, IsNumber, Meaning, Passed
  <2>1. n > 0 /\ p' = 0
    BY <1>3 DEF IsNumber
  <2>2. Value(text, 0, 0, 10) = 0
    BY ValueNone
  <2> QED BY <1>2, <2>1, <2>2
<1>6. HexInv'
  <2> SUFFICES ASSUME pc' = "hex", NEW n \in 1..len, IsNumber(1, n, 10)
               PROVE  num' = Value(text, 1, IF p' < n THEN p' ELSE n, 16)
    BY <1>2 DEF HexInv, IsNumber, Meaning, Passed
  <2>1. n > 1 /\ p' = 1
    BY <1>3 DEF IsNumber
  <2>2. Value(text, 1, 1, 16) = 0
    BY ValueNone
  <2> QED BY <1>2, <2>1, <2>2
<1>7. BinInv'
  <2> SUFFICES ASSUME pc' = "bin"
               PROVE  \A n \in 1..len : IsNumber(1, n, 2) =>
                        num' = Value(text, 1, IF p' < n THEN p' ELSE n, 2)
    BY <1>2 DEF BinInv, IsNumber, Meaning, Passed
  <2>1. p' = 1 /\ len >= 2
    BY <1>3
  <2>2. Value(text, 1, 1, 2) = 0
    BY ValueNone
  <2>3. ASSUME NEW n \in 1..len, IsNumber(1, n, 2)
        PROVE  num' = Value(text, 1, IF p' < n THEN p' ELSE n, 2)
    <3>1. n > 1
      BY <2>3 DEF IsNumber
    <3> QED BY <1>2, <2>1, <2>2, <3>1
  <2> QED BY <1>2, <2>1, <2>3
<1>8. DecimalRight'
  <2> SUFFICES ASSUME pc' = "done", NEW n \in 0..len
               PROVE  ~IsNumber(0, n, 10)
    BY <1>2 DEF DecimalRight, IsNumber, Meaning
  <2> QED BY <1>1, <1>3, LetterNoDecimal
<1>9. PrefixRight'
  BY <1>2, <1>3 DEF PrefixRight
<1> QED BY <1>1, <1>4, <1>5, <1>6, <1>7, <1>8, <1>9 DEF MeaningInv

LEMMA TurnMeaning ==
  ASSUME MeaningInv, HexDigit \/ BinDigit \/ DecDigit
  PROVE  MeaningInv'
<1>1. TextInv'
  BY LoopStep DEF MeaningInv
<1>2. /\ pc \in {"hex", "bin", "dec"} /\ pc' = pc /\ text' = text
      /\ HexDigit => pc = "hex"
      /\ BinDigit => pc = "bin"
      /\ DecDigit => pc = "dec"
  BY DEF HexDigit, BinDigit, DecDigit, Turn
<1>3. BaseInv'
  BY <1>2 DEF MeaningInv, BaseInv
<1>4. DecInv' /\ HexInv' /\ BinInv'
  <2>1. CASE HexDigit
    BY <1>2, <2>1, HexTurn DEF DecInv, BinInv
  <2>2. CASE BinDigit
    BY <1>2, <2>2, BinTurn DEF DecInv, HexInv
  <2>3. CASE DecDigit
    BY <1>2, <2>3, DecimalTurn DEF HexInv, BinInv
  <2> QED BY <2>1, <2>2, <2>3
<1>5. DecimalRight' /\ PrefixRight'
  BY <1>2 DEF DecimalRight, PrefixRight
<1> QED BY <1>1, <1>3, <1>4, <1>5 DEF MeaningInv

(* A binary number is refused for the stray byte only.                     *)
LEMMA RefusedMeaning ==
  ASSUME MeaningInv, BinRefused
  PROVE  MeaningInv'
<1> USE Widths
<1>1. TextInv /\ TextInv' /\ BaseInv
  BY LoopStep DEF MeaningInv
<1>2. /\ pc = "bin" /\ cnt > 0 /\ text[p] \notin {NL, <<"dec", 0>>, <<"dec", 1>>}
      /\ pc' = "done" /\ res' = -EINVAL /\ text' = text /\ len' = len
  BY DEF BinRefused, Return
<1>3. /\ text[0] = B /\ p \in Nat /\ p >= 1 /\ p <= len /\ len \in Nat /\ len <= NUMTMPBUF
      /\ text \in [0..NUMTMPBUF -> Char]
  BY <1>1, <1>2, TextBasics DEF TextInv, Looking, BaseInv
<1>4. DecimalRight'
  <2> SUFFICES ASSUME NEW n \in 0..len PROVE ~IsNumber(0, n, 10)
    BY <1>2 DEF DecimalRight, IsNumber, Meaning
  <2> QED BY <1>1, <1>3, LetterNoDecimal
<1>5. ASSUME NEW n \in 1..len, IsNumber(1, n, 2)
      PROVE  text[len] # NL
  <2>1. CASE p < n
    <3>1. text[p] \in Char /\ text[p][1] \in {"dec", "low", "up"} /\ Figure(text[p]) < 2
      BY <1>3, <1>5, <2>1 DEF IsNumber
    <3>2. text[p] \in {<<"dec", 0>>, <<"dec", 1>>}
      BY <3>1 DEF Figure, Char
    <3> QED BY <1>2, <3>2
  <2>2. CASE p >= n
    BY <1>2, <1>3, <1>5, <2>2 DEF IsNumber
  <2> QED BY <1>3, <2>1, <2>2
<1>6. PrefixRight'
  <2>1. text[0] # X
    BY <1>3, Letters
  <2> QED BY <1>2, <1>5, <2>1 DEF PrefixRight, IsNumber, Meaning
<1>7. BaseInv' /\ DecInv' /\ HexInv' /\ BinInv'
  BY <1>2 DEF BaseInv, DecInv, HexInv, BinInv
<1> QED BY <1>1, <1>4, <1>6, <1>7 DEF MeaningInv

(* At the end of a loop the whole number has been passed.                  *)
LEMMA EndMeaning ==
  ASSUME MeaningInv, NEW label \in {"hex", "bin", "dec"}, End(label)
  PROVE  MeaningInv'
<1> USE Widths
<1>1. TextInv /\ TextInv' /\ BaseInv /\ DecInv /\ HexInv /\ BinInv
  BY EndStep DEF MeaningInv
<1>2. /\ pc = label /\ cnt = 0 /\ pc' = "done" /\ res' = num /\ text' = text /\ len' = len
  BY DEF End, Return
<1>3. p \in Nat /\ len \in Nat
  BY <1>1, TextBasics
<1>4. \A n \in 0..len : p >= len => Passed(n) = n
  BY <1>3 DEF Passed
<1>5. DecimalRight'
  <2> SUFFICES ASSUME NEW n \in 0..len, IsNumber(0, n, 10), Meaning(0, n, 10) < Half
               PROVE  num = Meaning(0, n, 10)
    BY <1>2 DEF DecimalRight, IsNumber, Meaning
  <2>1. pc = "dec"
    BY <1>1, <1>2, LetterNoDecimal DEF BaseInv
  <2>2. p = len
    BY <1>1, <1>2, <1>3, <2>1 DEF TextInv, Looking
  <2> QED BY <1>1, <1>3, <1>4, <2>1, <2>2 DEF DecInv
<1>6. ASSUME text[0] = X PROVE PrefixRight'
  <2>1. pc # "bin" /\ pc # "dec" /\ text[0] # B
    BY <1>1, <1>6, Letters DEF BaseInv
  <2>2. p = len + 1 /\ pc = "hex"
    BY <1>1, <1>2, <1>3, <2>1 DEF TextInv, Looking
  <2>3. ASSUME NEW n \in 1..len, IsNumber(1, n, 10), Meaning(1, n, 16) < Half, text[len] = NL
        PROVE  num = Meaning(1, n, 16)
    <3>1. num = Meaning(1, Passed(n), 16)
      BY <1>1, <2>2, <2>3 DEF HexInv
    <3>2. Passed(n) = n
      BY <1>3, <1>4, <2>2
    <3> QED BY <3>1, <3>2
  <2> QED BY <1>2, <2>1, <2>3 DEF PrefixRight, IsNumber, Meaning
<1>7. ASSUME text[0] = B PROVE PrefixRight'
  <2>1. pc # "hex" /\ pc # "dec" /\ text[0] # X
    BY <1>1, <1>7, Letters DEF BaseInv
  <2>2. p = len + 1 /\ pc = "bin"
    BY <1>1, <1>2, <1>3, <2>1 DEF TextInv, Looking
  <2>3. ASSUME NEW n \in 1..len, IsNumber(1, n, 2), Meaning(1, n, 2) < Half, text[len] = NL
        PROVE  num = Meaning(1, n, 2)
    <3>1. num = Meaning(1, Passed(n), 2)
      BY <1>1, <2>2, <2>3 DEF BinInv
    <3>2. Passed(n) = n
      BY <1>3, <1>4, <2>2
    <3> QED BY <3>1, <3>2
  <2> QED BY <1>2, <2>1, <2>3 DEF PrefixRight, IsNumber, Meaning
<1>8. PrefixRight'
  BY <1>2, <1>6, <1>7 DEF PrefixRight
<1>9. BaseInv' /\ DecInv' /\ HexInv' /\ BinInv'
  BY <1>2 DEF BaseInv, DecInv, HexInv, BinInv
<1> QED BY <1>1, <1>5, <1>8, <1>9 DEF MeaningInv

LEMMA MeaningCorrect == Spec => []MeaningInv
<1>1. Init => MeaningInv
  <2> SUFFICES ASSUME Init PROVE MeaningInv
    OBVIOUS
  <2>1. pc \in {"begin", "ascii"} /\ num = 0
    BY DEF Init
  <2> QED
    BY <2>1, InitText DEF MeaningInv, BaseInv, DecInv, HexInv, BinInv, DecimalRight, PrefixRight
<1>2. MeaningInv /\ UNCHANGED vars => MeaningInv'
  <2> SUFFICES ASSUME MeaningInv, UNCHANGED vars PROVE MeaningInv'
    OBVIOUS
  <2>1. echo' \in BOOLEAN /\ echo' = echo
    BY Zenon DEF MeaningInv, TextInv, vars
  <2>2. Numbers' /\ Ascii' /\ Fresh' /\ Looking' /\ Behind'
    BY DEF MeaningInv, TextInv, Numbers, Ascii, Fresh, Looking, Behind, vars
  <2>3. BaseInv' /\ DecInv' /\ HexInv' /\ BinInv'
    BY DEF MeaningInv, BaseInv, DecInv, HexInv, BinInv, Passed, IsNumber, Meaning, vars
  <2>4. DecimalRight' /\ PrefixRight'
    BY <2>1 DEF MeaningInv, DecimalRight, PrefixRight, IsNumber, Meaning, vars
  <2> QED BY <2>1, <2>2, <2>3, <2>4 DEF MeaningInv, TextInv
<1>3. MeaningInv /\ [Next]_vars => MeaningInv'
  BY <1>2, AsciiMeaning, BeginMeaning, TurnMeaning, RefusedMeaning, EndMeaning DEF Next
<1> QED
  BY <1>1, <1>3, PTL DEF Spec

(* For every register width, buffer and text: convert_input turns a        *)
(* decimal number that fits in an int into the number it denotes, whatever *)
(* follows it in the buffer.                                               *)
THEOREM DecimalRightCorrect == Spec => []DecimalRight
<1>1. MeaningInv => DecimalRight
  BY DEF MeaningInv
<1> QED BY <1>1, MeaningCorrect, PTL

(* For every register width, buffer and text: convert_input turns a number *)
(* after x or b that fits and has no figures above 9 into the number it    *)
(* denotes if the byte behind it is a newline, and refuses a binary one if *)
(* that byte is neither that nor a binary figure.                          *)
THEOREM PrefixRightCorrect == Spec => []PrefixRight
<1>1. MeaningInv => PrefixRight
  BY DEF MeaningInv
<1> QED BY <1>1, MeaningCorrect, PTL

-----------------------------------------------------------------------------
(* What is read from a register and written back.                          *)

HexChar == ({"dec"} \X (0..9)) \cup ({"up"} \X (0..5))

(* q[k] is what is left of the number n when the characters from k on have *)
(* been made of it.                                                        *)
Shown(q, t, k, n) ==
  /\ q \in [k..Digits -> Nat] /\ q[Digits] = n
  /\ \A i \in k..Digits - 1 : q[i] = q[i + 1] \div 16 /\ t[i] = AsciiChar(q[i + 1] % 16)

EchoAscii ==
  pc \in {"ascii", "pad"} =>
    /\ len = Digits + 1
    /\ pc = "pad" => val = 0
    /\ \E q : Shown(q, text, j, reg) /\ q[j] = val

(* The text is that of the register, in hexadecimal.                       *)
EchoText ==
  echo /\ pc \notin {"ascii", "pad"} =>
    /\ pc \in {"begin", "dec", "done"}
    /\ len = Digits + 1 /\ text[Digits] = NL
    /\ \A k \in 0..Digits - 1 : text[k] \in HexChar
    /\ Value(text, 0, Digits, 16) = reg

(* num, which takes the decimal figures in base 10, is what the text says  *)
(* as long as that is one figure, and less from then on; and it is below   *)
(* half of what k hexadecimal digits can say, so it does not wrap.         *)
Lags(x, k) ==
  LET w == Value(text, 0, k, 16) IN
  /\ x \in Nat
  /\ (x = w /\ w < 10) \/ (x < w /\ w >= 10)
  /\ k <= 1 => x <= 9
  /\ k >= 2 => 2 * x + 2 <= Power[k]

EchoInv ==
  /\ TextInv /\ BaseInv /\ EchoAscii /\ EchoText
  /\ echo /\ pc = "dec" => Lags(num, Passed(Digits))
  /\ echo /\ pc = "done" => (res = reg <=> reg < 10)

(* A power of 16 is at most the last one.                                  *)
LEMMA PowerGrows == ASSUME NEW k \in 0..Digits PROVE Power[k] <= Mod
<1> USE Widths
<1> DEFINE S == {i \in Nat : i <= Digits => Power[Digits - i] <= Power[Digits]}
<1>1. 0 \in S
  OBVIOUS
<1>2. ASSUME NEW i \in S PROVE i + 1 \in S
  <2> SUFFICES ASSUME i + 1 <= Digits PROVE Power[Digits - (i + 1)] <= Power[Digits]
    OBVIOUS
  <2>1. Digits - i \in 1..Digits /\ (Digits - i) - 1 = Digits - (i + 1)
    OBVIOUS
  <2>2. Power[Digits - i] = 16 * Power[Digits - (i + 1)]
    BY <2>1, TextAssumption
  <2>3. Power[Digits - i] \in Nat /\ Power[Digits - (i + 1)] \in Nat /\ Power[Digits] \in Nat
    BY <2>1
  <2>4. Power[Digits - i] <= Power[Digits]
    OBVIOUS
  <2> QED BY <2>2, <2>3, <2>4
<1>3. S = Nat
  <2> HIDE DEF S
  <2>1. S \in SUBSET Nat
    BY DEF S
  <2> QED BY <1>1, <1>2, <2>1, SetInduction
<1>4. Digits - k \in Nat /\ Digits - (Digits - k) = k /\ Digits - k <= Digits
  OBVIOUS
<1>5. Digits - k \in S
  <2> HIDE DEF S
  <2> QED BY <1>3, <1>4
<1> QED BY <1>4, <1>5 DEF Mod

LEMMA PowerNext ==
  ASSUME NEW k \in 0..Digits - 1
  PROVE  Power[k + 1] = 16 * Power[k] /\ Power[k] \in Nat /\ Power[k + 1] \in Nat
<1>1. k + 1 \in 1..Digits /\ (k + 1) - 1 = k /\ k \in 0..Digits /\ k + 1 \in 0..Digits
  BY Widths
<1>2. Power[k + 1] = 16 * Power[(k + 1) - 1]
  BY <1>1, TextAssumption
<1> QED BY <1>1, <1>2, Widths

(* One more hexadecimal digit.                                             *)
LEMMA ValueNext ==
  ASSUME NEW t, NEW k \in 0..Digits - 1
  PROVE  Value(t, 0, k + 1, 16) = 16 * Value(t, 0, k, 16) + Figure(t[k])
<1> DEFINE m == k + 1
<1>1. m \in 0..NUMTMPBUF /\ m # 0 /\ m - 1 = k
  BY Widths
<1> HIDE DEF m
<1>2. Value(t, 0, m, 16) = 16 * Value(t, 0, m - 1, 16) + Figure(t[m - 1])
  BY <1>1, ValueSteps
<1> QED BY <1>1, <1>2 DEF m

(* Characters made of the remainders of a number mean that number.         *)
LEMMA ShownValue ==
  ASSUME NEW t, NEW n, NEW q, Shown(q, t, 0, n), q[0] = 0
  PROVE  /\ Value(t, 0, Digits, 16) = n
         /\ \A k \in 0..Digits - 1 : t[k] \in HexChar
<1> USE Widths
<1>1. ASSUME NEW i \in 0..Digits - 1
      PROVE  /\ q[i + 1] \in Nat /\ q[i] = q[i + 1] \div 16 /\ t[i] \in HexChar
             /\ Figure(t[i]) = q[i + 1] % 16
  <2>1. q[i + 1] \in Nat /\ q[i] = q[i + 1] \div 16 /\ t[i] = AsciiChar(q[i + 1] % 16)
    BY DEF Shown
  <2>2. q[i + 1] % 16 \in 0..15
    BY <2>1
  <2> DEFINE r == q[i + 1] % 16
  <2> HIDE DEF r
  <2>3. AsciiChar(r) \in HexChar /\ Figure(AsciiChar(r)) = r
    BY <2>2 DEF r, AsciiChar, HexChar, Figure
  <2> QED BY <2>1, <2>3 DEF r
<1> DEFINE S == {k \in Nat : k <= Digits => Value(t, 0, k, 16) = q[k]}
<1>2. 0 \in S
  BY ValueNone
<1>3. ASSUME NEW k \in S PROVE k + 1 \in S
  <2> SUFFICES ASSUME k + 1 <= Digits PROVE Value(t, 0, k + 1, 16) = q[k + 1]
    OBVIOUS
  <2>1. k \in 0..Digits - 1 /\ Value(t, 0, k, 16) = q[k]
    OBVIOUS
  <2>2. Value(t, 0, k + 1, 16) = 16 * Value(t, 0, k, 16) + Figure(t[k])
    BY <2>1, ValueNext
  <2>3. /\ q[k + 1] \in Nat /\ q[k] = q[k + 1] \div 16
        /\ Figure(t[k]) = q[k + 1] % 16
    BY <1>1, <2>1
  <2> QED BY <2>1, <2>2, <2>3
<1>4. S = Nat
  <2> HIDE DEF S
  <2>1. S \in SUBSET Nat
    BY DEF S
  <2> QED BY <1>2, <1>3, <2>1, SetInduction
<1>5. Digits \in S
  <2> HIDE DEF S
  <2> QED BY <1>4
<1> QED BY <1>1, <1>5 DEF Shown

(* A turn of to_ascii takes one more remainder.                            *)
LEMMA DigitEcho ==
  ASSUME EchoInv, AsciiDigit
  PROVE  EchoInv'
<1> USE Widths
<1>1. TextInv /\ TextInv' /\ BaseInv /\ EchoAscii
  BY DigitStep DEF EchoInv
<1>2. /\ pc = "ascii" /\ j' = j - 1 /\ val' = val \div 16
      /\ pc' = IF val' = 0 THEN "pad" ELSE "ascii"
      /\ text' = [text EXCEPT ![j - 1] = AsciiChar(val % 16)]
      /\ reg' = reg /\ len' = len /\ num' = num
  BY DEF AsciiDigit
<1>3. j \in 1..Digits /\ val \in Nat /\ text \in [0..NUMTMPBUF -> Char]
  BY <1>1, <1>2, TextBasics DEF TextInv, Numbers, Ascii
<1>4. PICK q : Shown(q, text, j, reg) /\ q[j] = val
  BY <1>1, <1>2 DEF EchoAscii
<1> DEFINE r == [i \in j - 1..Digits |-> IF i = j - 1 THEN val \div 16 ELSE q[i]]
<1>5. r \in [j - 1..Digits -> Nat] /\ r[Digits] = reg /\ r[j - 1] = val'
  BY <1>2, <1>3, <1>4 DEF Shown
<1>6. ASSUME NEW i \in j - 1..Digits - 1
      PROVE  r[i] = r[i + 1] \div 16 /\ text'[i] = AsciiChar(r[i + 1] % 16)
  <2>1. CASE i = j - 1
    BY <1>2, <1>3, <1>4, <2>1
  <2>2. CASE i # j - 1
    <3>1. i \in j..Digits - 1
      BY <1>3, <2>2
    <3>2. r[i] = q[i] /\ r[i + 1] = q[i + 1]
      BY <1>3, <3>1
    <3>3. text'[i] = text[i]
      BY <1>2, <1>3, <2>2, <3>1
    <3> HIDE DEF r
    <3> QED BY <1>4, <3>1, <3>2, <3>3 DEF Shown
  <2> QED BY <2>1, <2>2
<1>7. EchoAscii'
  <2> HIDE DEF r
  <2>1. Shown(r, text', j', reg') /\ r[j'] = val'
    BY <1>2, <1>5, <1>6 DEF Shown
  <2>2. \E u : Shown(u, text', j', reg') /\ u[j'] = val'
    BY <2>1
  <2> QED BY <1>1, <1>2, <2>2 DEF EchoAscii
<1>8. BaseInv' /\ pc' \in {"ascii", "pad"}
  BY <1>1, <1>2 DEF BaseInv
<1> QED BY <1>1, <1>7, <1>8 DEF EchoInv, EchoText

(* The zeros in front are remainders of nothing.                           *)
LEMMA PadEcho ==
  ASSUME EchoInv, AsciiPad
  PROVE  EchoInv'
<1> USE Widths
<1>1. TextInv /\ TextInv' /\ BaseInv /\ EchoAscii
  BY PadStep DEF EchoInv
<1>2. /\ pc = "pad" /\ pc' = "begin"
      /\ text' = [k \in 0..NUMTMPBUF |-> IF k < j THEN <<"dec", 0>>
                                        ELSE IF k = Digits THEN NL ELSE text[k]]
      /\ reg' = reg /\ len' = len /\ num' = num
  BY DEF AsciiPad
<1>3. j \in 0..Digits /\ val = 0 /\ len = Digits + 1
  BY <1>1, <1>2 DEF TextInv, Numbers, EchoAscii
<1>4. PICK q : Shown(q, text, j, reg) /\ q[j] = 0
  BY <1>1, <1>2, <1>3 DEF EchoAscii
<1> DEFINE r == [i \in 0..Digits |-> IF i < j THEN 0 ELSE q[i]]
<1>5. r \in [0..Digits -> Nat] /\ r[Digits] = reg /\ r[0] = 0
  BY <1>3, <1>4 DEF Shown
<1>6. ASSUME NEW i \in 0..Digits - 1
      PROVE  r[i] = r[i + 1] \div 16 /\ text'[i] = AsciiChar(r[i + 1] % 16)
  <2>1. CASE i < j
    <3>1. r[i] = 0 /\ r[i + 1] = 0
      BY <1>3, <1>4, <2>1
    <3>2. text'[i] = <<"dec", 0>>
      BY <1>2, <2>1
    <3>3. 0 \div 16 = 0 /\ 0 % 16 = 0 /\ AsciiChar(0) = <<"dec", 0>>
      BY DEF AsciiChar
    <3> HIDE DEF r
    <3> QED BY <3>1, <3>2, <3>3
  <2>2. CASE i >= j
    <3>1. i \in j..Digits - 1
      BY <1>3, <2>2
    <3>2. r[i] = q[i] /\ r[i + 1] = q[i + 1]
      BY <1>3, <3>1
    <3>3. text'[i] = text[i]
      BY <1>2, <1>3, <3>1
    <3> HIDE DEF r
    <3> QED BY <1>4, <3>1, <3>2, <3>3 DEF Shown
  <2> QED BY <1>3, <2>1, <2>2
<1>7. Shown(r, text', 0, reg)
  <2> HIDE DEF r
  <2> QED BY <1>5, <1>6 DEF Shown
<1>8. /\ Value(text', 0, Digits, 16) = reg
      /\ \A k \in 0..Digits - 1 : text'[k] \in HexChar
  <2> HIDE DEF r
  <2> QED BY <1>5, <1>7, ShownValue
<1>9. text'[Digits] = NL
  BY <1>2, <1>3
<1>10. EchoText'
  BY <1>2, <1>3, <1>8, <1>9 DEF EchoText
<1>11. BaseInv' /\ EchoAscii'
  BY <1>1, <1>2 DEF BaseInv, EchoAscii
<1> QED BY <1>1, <1>2, <1>10, <1>11 DEF EchoInv

(* What is written back has no base letter.                                *)
LEMMA BeginEcho ==
  ASSUME EchoInv, Begin
  PROVE  EchoInv'
<1> USE Widths
<1>1. TextInv /\ TextInv' /\ BaseInv /\ BaseInv' /\ EchoText
  <2>1. TextInv /\ TextInv' /\ BaseInv /\ EchoText
    BY BeginStep DEF EchoInv
  <2>2. BaseInv'
    BY Letters DEF Begin, Return, BaseInv
  <2> QED BY <2>1, <2>2
<1>2. /\ pc = "begin" /\ text' = text /\ len' = len /\ num' = num /\ reg' = reg
      /\ echo' = echo /\ p = 0 /\ num = 0
      /\ pc' \in {"done", "hex", "bin", "dec"}
      /\ text[0] \notin {X, B} => pc' = "dec" /\ p' = 0
  BY <1>1 DEF Begin, Return, TextInv, Fresh, BaseInv
<1>3. echo => text[0] \notin {X, B}
  <2>1. echo => text[0] \in HexChar
    BY <1>1, <1>2 DEF EchoText
  <2> QED BY <2>1 DEF HexChar, X, B
<1>4. echo => pc' = "dec" /\ p' = 0
  BY <1>2, <1>3
<1>5. EchoText'
  BY <1>1, <1>2, <1>4 DEF EchoText
<1>6. EchoAscii'
  BY <1>2 DEF EchoAscii
<1>7. ASSUME echo, pc' = "dec" PROVE Lags(num, Passed(Digits))'
  <2>1. p' = 0
    BY <1>4, <1>7
  <2>2. Value(text', 0, 0, 16) = 0
    BY ValueNone
  <2>3. Passed(Digits)' = 0
    BY <2>1 DEF Passed
  <2> QED BY <1>2, <2>1, <2>2 DEF Lags, Passed
<1> QED BY <1>1, <1>2, <1>4, <1>5, <1>6, <1>7 DEF EchoInv

(* One more hexadecimal digit, read as a decimal one or passed over.       *)
LEMMA LagStep ==
  ASSUME TextInv, Digits >= 2, NEW k \in 0..Digits - 1, Lags(num, k), text[k] \in HexChar,
         NEW x, x = IF text[k][1] = "dec" THEN 10 * num + text[k][2] ELSE num
  PROVE  Lags(x, k + 1) /\ Wrap(x) = x
<1> USE Widths
<1> DEFINE w == Value(text, 0, k, 16)
           f == Figure(text[k])
<1>1. text \in [0..NUMTMPBUF -> Char] /\ k \in 0..NUMTMPBUF
  BY TextBasics
<1>2. w \in Nat
  BY <1>1, ValueNat
<1>3. Value(text, 0, k + 1, 16) = 16 * w + f
  BY ValueNext
<1>4. /\ f \in 0..15
      /\ f <= 9 => x = 10 * num + f
      /\ f > 9 => x = num
  <2>1. \/ text[k][1] = "dec" /\ text[k][2] \in 0..9
        \/ text[k][1] = "up" /\ text[k][2] \in 0..5
    BY DEF HexChar
  <2> QED BY <2>1 DEF Figure
<1>5. /\ num \in Nat
      /\ (num = w /\ w < 10) \/ (num < w /\ w >= 10)
      /\ k <= 1 => num <= 9
      /\ k >= 2 => 2 * num + 2 <= Power[k]
  BY DEF Lags
<1>6. Power[k + 1] = 16 * Power[k] /\ Power[k] \in Nat /\ Power[k + 1] \in Nat
  BY PowerNext
<1>7. Power[2] = 256
  <2>1. Power[0] = 1 /\ Power[1] = 16 * Power[1 - 1] /\ Power[2] = 16 * Power[2 - 1]
    BY TextAssumption
  <2> QED BY <2>1
<1>8. Power[2] <= Mod /\ Power[k + 1] <= Mod
  BY PowerGrows
<1> HIDE DEF w, f
<1>9. x \in Nat /\ ((x = 16 * w + f /\ 16 * w + f < 10) \/ (x < 16 * w + f /\ 16 * w + f >= 10))
  BY <1>2, <1>4, <1>5
<1>10. k + 1 <= 1 => x <= 9
  <2> SUFFICES ASSUME k = 0 PROVE x <= 9
    OBVIOUS
  <2>1. w = 0
    BY ValueNone DEF w
  <2> QED BY <1>4, <1>5, <2>1
<1>11. k + 1 >= 2 => 2 * x + 2 <= Power[k + 1]
  <2>1. CASE k = 1
    BY <1>4, <1>5, <1>7, <2>1
  <2>2. CASE k >= 2
    BY <1>4, <1>5, <1>6, <2>2
  <2> QED BY <2>1, <2>2
<1>12. x < Half
  <2>1. CASE k = 0
    BY <1>7, <1>8, <1>9, <1>10, <2>1
  <2>2. CASE k >= 1
    BY <1>6, <1>8, <1>9, <1>11, <2>2
  <2> QED BY <2>1, <2>2
<1>13. Wrap(x) = x
  BY <1>9, <1>12, WrapFits
<1>14. Lags(x, k + 1)
  BY <1>3, <1>9, <1>10, <1>11 DEF Lags
<1> QED BY <1>13, <1>14

(* The rest of convert_input, for a text that was read from a register.    *)
LEMMA TurnEcho ==
  ASSUME EchoInv, Digits >= 2, HexDigit \/ BinDigit \/ BinRefused \/ DecDigit
  PROVE  EchoInv'
<1> USE Widths
<1>1. TextInv /\ TextInv' /\ BaseInv /\ EchoText
  BY LoopStep DEF EchoInv
<1>2. /\ pc \in {"hex", "bin", "dec"} /\ text' = text /\ len' = len /\ reg' = reg /\ echo' = echo
      /\ pc' \in {pc, "done"}
      /\ pc = "dec" => DecDigit /\ pc' = pc
  BY DEF HexDigit, BinDigit, BinRefused, DecDigit, Turn, Return
<1>3. BaseInv' /\ EchoAscii'
  BY <1>1, <1>2 DEF BaseInv, EchoAscii
<1>4. echo => pc = "dec"
  BY <1>1, <1>2 DEF EchoText
<1>5. EchoText'
  BY <1>1, <1>2, <1>4 DEF EchoText
<1>6. ASSUME echo PROVE Lags(num, Passed(Digits))'
  <2>1. /\ pc = "dec" /\ cnt > 0 /\ p' = p + 1
        /\ num' = Wrap(IF text[p][1] = "dec" THEN 10 * num + text[p][2] ELSE num)
    BY <1>2, <1>4, <1>6 DEF DecDigit, Turn
  <2>2. /\ len = Digits + 1 /\ text[Digits] = NL
        /\ \A k \in 0..Digits - 1 : text[k] \in HexChar
        /\ Lags(num, Passed(Digits))
    BY <1>1, <1>6, <2>1 DEF EchoInv, EchoText
  <2>3. p \in Nat /\ p <= Digits
    BY <1>1, <2>1, <2>2, TextBasics DEF TextInv, Looking
  <2>4. CASE p < Digits
    <3>1. p \in 0..Digits - 1 /\ Lags(num, p) /\ text[p] \in HexChar
      BY <2>2, <2>3, <2>4 DEF Passed
    <3> DEFINE x == IF text[p][1] = "dec" THEN 10 * num + text[p][2] ELSE num
    <3>2. Lags(x, p + 1) /\ Wrap(x) = x
      <4> HIDE DEF x
      <4>1. x = IF text[p][1] = "dec" THEN 10 * num + text[p][2] ELSE num
        BY DEF x
      <4> QED BY <1>1, <3>1, <4>1, LagStep
    <3>3. Lags(num', p + 1)
      BY <2>1, <3>2
    <3>4. (IF p + 1 < Digits THEN p + 1 ELSE Digits) = p + 1
      BY <2>3, <2>4
    <3> QED BY <1>2, <2>1, <3>3, <3>4 DEF Lags, Passed
  <2>5. CASE p = Digits
    <3>1. text[p][1] # "dec"
      BY <2>2, <2>5 DEF NL
    <3>2. num' = num
      BY <1>1, <2>1, <3>1, NoMore
    <3>3. Passed(Digits) = Digits /\ Passed(Digits)' = Digits
      BY <2>1, <2>5 DEF Passed
    <3> QED BY <1>2, <2>1, <2>2, <2>5, <3>2 DEF Lags, Passed
  <2> QED BY <2>3, <2>4, <2>5
<1>7. echo => pc' = "dec"
  BY <1>2, <1>4
<1> QED BY <1>1, <1>2, <1>3, <1>5, <1>6, <1>7 DEF EchoInv

LEMMA EndEcho ==
  ASSUME EchoInv, NEW label \in {"hex", "bin", "dec"}, End(label)
  PROVE  EchoInv'
<1> USE Widths
<1>1. TextInv /\ TextInv' /\ BaseInv /\ EchoText
  BY EndStep DEF EchoInv
<1>2. /\ pc = label /\ cnt = 0 /\ pc' = "done" /\ res' = num
      /\ text' = text /\ len' = len /\ reg' = reg /\ echo' = echo
  BY DEF End, Return
<1>3. BaseInv' /\ EchoAscii'
  BY <1>2 DEF BaseInv, EchoAscii
<1>4. EchoText'
  BY <1>1, <1>2 DEF EchoText
<1>5. ASSUME echo PROVE num = reg <=> reg < 10
  <2>1. pc = "dec" /\ len = Digits + 1 /\ Value(text, 0, Digits, 16) = reg
    BY <1>1, <1>2, <1>5 DEF EchoText
  <2>2. p = Digits + 1
    BY <1>1, <1>2, <2>1, TextBasics DEF TextInv, Looking
  <2>3. Lags(num, Digits)
    BY <1>5, <2>1, <2>2 DEF EchoInv, Passed
  <2>4. reg \in Nat
    BY <1>1 DEF TextInv, Numbers
  <2> QED BY <2>1, <2>3, <2>4 DEF Lags
<1> QED BY <1>1, <1>2, <1>3, <1>4, <1>5 DEF EchoInv

LEMMA InitEcho == Init => EchoInv
<1> SUFFICES ASSUME Init PROVE EchoInv
  OBVIOUS
<1> USE Widths
<1>1. TextInv
  BY InitText
<1>2. /\ pc \in {"begin", "ascii"} /\ num = 0
      /\ pc = "begin" => ~echo
      /\ pc = "ascii" => len = Digits + 1 /\ val = reg /\ j = Digits /\ reg \in Nat
  BY DEF Init
<1>3. EchoAscii
  <2> SUFFICES ASSUME pc = "ascii"
               PROVE  \E q : Shown(q, text, j, reg) /\ q[j] = val
    BY <1>2 DEF EchoAscii
  <2> DEFINE q == [i \in Digits..Digits |-> reg]
  <2>1. Shown(q, text, j, reg) /\ q[j] = val
    BY <1>2 DEF Shown
  <2> HIDE DEF q
  <2> QED BY <2>1
<1>4. BaseInv /\ EchoText
  BY <1>2 DEF BaseInv, EchoText
<1> QED BY <1>1, <1>2, <1>3, <1>4 DEF EchoInv

LEMMA EchoCorrect == ASSUME Digits >= 2 PROVE Spec => []EchoInv
<1>1. EchoInv /\ UNCHANGED vars => EchoInv'
  <2> SUFFICES ASSUME EchoInv, UNCHANGED vars PROVE EchoInv'
    OBVIOUS
  <2>1. echo' \in BOOLEAN /\ echo' = echo
    BY Zenon DEF EchoInv, TextInv, vars
  <2>2. Numbers' /\ Ascii' /\ Fresh' /\ Looking' /\ Behind'
    BY DEF EchoInv, TextInv, Numbers, Ascii, Fresh, Looking, Behind, vars
  <2>3. BaseInv' /\ EchoAscii'
    BY DEF EchoInv, BaseInv, EchoAscii, vars
  <2>4. EchoText'
    BY <2>1 DEF EchoInv, EchoText, vars
  <2>5. /\ echo' /\ pc' = "dec" => Lags(num, Passed(Digits))'
        /\ echo' /\ pc' = "done" => (res' = reg' <=> reg' < 10)
    BY <2>1 DEF EchoInv, Lags, Passed, vars
  <2> QED BY <2>1, <2>2, <2>3, <2>4, <2>5 DEF EchoInv, TextInv
<1>2. EchoInv /\ [Next]_vars => EchoInv'
  BY <1>1, DigitEcho, PadEcho, BeginEcho, TurnEcho, EndEcho DEF Next
<1> QED
  BY <1>2, InitEcho, PTL DEF Spec

(* For registers of two and more hexadecimal digits: reading one gives the *)
(* hexadecimal digits of its value and a newline, and writing that back    *)
(* stores the same value exactly if it is below ten.                       *)
THEOREM EchoKeepsCorrect == ASSUME Digits >= 2 PROVE Spec => []EchoKeeps
<1>1. ASSUME EchoInv, echo, pc \in {"begin", "dec", "done"} PROVE IsNumber(0, Digits, 16)
  <2>1. /\ len = Digits + 1 /\ text[Digits] = NL
        /\ \A k \in 0..Digits - 1 : text[k] \in HexChar
    BY <1>1 DEF EchoInv, EchoText
  <2>2. \A c \in HexChar : c[1] \in {"dec", "low", "up"} /\ Figure(c) < 16
    BY DEF HexChar, Figure
  <2> QED BY Widths, <2>1, <2>2 DEF IsNumber
<1>2. EchoInv => EchoKeeps
  BY <1>1 DEF EchoInv, EchoText, EchoKeeps, AsciiRight, Meaning
<1> QED BY <1>2, EchoCorrect, PTL
==============================================================================
