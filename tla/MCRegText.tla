------------------------------ MODULE MCRegText ------------------------------
(* RegText for TLC: registers of 8 bits, texts of up to 3 characters and a  *)
(* stray one behind them.                                                   *)
EXTENDS RegText

MCPower == [k \in 0..Digits |-> 16^k]

MCChars == {<<"dec", 0>>, <<"dec", 1>>, <<"dec", 9>>, <<"low", 0>>,
            <<"low", 1>>, <<"up", 5>>, <<"up", 6>>, <<"x", 0>>, <<"nl", 0>>,
            <<"other", 0>>}
==============================================================================
