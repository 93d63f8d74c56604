--------------------------- MODULE MCRhinoConfigure ---------------------------
(* RhinoConfigure for TLC: payloads of up to three pages of two bytes.       *)
EXTENDS RhinoConfigure

Bits(len) == [len |-> len, avail |-> len, valid |-> TRUE]

WithInvalid == {Bits(3), [Bits(3) EXCEPT !.valid = FALSE]}

(* Less than a page, more than one, whole pages, not valid, truncated.       *)
AnyPayload == {Bits(1), Bits(3), Bits(4), [Bits(3) EXCEPT !.valid = FALSE],
               [Bits(5) EXCEPT !.avail = 3]}
===============================================================================
