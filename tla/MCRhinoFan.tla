----------------------------- MODULE MCRhinoFan -----------------------------
(* rhino_fan runs with every option, and bytes that are no configuration.  *)
EXTENDS RhinoFan, TLC

None == [fan |-> 1, mode |-> NULL, speed |-> NULL, ppr |-> NULL, thr |-> NULL, clear |-> FALSE]

MCArgs == {[None EXCEPT !.mode = "d"],
           [None EXCEPT !.fan = 2, !.mode = "a", !.ppr = 4],
           [None EXCEPT !.speed = 271, !.thr = 12799, !.clear = TRUE],
           [None EXCEPT !.fan = 2, !.thr = 12800],
           [None EXCEPT !.speed = 16]}

(* A speed of 0 and a duty cycle of 15, read as a configuration. *)
MCStray == {[clear |-> FALSE, mode |-> "a", ppr |-> [f \in Fans |-> 0]],
            [clear |-> FALSE, mode |-> "a", ppr |-> [f \in Fans |-> IF f = 1 THEN 3 ELSE 1]]}
=============================================================================
