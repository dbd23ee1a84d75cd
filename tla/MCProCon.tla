------------------------------ MODULE MCProCon ------------------------------
(* Two producers and two consumers, as in the program, on a small stack.   *)
EXTENDS ProCon
CONSTANTS p1, p2, c1, c2
=============================================================================
