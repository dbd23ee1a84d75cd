---------------------------- MODULE MCReadWrite ----------------------------
(* Three readers, as in the program, and two of its three writers.         *)
EXTENDS ReadWrite
CONSTANTS r1, r2, r3, w1, w2
=============================================================================
