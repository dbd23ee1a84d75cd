----------------------------- MODULE MCMonkeys -----------------------------
(* TLC instance of TrainingMonkeys: three monkeys at a time, two balls.    *)
EXTENDS TrainingMonkeys
CONSTANTS m1, m2, m3
=============================================================================
