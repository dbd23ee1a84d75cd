------------------------------- MODULE MCTest -------------------------------
(* TLC instance of SemaphoreTest: three workers instead of eight.          *)
EXTENDS SemaphoreTest

MCThreads == 0 .. MAX_THREAD
\* Three entries of the test's priority array, its tie among them, and a tie of OS priorities.
MCpriority == [t \in Workers |-> IF t = 2 THEN 30 ELSE 60]
MCOSPrio == [t \in Threads |-> IF t = 2 THEN 100 ELSE 120]
=============================================================================
