------------------------------ MODULE MCSerial ------------------------------
(* TLC instances of SemaphoreClients.                                      *)
EXTENDS SemaphoreClients, TLC

CONSTANTS t1, t2, t3

\* Two threads of equal OS priority and one that the scheduler prefers.
MCOSPrio == (t1 :> 120) @@ (t2 :> 120) @@ (t3 :> 100)

\* Arguments on both sides of every check of the calls.
MCIds == {-1, 0, 1}
MCStartValues == {-1, 0}
MCPriorities == {-5, 9}

\* The two threads of equal OS priority are interchangeable.
MCSymmetry == Permutations({t1, t2})
=============================================================================
