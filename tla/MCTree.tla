------------------------------- MODULE MCTree -------------------------------
(* TLC instance of RedBlackTree: the array of main, and every order of one *)
(* to N other values.                                                      *)
EXTENDS RedBlackTree
CONSTANT N
OwnArray == <<27, 19, 34, 65, 37, 7, 49, 2, 98>>
Orders(n) == {s \in [1 .. n -> 1 .. n] : IsInjective(s)}
MCInputs == {OwnArray} \cup UNION {Orders(n) : n \in 1 .. N}
=============================================================================
