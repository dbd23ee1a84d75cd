---------------------------- MODULE BoundedStack ----------------------------
(***************************************************************************)
(* What the driver of hw1 promises: a stack with Limit places, pushed,     *)
(* popped and emptied by calls that take effect one at a time, each at one *)
(* moment between its beginning and its return.                            *)
(***************************************************************************)
EXTENDS Integers, Sequences

CONSTANTS Pushers, Poppers, Emptiers, Values, Limit, FullMark, EmptyMark

VARIABLES
    items,   \* the stack, its top last
    phase,   \* of each caller: "idle", "asked" or "told"
    word     \* what it asked with, and then what it was told

stackVars == <<items, phase, word>>

Callers == Pushers \cup Poppers \cup Emptiers

StackInit ==
    /\ items = << >>
    /\ phase = [p \in Callers |-> "idle"]
    /\ word = [p \in Callers |-> 0]

Ask(p, v) ==
    /\ phase[p] = "idle"
    /\ phase' = [phase EXCEPT ![p] = "asked"]
    /\ word' = [word EXCEPT ![p] = v]
    /\ UNCHANGED items

Tell(p, v) ==
    /\ phase[p] = "asked"
    /\ phase' = [phase EXCEPT ![p] = "told"]
    /\ word' = [word EXCEPT ![p] = v]

Push(p) ==
    /\ p \in Pushers /\ Len(items) < Limit
    /\ items' = Append(items, word[p])
    /\ Tell(p, Len(items) + 1)

PushRefused(p) == p \in Pushers /\ Len(items) = Limit /\ Tell(p, FullMark) /\ UNCHANGED items

Pop(p) ==
    /\ p \in Poppers /\ items # << >>
    /\ items' = SubSeq(items, 1, Len(items) - 1)
    /\ Tell(p, items[Len(items)])

PopRefused(p) == p \in Poppers /\ items = << >> /\ Tell(p, EmptyMark) /\ UNCHANGED items

Empty(p) == p \in Emptiers /\ items' = << >> /\ Tell(p, 0)

Return(p) ==
    /\ phase[p] = "told"
    /\ phase' = [phase EXCEPT ![p] = "idle"]
    /\ word' = [word EXCEPT ![p] = 0]
    /\ UNCHANGED items

\* The driver is removed while nobody is in a call.
Reset ==
    /\ \A p \in Callers : phase[p] = "idle"
    /\ items' = << >>
    /\ UNCHANGED <<phase, word>>

\* Every step of a caller shows in its phase.
StackNext ==
    \/ \E p \in Callers :
           /\ phase'[p] # phase[p]
           /\ \/ \E v \in Values \cup {0} : Ask(p, v)
              \/ Push(p) \/ PushRefused(p) \/ Pop(p) \/ PopRefused(p) \/ Empty(p) \/ Return(p)
    \/ Reset

StackSpec == StackInit /\ [][StackNext]_stackVars
=============================================================================
