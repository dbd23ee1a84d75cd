---------------------------- MODULE RedBlackTree ----------------------------
(***************************************************************************)
(* hw4/hw4_redblacktree.c: a red-black tree keyed by virtual run time.     *)
(* main inserts the values of an array and then takes the leftmost node    *)
(* out until the tree is empty.  Memory is a function from the nodes that  *)
(* were allocated to their fields; 0 is the NULL pointer.  Following NULL  *)
(* ends the program with a fault.                                          *)
(***************************************************************************)
EXTENDS Integers, Sequences, FiniteSets, SequencesExt

CONSTANT Inputs   \* the arrays that main is compiled with

(* "duplicated, not supported": the values of an array are distinct.       *)
ASSUME InputsAssumption ==
    \A vrt \in Inputs : Len(vrt) > 0 /\ IsInjective(vrt) /\ Range(vrt) \subseteq Nat

VARIABLES
    vrt,      \* the array
    mem,      \* the nodes
    root,
    i,        \* how many values have been inserted
    phase,    \* "insert", "drain", "done", or "fault" after following NULL
    printed,  \* what main has printed: pids and values
    astray    \* some call began with root not at the top of its tree

vars == <<vrt, mem, root, i, phase, printed, astray>>

NULL == 0

Init ==
    /\ vrt \in Inputs
    /\ mem = << >> /\ root = NULL
    /\ i = 0 /\ phase = "insert" /\ printed = << >> /\ astray = FALSE

----------------------------------------------------------------------------
(* Neighbours of a node in memory m, and the rotations.  A rotation leaves *)
(* the variable root alone.                                                *)

grandparent(m, n) ==
    IF n # NULL /\ m[n].parent # NULL THEN m[m[n].parent].parent ELSE NULL

uncle(m, n) ==
    LET g == grandparent(m, n)
    IN  IF g = NULL THEN NULL
        ELSE IF m[n].parent = m[g].left THEN m[g].right ELSE m[g].left

sibling(m, n) ==
    IF n = NULL \/ m[n].parent = NULL THEN NULL
    ELSE LET p == m[n].parent
         IN  IF n = m[p].left THEN m[p].right ELSE m[p].left

SetParent(m, n, p) == IF n = NULL THEN m ELSE [m EXCEPT ![n].parent = p]

\* In the parent p of n, c takes the place of n.
Replace(m, p, n, c) ==
    IF p = NULL THEN m
    ELSE IF m[p].left = n THEN [m EXCEPT ![p].left = c] ELSE [m EXCEPT ![p].right = c]

rotateLeft(m, n) ==
    LET c == m[n].right
        p == m[n].parent
    IN  Replace([SetParent(m, m[c].left, n) EXCEPT
                    ![n].right = m[c].left, ![n].parent = c,
                    ![c].left = n, ![c].parent = p], p, n, c)

rotateRight(m, n) ==
    LET c == m[n].left
        p == m[n].parent
    IN  Replace([SetParent(m, m[c].right, n) EXCEPT
                    ![n].left = m[c].right, ![n].parent = c,
                    ![c].right = n, ![c].parent = p], p, n, c)

Paint(m, n, c) == [m EXCEPT ![n].color = c]

----------------------------------------------------------------------------
(* insertNode and verifyInsertion.                                         *)

Nil(p) == [parent |-> p, left |-> NULL, right |-> NULL, value |-> 0, pid |-> 0,
           color |-> "BLACK", type |-> "NIL"]

\* calloc of two nil children for node n, with parent p.
Leaves(m, n, p) ==
    LET k == Len(m)
    IN  [m EXCEPT ![n].left = k + 1, ![n].right = k + 2] \o <<Nil(p), Nil(p)>>

\* The nil node where the search for v ends.
RECURSIVE PlaceOf(_, _, _)
PlaceOf(m, n, v) ==
    IF m[n].type = "NIL" THEN n
    ELSE PlaceOf(m, IF m[n].value > v THEN m[n].left ELSE m[n].right, v)

RECURSIVE ParentOfPlace(_, _, _, _)
ParentOfPlace(m, n, parent, v) ==
    IF m[n].type = "NIL" THEN parent
    ELSE ParentOfPlace(m, IF m[n].value > v THEN m[n].left ELSE m[n].right, n, v)

\* The children of the first node get no parent.
insertFirst(v, pid) ==
    Leaves(<<[Nil(NULL) EXCEPT !.value = v, !.pid = pid, !.type = "ALLOCATED"]>>, 1, NULL)

\* Slip: the new nil nodes get no parent either.
insertNextOrphans(m, v, pid) ==
    LET n == PlaceOf(m, root, v)
        p == ParentOfPlace(m, root, root, v)
    IN  Leaves([m EXCEPT ![n].color = "RED", ![n].value = v, ![n].pid = pid,
                         ![n].type = "ALLOCATED", ![n].parent = p], n, NULL)

insertNext(m, v, pid) ==
    LET n == PlaceOf(m, root, v)
        p == ParentOfPlace(m, root, root, v)
    IN  Leaves([m EXCEPT ![n].color = "RED", ![n].value = v, ![n].pid = pid,
                         ![n].type = "ALLOCATED", ![n].parent = p], n, n)

\* Slip: the uncle keeps its colour when the red moves up.
RecolourParentOnly(m, n) ==
    Paint(Paint(m, m[n].parent, "BLACK"), grandparent(m, n), "RED")

Recolour(m, n) ==
    Paint(Paint(Paint(m, m[n].parent, "BLACK"), uncle(m, n), "BLACK"), grandparent(m, n), "RED")

\* The first rotation of an inner grandchild, and the node that is then below.
Straighten(m, n) ==
    LET p == m[n].parent
        g == grandparent(m, n)
    IN  IF n = m[p].right /\ p = m[g].left THEN [mem |-> rotateLeft(m, p), low |-> p]
        ELSE IF n = m[p].left /\ p = m[g].right THEN [mem |-> rotateRight(m, p), low |-> p]
        ELSE [mem |-> m, low |-> n]

RotateUp(m, n) ==
    LET g  == grandparent(m, n)
        s  == Straighten(m, n)
        p  == s.mem[s.low].parent
        m2 == Paint(Paint(s.mem, p, "BLACK"), g, "RED")
    IN  IF s.low = m2[p].left THEN rotateRight(m2, g) ELSE rotateLeft(m2, g)

RECURSIVE verifyInsertion(_, _)
verifyInsertion(m, n) ==
    LET p == m[n].parent
        u == uncle(m, n)
    IN  IF p = NULL THEN Paint(m, n, "BLACK")
        ELSE IF m[p].color = "BLACK" THEN m
        ELSE IF u # NULL /\ m[u].color = "RED"
             THEN verifyInsertion(Recolour(m, n), grandparent(m, n))
        ELSE RotateUp(m, n)

----------------------------------------------------------------------------
(* deleteNode and its cases.  A case that follows NULL yields Fault.       *)

Fault == << >>

RECURSIVE leftmostNode(_, _)
leftmostNode(m, n) ==
    IF m[n].type = "NIL" THEN m[n].parent ELSE leftmostNode(m, m[n].left)

RECURSIVE getMaximum(_, _)
getMaximum(m, n) ==
    IF m[n].type = "NIL" THEN m[n].parent ELSE getMaximum(m, m[n].right)

isLeaf(m, n) == m[n].type = "NIL"

IsRed(m, n) == m[n].color = "RED"

\* Turn parent n so that its child on the side of the node that lacks a black goes down.
TurnDown(m, p, n) == IF n = m[p].left THEN rotateLeft(m, p) ELSE rotateRight(m, p)

delete_case6(m, n) ==
    LET p == m[n].parent
        s == sibling(m, n)
        m2 == Paint(Paint(m, s, m[p].color), p, "BLACK")
        outer == IF n = m[p].left THEN m[s].right ELSE m[s].left
    IN  IF outer = NULL THEN Fault ELSE TurnDown(Paint(m2, outer, "BLACK"), p, n)

delete_case5(m, n) ==
    LET p == m[n].parent
        s == sibling(m, n)
        l == m[s].left
        r == m[s].right
    IN  IF IsRed(m, s) THEN delete_case6(m, n)
        ELSE IF n = m[p].left /\ ~IsRed(m, r) /\ IsRed(m, l)
             THEN delete_case6(rotateRight(Paint(Paint(m, s, "RED"), l, "BLACK"), s), n)
        ELSE IF n = m[p].right /\ ~IsRed(m, l) /\ IsRed(m, r)
             THEN delete_case6(rotateLeft(Paint(Paint(m, s, "RED"), r, "BLACK"), s), n)
        ELSE delete_case6(m, n)

\* The colours of the sibling and its children are all black.
BlackFamily(m, s) == ~IsRed(m, s) /\ ~IsRed(m, m[s].left) /\ ~IsRed(m, m[s].right)

delete_case4(m, n) ==
    LET s == sibling(m, n)
    IN  IF IsRed(m, m[n].parent) /\ BlackFamily(m, s)
        THEN Paint(Paint(m, s, "RED"), m[n].parent, "BLACK")
        ELSE delete_case5(m, n)

RECURSIVE delete_case1(_, _)

delete_case3(m, n) ==
    LET s == sibling(m, n)
    IN  IF ~IsRed(m, s) /\ m[s].left = NULL THEN Fault
        ELSE IF ~IsRed(m, m[n].parent) /\ BlackFamily(m, s)
             THEN delete_case1(Paint(m, s, "RED"), m[n].parent)
        ELSE delete_case4(m, n)

delete_case2(m, n) ==
    LET p == m[n].parent
        s == sibling(m, n)
    IN  IF IsRed(m, s)
        THEN delete_case3(TurnDown(Paint(Paint(m, p, "RED"), s, "BLACK"), p, n), n)
        ELSE delete_case3(m, n)

delete_case1(m, n) == IF m[n].parent # NULL THEN delete_case2(m, n) ELSE m

\* The node is not freed: it becomes a nil node, in its old colour.
Vacate(m, n) == [m EXCEPT ![n].type = "NIL", ![n].left = NULL, ![n].right = NULL]

\* Case of two children: the predecessor's entry moves into n.
MoveUp(m, n) ==
    LET d == getMaximum(m, m[n].left)
    IN  [m EXCEPT ![n].value = m[d].value, ![n].pid = m[d].pid, ![d].value = m[n].pid]

TwoChildren(m, n) == m[m[n].left].type = "ALLOCATED" /\ m[m[n].right].type = "ALLOCATED"

\* Slip: root keeps pointing to the node that was unlinked.
NewRootKept(p, c) == root

NewRoot(p, c) == IF p = NULL THEN c ELSE root

\* What deleteNode(n) does when n has a child that is not nil.
deleteInner(m, n) ==
    LET d  == IF TwoChildren(m, n) THEN getMaximum(m, m[n].left) ELSE n
        m1 == IF TwoChildren(m, n) THEN MoveUp(m, n) ELSE m
        c  == IF isLeaf(m1, m1[d].right) THEN m1[d].left ELSE m1[d].right
        p  == m1[d].parent
        m2 == [Replace(m1, p, d, c) EXCEPT ![c].parent = p]
        m3 == IF IsRed(m2, d) THEN m2
              ELSE IF IsRed(m2, c) THEN Paint(m2, c, "BLACK")
              ELSE delete_case1(m2, c)
    IN  [mem  |-> IF m3 = Fault THEN Fault ELSE Vacate(m3, d),
         root |-> NewRoot(p, c)]

deleteNode(m, n) ==
    IF m[n].left = NULL THEN [mem |-> Fault, root |-> root]
    ELSE IF isLeaf(m, m[n].right) /\ isLeaf(m, m[n].left)
    THEN [mem |-> Vacate(m, n), root |-> IF n = root THEN NULL ELSE root]
    ELSE deleteInner(m, n)

----------------------------------------------------------------------------
(* main.                                                                   *)

OnTop == root = NULL \/ mem[root].parent = NULL

Insert ==
    /\ phase = "insert" /\ i < Len(vrt)
    /\ mem' = IF root = NULL
              THEN LET m == insertFirst(vrt[1], 0) IN verifyInsertion(m, 1)
              ELSE LET n == PlaceOf(mem, root, vrt[i + 1])
                   IN  verifyInsertion(insertNext(mem, vrt[i + 1], i), n)
    /\ root' = IF root = NULL THEN 1 ELSE root
    /\ i' = i + 1
    /\ astray' = (astray \/ ~OnTop)
    /\ UNCHANGED <<vrt, phase, printed>>

InsertedAll ==
    /\ phase = "insert" /\ i = Len(vrt)
    /\ phase' = "drain"
    /\ UNCHANGED <<vrt, mem, root, i, printed, astray>>

TakeLeftmost ==
    /\ phase = "drain" /\ root # NULL
    /\ LET p == leftmostNode(mem, root)
           d == deleteNode(mem, p)
       IN  IF p = NULL
           THEN phase' = "fault" /\ UNCHANGED <<mem, root, printed>>
           ELSE /\ printed' = Append(printed, <<mem[p].pid, mem[p].value>>)
                /\ phase' = IF d.mem = Fault THEN "fault" ELSE phase
                /\ mem' = IF d.mem = Fault THEN mem ELSE d.mem
                /\ root' = d.root
    /\ astray' = (astray \/ ~OnTop)
    /\ UNCHANGED <<vrt, i>>

isEmpty ==
    /\ phase = "drain" /\ root = NULL
    /\ phase' = "done"
    /\ UNCHANGED <<vrt, mem, root, i, printed, astray>>

Ended == phase \in {"done", "fault"} /\ UNCHANGED vars

Next == Insert \/ InsertedAll \/ TakeLeftmost \/ isEmpty \/ Ended

Spec == Init /\ [][Next]_vars
----------------------------------------------------------------------------
(* The reference definitions: what the nodes below n hold, and the rules   *)
(* of a red-black tree.                                                    *)

RECURSIVE InOrder(_, _)
InOrder(m, n) ==
    IF m[n].type = "NIL" THEN << >>
    ELSE InOrder(m, m[n].left) \o <<<<m[n].pid, m[n].value>>>> \o InOrder(m, m[n].right)

\* Black nodes on every way down from n to a nil node; -1 if the ways differ.
RECURSIVE BlackHeight(_, _)
BlackHeight(m, n) ==
    IF m[n].type = "NIL" THEN 0
    ELSE LET l == BlackHeight(m, m[n].left)
             r == BlackHeight(m, m[n].right)
         IN  IF l = -1 \/ l # r THEN -1 ELSE l + (IF IsRed(m, n) THEN 0 ELSE 1)

RECURSIVE NoRedPair(_, _)
NoRedPair(m, n) ==
    m[n].type = "NIL" \/
        /\ IsRed(m, n) => \A c \in {m[n].left, m[n].right} : isLeaf(m, c) \/ ~IsRed(m, c)
        /\ NoRedPair(m, m[n].left) /\ NoRedPair(m, m[n].right)

RECURSIVE Top(_, _)
Top(m, n) == IF m[n].parent = NULL THEN n ELSE Top(m, m[n].parent)

\* The entries of the first k array elements, by value.
Entries(k) == SortSeq([j \in 1 .. k |-> <<j - 1, vrt[j]>>], LAMBDA x, y : x[2] < y[2])

RedBlack(m, n) == NoRedPair(m, n) /\ BlackHeight(m, n) # -1 /\ ~IsRed(m, n)

(* Insertion keeps the rules: as long as every search began at the top of  *)
(* the tree, the tree around root holds exactly the inserted entries, in   *)
(* the order of their values, no red node has a red child, and all ways    *)
(* down have as many black nodes.                                          *)
InsertionKeepsRules ==
    phase = "insert" /\ ~astray /\ root # NULL =>
        /\ InOrder(mem, Top(mem, root)) = Entries(i)
        /\ RedBlack(mem, Top(mem, root))

(* The nodes come out by virtual run time, each pid with its own value,    *)
(* although deleteNode does not rebalance after a leaf and turns the tree  *)
(* when it unlinks an inner node: what is printed and what is left in the  *)
(* tree are together the entries of the array, in order, and main ends     *)
(* only when all are out.  (As long as root is on top.)                    *)
DrainsInOrder ==
    phase \in {"drain", "done"} /\ ~astray =>
        printed \o (IF root = NULL THEN << >> ELSE InOrder(mem, Top(mem, root)))
            = Entries(Len(vrt))

(* main follows a NULL pointer only after a rotation has taken root off    *)
(* the top, or when the first value of the array is the least: the nil     *)
(* nodes below the first node have no parent, and leftmostNode returns it. *)
(* The delete cases never meet a sibling without children before that.     *)
FaultNeedsCause ==
    phase = "fault" => astray \/ \A j \in DOMAIN vrt : vrt[1] <= vrt[j]
=============================================================================
