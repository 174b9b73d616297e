------------------------------ MODULE MCGraph ------------------------------
(***************************************************************************)
(* An instance of ResourceGraph for TLC: a control plane and two workers in *)
(* one zone.  The pods of a gang of two ask for less than whole cores in two*)
(* containers each; a single pod wants a GPU on a node of its own zone;     *)
(* another has an init container and asks for fractions of a megabyte; a    *)
(* pod of another scheduler comes and goes.  The amounts are chosen so that *)
(* rounding any of them the other way oversells a node.                     *)
(***************************************************************************)
EXTENDS ResourceGraph, TLC

CONSTANTS master, n1, n2, zone, a1, a2, b, c, x, grpA, grpB, grpC, j1, j2

MCNodeItems == <<n1, master, n2>>
MCPods == {a1, a2, b, c, x}

A(cpu, mem, gpu) == [cpu |-> cpu, mem |-> mem, gpu |-> gpu]

MCZoneOf == [n \in {master, n1, n2} |-> zone]
MCAllocatable == (master :> A(4000, 99, 0)) @@ (n1 :> A(5500, 71, 1)) @@ (n2 :> A(2850, 70, 1))

MCContainers ==
    [p \in {a1, a2} |-> <<A(900, 9, 0), A(1000, 7, 0)>>]
      @@ (b :> <<A(950, 4, 1)>>)
      @@ (c :> <<A(0, 7, 0)>>)
      @@ (x :> <<A(250, 40, 1)>>)
MCInitRequest ==
    [p \in {a1, a2, b} |-> A(0, 0, 0)] @@ (c :> A(1500, 0, 0)) @@ (x :> A(300, 0, 0))
MCGroupOf == [p \in {a1, a2} |-> grpA] @@ (b :> grpB) @@ (c :> grpC) @@ (x :> NoGroup)
MCMinMember == (grpA :> 2) @@ (grpB :> 1) @@ (grpC :> 1)

(* The pods of the gang are interchangeable, and so are the ids of jobs. *)
GangSymmetry == Permutations({a1, a2}) \cup Permutations(JobIds)
=============================================================================
