------------------------------ MODULE MCAccount ------------------------------
(***************************************************************************)
(* Small instances of Account.                                             *)
(***************************************************************************)
EXTENDS Account, TLC

CONSTANTS n1, n2

Nobody == [node_name |-> Blank, nodeName |-> Blank, node |-> Blank, nested |-> Blank]

\* A body that names n1 in one place, one that names both, the first candidate
\* winning, one with a nested name, and one that names no node.
MCBodies ==
    {[Nobody EXCEPT !.node = n1],
     [Nobody EXCEPT !.nodeName = n1, !.nested = n2],
     [Nobody EXCEPT !.nested = n2],
     Nobody}

\* Requests, goroutines and workers are interchangeable.
Symmetry == Permutations(Requests) \cup Permutations(Posts) \cup Permutations(Workers)

=============================================================================
