------------------------------ MODULE MCBabysit ------------------------------
(***************************************************************************)
(* Instances of Babysit for TLC: the instances of the first project belong *)
(* to another user and its name begins that of the second; the logs of the *)
(* third cannot be read.                                                   *)
(***************************************************************************)
EXTENDS Babysit, TLC

CONSTANTS p1, p2, p3

Overlap == {<<p1, p2>>}

Symmetry == Permutations(Runs) \union Permutations(Pids)
=============================================================================
