---------------------------- MODULE MCAssumptions ----------------------------
(* Small instances of Assumptions.                                         *)
EXTENDS Assumptions, TLC

Symmetric ==
  UNION {Permutations(S) : S \in {Ids, Names, Values, Sessions}}
=============================================================================
