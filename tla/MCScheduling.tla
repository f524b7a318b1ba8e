---------------------------- MODULE MCScheduling ----------------------------
(* Small instances of Scheduling.                                          *)
EXTENDS Scheduling, TLC

SymmetricPlanners == Permutations(Planners)

\* A small or a large order that may start on the first day or on the second,
\* urgent or not.
MCDemands == [hours : {1, 2}, due : {8, 9}, rank : {0, 3}]

MCRates == {1, 2}
=============================================================================
