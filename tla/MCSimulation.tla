---------------------------- MODULE MCSimulation ----------------------------
(* A shirt and a skirt whose routes cross, and a product without operations.*)
EXTENDS Simulation

MCTools == {"sew", "press"}
Operation(tool, operators, rework) == [tool |-> tool, operators |-> operators, rework |-> rework]

MCRoute ==
  [shirt |-> <<Operation("sew", 1, TRUE), Operation("press", 1, FALSE)>>,
   skirt |-> <<Operation("press", 1, FALSE), Operation("sew", 1, FALSE)>>,
   scarf |-> <<>>]

\* Two and a half shirts over the horizon in bundles of two, two skirts one by one.
MCDemand ==
  [shirt |-> [daily |-> 0, weekly |-> 5, mix |-> 0, size |-> 2],
   skirt |-> [daily |-> 1, weekly |-> 9, mix |-> 0, size |-> 1],
   scarf |-> [daily |-> 1, weekly |-> 0, mix |-> 0, size |-> 1]]
=============================================================================
