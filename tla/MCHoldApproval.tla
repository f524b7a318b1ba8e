--------------------------- MODULE MCHoldApproval ---------------------------
(* Small instances of HoldApproval.                                        *)
EXTENDS HoldApproval, TLC

SymmetricHolds == Permutations(Holds)
SymmetricSessions == Permutations(Sessions)
=============================================================================
