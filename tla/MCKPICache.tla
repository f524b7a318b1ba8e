----------------------------- MODULE MCKPICache -----------------------------
(* Small instances of KPICache.                                            *)
EXTENDS KPICache, TLC

\* The configuration lives longer than the data of the day.
MCTTL == [k \in Keys |-> IF k \in Clients THEN 2 ELSE 1]
=============================================================================
