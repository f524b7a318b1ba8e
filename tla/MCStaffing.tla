------------------------------ MODULE MCStaffing ------------------------------
(* Small instances of Staffing.  Lines and the pool share nothing but the   *)
(* employees, so a behaviour of an instance exercises one of the two.       *)
EXTENDS Staffing, TLC

CONSTANT Followed     \* bound: the marks an instance does not stop at

VARIABLE part

Symmetric == Permutations(Sessions) \cup Permutations(Keys)

Row(e, k, share, primary, end) ==
  [emp |-> e, key |-> k, share |-> share, primary |-> primary, end |-> end]

MCNewAssignments ==
  UNION {{Row(e, k, 50, TRUE, Null), Row(e, k, 50, FALSE, 2)} :
           e \in Employees, k \in Keys}

\* A share is raised; the mark is set; an end is set, or taken back.
MCUpdates ==
  LET any == CHOOSE r \in MCNewAssignments : TRUE
  IN {[cols |-> {"share"}, val |-> [any EXCEPT !.share = 60]],
      [cols |-> {"primary"}, val |-> [any EXCEPT !.primary = TRUE]],
      [cols |-> {"share", "end"}, val |-> [any EXCEPT !.share = 40, !.end = 2]],
      [cols |-> {"end"}, val |-> [any EXCEPT !.end = Null]]}

MCWindows == {<<1, 1>>, <<2, 2>>, <<1, 2>>, <<2, Null>>}

\* Bound: where the properties say little of an employee any more, the requests
\* in flight commit and the behaviour ends.
Regular == \A e \in Employees : irregular[e] \subseteq Followed

MCInit == StaffingInit /\ part \in {"lines", "pool"}
MCNext ==
  /\ UNCHANGED part
  /\ \/ Regular /\ part = "lines" /\ (LineNext \/ EmployeeNext({"active"}))
     \/ Regular /\ part = "pool" /\ (PoolNext \/ EmployeeNext({"floating"}))
     \/ Regular /\ (NewDay \/ \E s \in Sessions : Rollback(s))
     \/ ~Regular /\ \E s \in Sessions : CommitLine(s)
MCSpec == MCInit /\ [][MCNext]_<<staffingVars, part>>
=============================================================================
