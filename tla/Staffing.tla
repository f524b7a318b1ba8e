------------------------------- MODULE Staffing -------------------------------
(***************************************************************************)
(* Who works where: the production lines an employee is assigned to, with  *)
(* the audit trail of those rows, and the floating pool an employee is     *)
(* lent to clients from.                                                   *)
(*                                                                         *)
(* A request reads and decides in one step and commits in another, as in   *)
(* WorkOrders, and nothing locks the employee in between.  Rows are never  *)
(* deleted (FLOATING_POOL has no is_active column for a soft delete to     *)
(* set), so each table is a sequence and a row's id its position.          *)
(***************************************************************************)
EXTENDS Naturals, Sequences, FiniteSets, FiniteSetsExt, Functions

CONSTANTS
  Employees,       \* primary keys of EMPLOYEE
  Keys,            \* pairs of a line and an effective date
  Clients,         \* clients a pooled employee can be lent to
  Sessions,        \* requests that can be in flight together
  MaxDay,          \* bound: the last day of an instance
  MaxLines,        \* bound: rows of EMPLOYEE_LINE_ASSIGNMENT
  MaxPool,         \* bound: rows of FLOATING_POOL
  MaxTrail,        \* bound: audit entries of one row
  NewAssignments,  \* the rows a POST may carry
  Updates,         \* the bodies of a PUT of an assignment
  Windows,         \* the periods a pool request may name
  PoolEdits        \* whether pool rows are also written without the check

MaxActive == 2       \* MAX_ACTIVE_ASSIGNMENTS
MaxShare == 100      \* MAX_ALLOCATION_PERCENTAGE

Days == 1..MaxDay
Null == 0
Bounds == Days \cup {Null}
NoClient == "none"
\* What may have happened to an employee outside the checks.
Marks == {"raced", "reopened", "promoted", "crowded", "edited"}

LineRows == [emp : Employees, key : Keys, share : 1..MaxShare, primary : BOOLEAN, end : Bounds]
LineColumns == {"share", "primary", "end"}
PoolRows == [emp : Employees, client : Clients \cup {NoClient}, from : Bounds, to : Bounds]
PoolColumns == {"client", "from", "to"}

ASSUME DaysAssumption == MaxDay \in Nat \ {0}
ASSUME BoundsAssumption == MaxLines \in Nat /\ MaxPool \in Nat /\ MaxTrail \in Nat
ASSUME PoolEditsAssumption == PoolEdits \in BOOLEAN
ASSUME NewAssumption == NewAssignments \subseteq LineRows
ASSUME UpdatesAssumption == Updates \subseteq [cols : SUBSET LineColumns, val : LineRows]
ASSUME WindowsAssumption == Windows \subseteq Bounds \X Bounds

VARIABLES
  employee,   \* EMPLOYEE: is_active and is_floating_pool
  line,       \* EMPLOYEE_LINE_ASSIGNMENT
  trail,      \* AUDIT_ENTRY of each assignment, in commit order
  pool,       \* FLOATING_POOL
  today,      \* the date of the server's clock
  session,    \* for each request: what it will write, or NoPlan
  irregular   \* for each employee, which Marks; nothing reads it

staffingVars == <<employee, line, trail, pool, today, session, irregular>>

NoPlan == [table |-> "none"]
Idle(s) == session[s] = NoPlan
None == [i \in {} |-> {}]

-----------------------------------------------------------------------------
(* Lines.                                                                  *)

IsActive(r) == r.end = Null \/ r.end > today

ActiveOf(e) == {i \in DOMAIN line : line[i].emp = e /\ IsActive(line[i])}

\* validate_allocation: the sum over the active assignments in S.
Allocated(S) == SumFunctionOnSet([i \in DOMAIN line |-> line[i].share], S)

\* Request s leaves a plan about employee e; marks records what the checks
\* do not cover, two requests about one employee in flight among it.
Plan(s, e, table, changes, added, marks) ==
  LET meets == {t \in Sessions \ {s} : ~Idle(t) /\ session[t].emp = e}
  IN /\ Idle(s)
     /\ session' = [session EXCEPT ![s] = [table |-> table, emp |-> e, set |-> changes, add |-> added]]
     /\ irregular' = [irregular EXCEPT ![e] =
                        @ \cup marks \cup (IF meets = {} THEN {} ELSE {"raced"})]
     /\ UNCHANGED <<employee, line, trail, pool, today>>

\* A change of row r: an UPDATE writes the columns that differ from the row
\* as it was read, and the trail shows those with both values.
Change(r, cols, val) == [cols |-> {c \in cols : val[c] # r[c]}, old |-> r, val |-> val]

\* POST: the first assignment is the primary one; a second one that is
\* primary takes the mark from the first, in the same transaction.
CreateAssignment(s, r) ==
  LET active == ActiveOf(r.emp)
      primary == r.primary \/ active = {}
      demoted == {i \in active : primary /\ line[i].primary}
  IN /\ employee[r.emp].active
     /\ Cardinality(active) < MaxActive
     /\ Allocated(active) + r.share <= MaxShare
     /\ Plan(s, r.emp, "line",
             [i \in demoted |-> Change(line[i], {"primary"}, [line[i] EXCEPT !.primary = FALSE])],
             <<[r EXCEPT !.primary = primary]>>, {})

\* Mutant of UpdateAssignment: the other assignments are not counted.
UpdateUnchecked(s, i, u) ==
  LET r == line[i]
      after == [c \in DOMAIN r |-> IF c \in u.cols THEN u.val[c] ELSE r[c]]
      reopens == ~IsActive(r) /\ IsActive(after)
      promotes == after.primary /\ ~r.primary
  IN Plan(s, r.emp, "line", [x \in {i} |-> Change(r, u.cols, after)], <<>>,
          (IF reopens THEN {"reopened"} ELSE {}) \cup (IF promotes THEN {"promoted"} ELSE {}))

\* PUT: only a new share is validated, against the other active assignments.
UpdateAssignment(s, i, u) ==
  LET r == line[i]
      after == [c \in DOMAIN r |-> IF c \in u.cols THEN u.val[c] ELSE r[c]]
      reopens == ~IsActive(r) /\ IsActive(after)
      promotes == after.primary /\ ~r.primary
  IN /\ "share" \in u.cols => Allocated(ActiveOf(r.emp) \ {i}) + u.val.share <= MaxShare
     /\ Plan(s, r.emp, "line", [x \in {i} |-> Change(r, u.cols, after)], <<>>,
             (IF reopens THEN {"reopened"} ELSE {}) \cup (IF promotes THEN {"promoted"} ELSE {}))

\* DELETE: the assignment ends today.
EndAssignment(s, i) ==
  Plan(s, line[i].emp, "line",
       [x \in {i} |-> Change(line[i], {"end"}, [line[i] EXCEPT !.end = today])], <<>>, {})

-----------------------------------------------------------------------------
(* The floating pool.                                                      *)

AssignedOf(e) == {i \in DOMAIN pool : pool[i].emp = e /\ pool[i].client # NoClient}

\* Mutant of Conflicts: periods that share one day are let through.
ConflictsInside(q, from, to) ==
  \/ Null \in {from, to, q.from, q.to}
  \/ from < q.to /\ to > q.from

\* Assigned row q stands in the way of a new period: an open end on either
\* side always does.
Conflicts(q, from, to) ==
  \/ Null \in {from, to, q.from, q.to}
  \/ from <= q.to /\ to >= q.from

\* POST .../assign: of the assigned rows only the one the query returns first
\* is compared; the query has no order.
AssignToClient(s, e, c, from, to) ==
  LET assigned == AssignedOf(e)
  IN /\ employee[e].floating
     /\ assigned = {} \/ \E i \in assigned : ~Conflicts(pool[i], from, to)
     /\ Plan(s, e, "pool", None, <<[emp |-> e, client |-> c, from |-> from, to |-> to]>>,
             IF Cardinality(assigned) > 1 THEN {"crowded"} ELSE {})

\* POST .../unassign
Unassign(s, i) ==
  Plan(s, pool[i].emp, "pool",
       [x \in {i} |-> Change(pool[i], {"client", "to"},
                             [pool[i] EXCEPT !.client = NoClient, !.to = today])], <<>>, {})

\* POST: an entry with or without an assignment, unchecked.
AddPoolEntry(s, r) ==
  /\ employee[r.emp].floating
  /\ r.client # NoClient => PoolEdits
  /\ Plan(s, r.emp, "pool", None, <<r>>, IF r.client # NoClient THEN {"edited"} ELSE {})

\* PUT: any column, unchecked.
EditPoolEntry(s, i, r) ==
  /\ PoolEdits
  /\ Plan(s, pool[i].emp, "pool", [x \in {i} |-> Change(pool[i], PoolColumns, r)], <<>>, {"edited"})

-----------------------------------------------------------------------------
(* Commits, employees, the clock.                                          *)

\* Table t after plan p: the columns changed, and the row added.
Written(t, p) ==
  [i \in DOMAIN t |-> IF i \in DOMAIN p.set
                      THEN [c \in DOMAIN t[i] |-> IF c \in p.set[i].cols THEN p.set[i].val[c] ELSE t[i][c]]
                      ELSE t[i]] \o p.add

\* _insert_changes: every column of the new row that is not NULL.
InsertEntry(r) == [c \in {"share", "primary"} \cup (IF r.end = Null THEN {} ELSE {"end"}) |->
                     [old |-> Null, new |-> r[c]]]

\* Mutant of UpdateEntry: the values after the assignment are taken as old.
UpdateEntryAfter(change) == [c \in change.cols |-> [old |-> change.val[c], new |-> change.val[c]]]

\* _update_changes
UpdateEntry(change) == [c \in change.cols |-> [old |-> change.old[c], new |-> change.val[c]]]

\* The listeners write into the transaction they observe: an entry for the
\* row added and one for every row with a column changed.
Audited(p) ==
  [i \in DOMAIN line |-> IF i \in DOMAIN p.set /\ p.set[i].cols # {}
                         THEN Append(trail[i], UpdateEntry(p.set[i])) ELSE trail[i]]
  \o (IF p.add = <<>> THEN <<>> ELSE <<<<InsertEntry(p.add[1])>>>>)

\* uq_employee_line_date: (employee, line, effective date) is unique.
Duplicate(r) == \E i \in DOMAIN line : line[i].emp = r.emp /\ line[i].key = r.key

CommitLine(s) ==
  LET p == session[s]
  IN /\ p.table = "line"
     /\ Len(line) + Len(p.add) <= MaxLines
     /\ \A i \in DOMAIN p.set : Len(trail[i]) < MaxTrail
     /\ p.add # <<>> => ~Duplicate(p.add[1])
     /\ line' = Written(line, p) /\ trail' = Audited(p)
     /\ session' = [session EXCEPT ![s] = NoPlan]
     /\ UNCHANGED <<employee, pool, today, irregular>>

CommitPool(s) ==
  LET p == session[s]
  IN /\ p.table = "pool"
     /\ Len(pool) + Len(p.add) <= MaxPool
     /\ pool' = Written(pool, p)
     /\ session' = [session EXCEPT ![s] = NoPlan]
     /\ UNCHANGED <<employee, line, trail, today, irregular>>

\* The unique key, or any other error: nothing is written.
Rollback(s) ==
  /\ ~Idle(s)
  /\ session' = [session EXCEPT ![s] = NoPlan]
  /\ UNCHANGED <<employee, line, trail, pool, today, irregular>>

\* POST .../floating-pool/assign and .../remove, DELETE of an employee and
\* its undoing by PUT: unconditional writes of one column.
SetEmployee(e, column, value) ==
  /\ employee[e][column] # value
  /\ employee' = [employee EXCEPT ![e][column] = value]
  /\ UNCHANGED <<line, trail, pool, today, session, irregular>>

\* Midnight.
NewDay ==
  /\ today < MaxDay
  /\ today' = today + 1
  /\ UNCHANGED <<employee, line, trail, pool, session, irregular>>

StaffingInit ==
  /\ employee = [e \in Employees |-> [active |-> TRUE, floating |-> TRUE]]
  /\ line = <<>> /\ trail = <<>> /\ pool = <<>>
  /\ today = 1
  /\ session = [s \in Sessions |-> NoPlan]
  /\ irregular = [e \in Employees |-> {}]

LineNext ==
  \E s \in Sessions :
    \/ \E r \in NewAssignments : CreateAssignment(s, r)
    \/ \E i \in DOMAIN line, u \in Updates : UpdateAssignment(s, i, u)
    \/ \E i \in DOMAIN line : EndAssignment(s, i)
    \/ CommitLine(s)

PoolNext ==
  \E s \in Sessions :
    \/ \E e \in Employees, c \in Clients, w \in Windows : AssignToClient(s, e, c, w[1], w[2])
    \/ \E i \in DOMAIN pool : Unassign(s, i)
    \/ \E e \in Employees, c \in Clients \cup {NoClient}, w \in Windows :
         LET r == [emp |-> e, client |-> c, from |-> w[1], to |-> w[2]]
         IN AddPoolEntry(s, r) \/ \E i \in DOMAIN pool : pool[i].emp = e /\ EditPoolEntry(s, i, r)
    \/ CommitPool(s)

EmployeeNext(columns) ==
  \E e \in Employees, column \in columns, value \in BOOLEAN : SetEmployee(e, column, value)

StaffingNext ==
  \/ LineNext \/ PoolNext
  \/ EmployeeNext({"active", "floating"})
  \/ \E s \in Sessions : Rollback(s)
  \/ NewDay

StaffingSpec == StaffingInit /\ [][StaffingNext]_staffingVars

-----------------------------------------------------------------------------
(* Properties.                                                             *)

\* "Max 2 active lines per employee, total allocation <= 100%": over days,
\* endings and corrections this holds for an employee unless two requests
\* about the employee overlapped or a PUT reopened an ended assignment.  At
\* most one of the lines is primary, unless a PUT sets the mark itself.
LimitsHold ==
  \A e \in Employees : irregular[e] \cap {"raced", "reopened"} = {} =>
    /\ Cardinality(ActiveOf(e)) <= MaxActive
    /\ Allocated(ActiveOf(e)) <= MaxShare
    /\ "promoted" \notin irregular[e] => Cardinality({i \in ActiveOf(e) : line[i].primary}) <= 1

\* The entries, of those numbered ns, that speak of column c: the last word on it.
Naming(entries, c) == {n \in DOMAIN entries : c \in DOMAIN entries[n]}
LastWord(entries, c, ns) == IF ns = {} THEN Null ELSE entries[Max(ns)][c].new

EndsIn(entries, r) == \A c \in LineColumns : LastWord(entries, c, Naming(entries, c)) = r[c]

\* Each entry starts from what the entries before it left.
Chained(entries) ==
  \A c \in LineColumns : \A n \in Naming(entries, c) :
    entries[n][c].old = LastWord(entries, c, {k \in Naming(entries, c) : k < n})

\* The last word of the trail of an assignment on every column is the row's,
\* although requests overlap; and for an employee whose requests never did, the
\* trail tells the whole story.
TrailTellsAll ==
  \A i \in DOMAIN line :
    /\ EndsIn(trail[i], line[i])
    /\ "raced" \notin irregular[line[i].emp] => Chained(trail[i])

Covers(r, d) == (r.from = Null \/ r.from <= d) /\ (r.to = Null \/ d <= r.to)

\* No day has employee e with two clients.
BookedOncePer(e) ==
  \A i, j \in AssignedOf(e) : i # j => \A d \in Days : ~(Covers(pool[i], d) /\ Covers(pool[j], d))

\* A pooled employee is not lent twice for one day, unless a row was written
\* without the check, requests overlapped, or the employee already had two
\* assignments when a further one was compared with only one of them.
BookedOnce ==
  \A e \in Employees : irregular[e] \cap {"raced", "crowded", "edited"} = {} => BookedOncePer(e)

\* "Prevents double-assignment of employees": the same, with no exception for
\* an employee who has two assignments already.
NoDoubleBooking ==
  \A e \in Employees : irregular[e] \cap {"raced", "edited"} = {} => BookedOncePer(e)
=============================================================================
