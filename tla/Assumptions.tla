----------------------------- MODULE Assumptions -----------------------------
(***************************************************************************)
(* Calculation assumptions: proposed, edited, approved, retired, and read  *)
(* by the KPI calculations as the effective set of a date.                 *)
(*                                                                         *)
(* As in WorkOrders a request reads and decides in one step and commits    *)
(* what it decided in another.  The "name" of a row is its (client_id,     *)
(* assumption_name); users are those with access to the client.            *)
(***************************************************************************)
EXTENDS Naturals, Sequences

CONSTANTS
  Ids,         \* primary keys of CALCULATION_ASSUMPTION
  Names,       \* pairs of a client and a catalog name
  Values,      \* values the catalog accepts
  MaxDate,     \* bound: the last date a window mentions
  Admins,      \* users who approve and retire
  PowerUsers,  \* users who propose and edit their own proposals
  Sessions,    \* requests that can be in flight together
  MaxLog       \* bound: entries of one record's ASSUMPTION_CHANGE history

ASSUME MaxDateAssumption == MaxDate \in Nat \ {0}
ASSUME MaxLogAssumption == MaxLog \in Nat

VARIABLES
  row,      \* CALCULATION_ASSUMPTION: the rows that exist
  log,      \* ASSUMPTION_CHANGE by record
  session   \* for each request: the changes it will commit, by record

vars == <<row, log, session>>

Users == Admins \cup PowerUsers
Dates == 1..MaxDate
Null == 0                       \* a NULL effective_date or expiration_date
Bounds == Dates \cup {Null}
NoStatus == "none"
AssumptionStatus == {"proposed", "active", "retired"}
Columns == {"value", "from", "until", "status"}
Rows == [name : Names, value : Values, from : Bounds, until : Bounds,
         status : AssumptionStatus, by : Users]
Entries == [from : AssumptionStatus \cup {NoStatus}, to : AssumptionStatus, value : Values]
Changes == [cols : SUBSET Columns, val : Rows, entry : Entries]

NoPlan == [i \in {} |-> {}]
Exists == DOMAIN row
Idle(s) == session[s] = NoPlan

-----------------------------------------------------------------------------
(* Windows.                                                                *)

\* Mutant of WindowsOverlap: windows that share only an end do not overlap.
OverlapInside(a, b) ==
  /\ a.until # Null /\ b.from # Null => a.until > b.from
  /\ b.until # Null /\ a.from # Null => b.until > a.from

WindowsOverlap(a, b) ==
  /\ a.until # Null /\ b.from # Null => a.until >= b.from
  /\ b.until # Null /\ a.from # Null => b.until >= a.from

ValidWindow(r) == r.from # Null /\ r.until # Null => r.from <= r.until

\* The filter of get_effective_set for record i and date d.
InEffect(i, d) ==
  /\ row[i].status = "active"
  /\ row[i].from = Null \/ row[i].from <= d
  /\ row[i].until = Null \/ row[i].until >= d

-----------------------------------------------------------------------------
(* Changes a request decides.                                              *)

\* An UPDATE writes only the columns it changed.
Overlay(r, val, cols) ==
  [name |-> r.name, by |-> r.by,
   value |-> IF "value" \in cols THEN val.value ELSE r.value,
   from |-> IF "from" \in cols THEN val.from ELSE r.from,
   until |-> IF "until" \in cols THEN val.until ELSE r.until,
   status |-> IF "status" \in cols THEN val.status ELSE r.status]

StatusChange(i, to) ==
  [cols |-> {"status"}, val |-> [row[i] EXCEPT !.status = to],
   entry |-> [from |-> row[i].status, to |-> to, value |-> row[i].value]]

Edited(r, v, from, until) == [r EXCEPT !.value = v, !.from = from, !.until = until]

\* Mutant of EditChange: the history names the value before the edit.
EditLogsOldValue(i, v, from, until) ==
  LET after == Edited(row[i], v, from, until)
  IN [cols |-> {c \in Columns : after[c] # row[i][c]}, val |-> after,
      entry |-> [from |-> "proposed", to |-> "proposed", value |-> row[i].value]]

EditChange(i, v, from, until) ==
  LET after == Edited(row[i], v, from, until)
  IN [cols |-> {c \in Columns : after[c] # row[i][c]}, val |-> after,
      entry |-> [from |-> "proposed", to |-> "proposed", value |-> v]]

\* _auto_retire_overlaps
Overlapping(i) ==
  {j \in Exists \ {i} : /\ row[j].name = row[i].name /\ row[j].status = "active"
                        /\ WindowsOverlap(row[j], row[i])}

Plan(s, plan) ==
  /\ Idle(s) /\ plan # NoPlan
  /\ session' = [session EXCEPT ![s] = plan]
  /\ UNCHANGED <<row, log>>

-----------------------------------------------------------------------------
Init ==
  /\ row = NoPlan
  /\ log = [i \in Ids |-> <<>>]
  /\ session = [s \in Sessions |-> NoPlan]

\* The row and the first entry of its history, in one transaction.
Propose(i, r) ==
  /\ i \notin Exists /\ Len(log[i]) < MaxLog
  /\ r.status = "proposed" /\ ValidWindow(r)
  /\ row' = [x \in Exists \cup {i} |-> IF x = i THEN r ELSE row[x]]
  /\ log' = [log EXCEPT ![i] = Append(@, [from |-> NoStatus, to |-> r.status, value |-> r.value])]
  /\ UNCHANGED session

\* Mutant of UpdateProposal: the status is not checked.
UpdateAnyTime(s, u, i, v, from, until) ==
  /\ i \in Exists
  /\ row[i].by = u \/ u \in Admins
  /\ ValidWindow(Edited(row[i], v, from, until))
  /\ Plan(s, [x \in {i} |-> EditChange(i, v, from, until)])

\* A field the request leaves out keeps the value read.
UpdateProposal(s, u, i, v, from, until) ==
  /\ i \in Exists /\ row[i].status = "proposed"
  /\ row[i].by = u \/ u \in Admins
  /\ ValidWindow(Edited(row[i], v, from, until))
  /\ Plan(s, [x \in {i} |-> EditChange(i, v, from, until)])

\* One transaction activates the record and retires the ones it overlaps.
Approve(s, u, i) ==
  /\ u \in Admins
  /\ i \in Exists /\ row[i].status = "proposed"
  /\ Plan(s, [x \in Overlapping(i) \cup {i} |->
                StatusChange(x, IF x = i THEN "active" ELSE "retired")])

\* Mutant of Retire: a retired record is reopened instead.
RetireToProposed(s, u, i) ==
  /\ u \in Admins
  /\ i \in Exists /\ row[i].status = "active"
  /\ Plan(s, [x \in {i} |-> StatusChange(i, "proposed")])

Retire(s, u, i) ==
  /\ u \in Admins
  /\ i \in Exists /\ row[i].status = "active"
  /\ Plan(s, [x \in {i} |-> StatusChange(i, "retired")])

Commit(s) ==
  LET plan == session[s]
  IN /\ ~Idle(s)
     /\ \A i \in DOMAIN plan : Len(log[i]) < MaxLog
     /\ row' = [i \in Exists |-> IF i \in DOMAIN plan
                                 THEN Overlay(row[i], plan[i].val, plan[i].cols) ELSE row[i]]
     /\ log' = [i \in Ids |-> IF i \in DOMAIN plan
                              THEN Append(log[i], plan[i].entry) ELSE log[i]]
     /\ session' = [session EXCEPT ![s] = NoPlan]

\* An error on the way: the session is closed and nothing is written.
Rollback(s) ==
  /\ ~Idle(s)
  /\ session' = [session EXCEPT ![s] = NoPlan]
  /\ UNCHANGED <<row, log>>

Next ==
  \/ \E i \in Ids, r \in Rows : Propose(i, r)
  \/ \E s \in Sessions, u \in Users, i \in Ids :
       \/ \E v \in Values, from \in Bounds, until \in Bounds :
            UpdateProposal(s, u, i, v, from, until)
       \/ Approve(s, u, i)
       \/ Retire(s, u, i)
  \/ \E s \in Sessions : Commit(s) \/ Rollback(s)

Spec == Init /\ [][Next]_vars

\* The same program when requests about one name of one client do not overlap.
NamesOf(s) == {row[i].name : i \in DOMAIN session[s]}
OneAtATime == \A s, t \in Sessions : s # t => NamesOf(s) \cap NamesOf(t) = {}

SerialNext == Next /\ OneAtATime'
SerialSpec == Init /\ [][SerialNext]_vars

-----------------------------------------------------------------------------
(* Properties.                                                             *)

\* Rows, change histories and plans have the types of their columns.
TypeOK ==
  /\ Exists \subseteq Ids /\ row \in [Exists -> Rows]
  /\ log \in [Ids -> Seq(Entries)]
  /\ session = [s \in Sessions |-> session[s]]
  /\ \A s \in Sessions : DOMAIN session[s] \subseteq Exists
                         /\ session[s] \in [DOMAIN session[s] -> Changes]

\* "At most one row per (client_id, assumption_name) should be ACTIVE on any
\* given date": with serialized requests, whatever windows are proposed,
\* edited and approved, get_effective_set never has two records to choose from.
AtMostOneInEffect ==
  \A i, j \in Exists : \A d \in Dates :
    i # j /\ row[i].name = row[j].name => ~(InEffect(i, d) /\ InEffect(j, d))

\* However requests interleave, the last change of status in a record's
\* history is to its status.
StatusLogged ==
  \A i \in Exists :
    \E n \in 1..Len(log[i]) :
      /\ log[i][n].from # log[i][n].to /\ log[i][n].to = row[i].status
      /\ \A m \in (n + 1)..Len(log[i]) : log[i][m].from = log[i][m].to

\* With serialized requests a history is also a chain of statuses and its last
\* entry names the value and the status the calculations read.
HistoryChains ==
  /\ StatusLogged
  /\ \A i \in Exists :
       /\ \A n \in 2..Len(log[i]) : log[i][n].from = log[i][n - 1].to
       /\ log[i] # <<>> => /\ log[i][Len(log[i])].value = row[i].value
                           /\ log[i][Len(log[i])].to = row[i].status

\* With serialized requests the value and the window an admin approved never
\* change afterwards.
ReviewedIsFrozen ==
  [][\A i \in Exists :
       row[i].status # "proposed" =>
         /\ row'[i].value = row[i].value
         /\ row'[i].from = row[i].from /\ row'[i].until = row[i].until]_vars

StatusOf(i) == IF i \in Exists THEN row[i].status ELSE NoStatus

\* Change log l without the values.
MovesOf(l) == [n \in 1..Len(l) |-> [from |-> l[n].from, to |-> l[n].to]]

Life == INSTANCE Lifecycle WITH
  Arrows <- {<<NoStatus, "proposed">>, <<"proposed", "active">>, <<"active", "retired">>},
  status <- [i \in Ids |-> StatusOf(i)],
  history <- [i \in Ids |-> MovesOf(log[i])]

\* With serialized requests, reading, deciding and committing apart cannot be
\* told from doing it at once: an approval moves the record and the ones it
\* retires, each along its arrow and each with its own entry.
FollowsLifecycle == Life!Spec
=============================================================================
