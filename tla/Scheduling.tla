------------------------------ MODULE Scheduling ------------------------------
(***************************************************************************)
(* The capacity scheduler: orders are given to production lines one by     *)
(* one, in order of urgency, and the schedule a planner makes of the       *)
(* result is committed and activated.                                      *)
(*                                                                         *)
(* A generation reads its input in one snapshot and keeps its state in     *)
(* local variables, so its steps are those of the loop over the orders.    *)
(* The requests on a stored schedule read the row in one step and commit   *)
(* in another, and nothing locks the row in between.                       *)
(***************************************************************************)
EXTENDS Naturals, FiniteSets, FiniteSetsExt

CONSTANTS
  Orders,     \* primary keys of CAPACITY_ORDERS
  Lines,      \* primary keys of CAPACITY_PRODUCTION_LINES
  Schedules,  \* primary keys of CAPACITY_SCHEDULE
  Planners,   \* requests that can be in flight together
  LastDay,    \* bound: the last day of the planning period
  Demands,    \* what a generation may read of an order
  Rates       \* the net hours a line may have in a working day

Lead == 7   \* an order may start this many days before its required date

Period == 1..LastDay
Nobody == "nobody"
NoRequest == [step |-> "none"]

\* Hours to make the whole order, the day it is required (counted from a week
\* before the period) and its priority, 0 for URGENT to 3 for LOW.
DemandRows == [hours : Nat, due : Nat, rank : 0..3]

ASSUME KeysAssumption == Orders \subseteq Nat /\ Lines \subseteq Nat /\ IsFiniteSet(Orders) /\ IsFiniteSet(Lines)
ASSUME PeriodAssumption == LastDay \in Nat
ASSUME DemandsAssumption == Demands \subseteq DemandRows
ASSUME RatesAssumption == Rates \subseteq Nat
ASSUME PlannersAssumption == Nobody \notin Planners

VARIABLES
  input,        \* what the generation read: orders, lines, working days, sort key
  pending,      \* the orders the loop has not come to
  placed,       \* schedule_items: the line, day and number of each scheduled order
  unscheduled,  \* the orders no line could take
  left,         \* remaining_capacity of each line
  counter,      \* line_day_sequence
  row,          \* CAPACITY_SCHEDULE, and how often its KPI commitments were stored
  request,      \* for each request: what it goes on to do, or NoRequest
  raced,        \* schedules on which requests overlapped; nothing reads it
  promised      \* schedules whose KPI commitments are due; nothing reads it

generation == <<input, pending, placed, unscheduled, left, counter>>
stored == <<row, request, raced, promised>>
schedulingVars == <<generation, stored>>

-----------------------------------------------------------------------------
(* Generation.                                                             *)

\* Urgency by (required_date, priority) or (priority, required_date); equals
\* stay in the order of the query, which names none.
Before(o, p) ==
  LET a == input.order[o]
      b == input.order[p]
      byDue == input.prioritize_by = "required_date"
      first(d) == IF byDue THEN d.due ELSE d.rank
      second(d) == IF byDue THEN d.rank ELSE d.due
  IN \/ first(a) < first(b)
     \/ first(a) = first(b) /\ second(a) < second(b)

\* What _calculate_line_capacity finds for line l.
Capacity(l) == Cardinality(input.days) * input.rate[l]

\* The working days on which order o may start: any day from a week before
\* its required date, however late.
StartDays(o) == {d \in input.days : d + Lead >= input.order[o].due}

Hours(o) == input.order[o].hours

\* Mutant of Fitting: the line only has to have some capacity left.
FittingAny(o) == {l \in Lines : left[l] > 0 \/ Hours(o) = 0}

\* The lines with room for all of order o.
Fitting(o) == {l \in Lines : left[l] >= Hours(o)}

GenerationInit ==
  /\ input \in [order : [Orders -> Demands], rate : [Lines -> Rates], days : SUBSET Period,
                prioritize_by : {"required_date", "priority"}]
  /\ pending = Orders /\ placed = [o \in {} |-> 0] /\ unscheduled = {}
  /\ left = [l \in Lines |-> Capacity(l)]
  /\ counter = [k \in Lines \X Period |-> 0]

\* The order goes to the first line (by key) that has room for all of it, on
\* the first working day it may start; the line pays for it as a whole.
Place(o) ==
  \E l \in Fitting(o), d \in StartDays(o) :
    /\ \A m \in Fitting(o) : l <= m
    /\ \A e \in StartDays(o) : d <= e
    /\ counter' = [counter EXCEPT ![<<l, d>>] = @ + 1]
    /\ placed' = [p \in DOMAIN placed \cup {o} |->
                    IF p = o THEN [line |-> l, day |-> d, sequence |-> counter[<<l, d>>] + 1] ELSE placed[p]]
    /\ left' = [left EXCEPT ![l] = @ - Hours(o)]
    /\ UNCHANGED unscheduled

\* No line has room, or no working day is late enough.
Skip(o) ==
  /\ Fitting(o) = {} \/ StartDays(o) = {}
  /\ unscheduled' = unscheduled \cup {o}
  /\ UNCHANGED <<placed, left, counter>>

\* Mutant of Assign: the orders are not sorted.
AssignUnsorted ==
  \E o \in pending :
    /\ pending' = pending \ {o}
    /\ Place(o) \/ Skip(o)
    /\ UNCHANGED <<input, stored>>

\* One turn of the loop over the sorted orders.
Assign ==
  \E o \in pending :
    /\ \A p \in pending : ~Before(p, o)
    /\ pending' = pending \ {o}
    /\ Place(o) \/ Skip(o)
    /\ UNCHANGED <<input, stored>>

-----------------------------------------------------------------------------
(* Stored schedules.                                                       *)

Exists == DOMAIN row
AtRest(s) == request[s] = NoRequest

\* Request s goes on with schedule id at step.
Start(s, id, q) ==
  /\ request' = [request EXCEPT ![s] = q]
  /\ raced' = raced \cup {i \in {id} : \E t \in Planners : ~AtRest(t) /\ request[t].id = id}
  /\ UNCHANGED <<generation, row, promised>>

\* create_schedule: the planner keeps the result of the generation as a draft.
Create(id) ==
  /\ pending = {} /\ id \notin Exists
  /\ row' = [i \in Exists \cup {id} |->
               IF i = id THEN [status |-> "DRAFT", by |-> Nobody, targets |-> FALSE, commitments |-> 0] ELSE row[i]]
  /\ UNCHANGED <<generation, request, raced, promised>>

\* Mutant of BeginCommit: the status is not looked at.
BeginCommitAnyway(s, id, targets, store) ==
  /\ AtRest(s) /\ id \in Exists
  /\ Start(s, id, [step |-> "commit", id |-> id, targets |-> targets, store |-> store /\ targets])

\* commit_schedule reads a draft.  KPI targets are optional; the service stores
\* a row for each of them afterwards, POST .../schedules/{id}/commit does not.
BeginCommit(s, id, targets, store) ==
  /\ AtRest(s) /\ id \in Exists /\ row[id].status = "DRAFT"
  /\ Start(s, id, [step |-> "commit", id |-> id, targets |-> targets, store |-> store /\ targets])

\* The four columns are written together.
Commit(s) ==
  LET q == request[s]
  IN /\ q.step = "commit"
     /\ row' = [row EXCEPT ![q.id].status = "COMMITTED", ![q.id].by = s, ![q.id].targets = q.targets]
     /\ request' = [request EXCEPT ![s] = IF q.store THEN [step |-> "store", id |-> q.id] ELSE NoRequest]
     /\ promised' = IF q.store THEN promised \cup {q.id} ELSE promised
     /\ UNCHANGED <<generation, raced>>

\* Mutant of StoreCommitments: the request stores them again.
StoreCommitmentsAgain(s) ==
  LET q == request[s]
  IN /\ q.step = "store" /\ row[q.id].commitments < 2
     /\ row' = [row EXCEPT ![q.id].commitments = @ + 1]
     /\ UNCHANGED <<generation, request, raced, promised>>

\* store_kpi_commitments, a second transaction of the same request.
StoreCommitments(s) ==
  LET q == request[s]
  IN /\ q.step = "store"
     /\ row' = [row EXCEPT ![q.id].commitments = @ + 1]
     /\ request' = [request EXCEPT ![s] = NoRequest]
     /\ UNCHANGED <<generation, raced, promised>>

\* activate_schedule reads a committed schedule.
BeginActivate(s, id) ==
  /\ AtRest(s) /\ id \in Exists /\ row[id].status = "COMMITTED"
  /\ Start(s, id, [step |-> "activate", id |-> id])

Activate(s) ==
  LET q == request[s]
  IN /\ q.step = "activate"
     /\ row' = [row EXCEPT ![q.id].status = "ACTIVE"]
     /\ request' = [request EXCEPT ![s] = NoRequest]
     /\ UNCHANGED <<generation, raced, promised>>

\* The transaction fails or the worker dies; what a step committed before
\* stays, and nobody stores the commitments later.
Fail(s) ==
  /\ ~AtRest(s)
  /\ request' = [request EXCEPT ![s] = NoRequest]
  /\ promised' = IF request[s].step = "store" THEN promised \ {request[s].id} ELSE promised
  /\ UNCHANGED <<generation, row, raced>>

SchedulingInit ==
  /\ GenerationInit
  /\ row = [i \in {} |-> 0] /\ request = [s \in Planners |-> NoRequest]
  /\ raced = {} /\ promised = {}

SchedulingNext ==
  \/ Assign
  \/ \E id \in Schedules : Create(id)
  \/ \E s \in Planners :
       \/ \E id \in Exists, targets, store \in BOOLEAN : BeginCommit(s, id, targets, store)
       \/ \E id \in Exists : BeginActivate(s, id)
       \/ Commit(s) \/ StoreCommitments(s) \/ Activate(s) \/ Fail(s)

SchedulingSpec == SchedulingInit /\ [][SchedulingNext]_schedulingVars

-----------------------------------------------------------------------------
(* Properties.                                                             *)

Rows == [status : {"DRAFT", "COMMITTED", "ACTIVE"}, by : Planners \cup {Nobody},
         targets : BOOLEAN, commitments : Nat]

\* Local variables and rows have their types, and the loop has dealt with
\* every order it has passed in exactly one way.
TypeOK ==
  /\ pending \subseteq Orders /\ unscheduled \subseteq Orders
  /\ DOMAIN placed = Orders \ (pending \cup unscheduled) /\ pending \cap unscheduled = {}
  /\ placed \in [DOMAIN placed -> [line : Lines, day : input.days, sequence : Nat]]
  /\ left \in [Lines -> Nat] /\ counter \in [Lines \X Period -> Nat]
  /\ Exists \subseteq Schedules /\ row \in [Exists -> Rows]
  /\ raced \subseteq Schedules /\ promised \subseteq Schedules

Load(l, ids) ==
  SumFunctionOnSet([o \in Orders |-> Hours(o)], {o \in ids \cap DOMAIN placed : placed[o].line = l})

\* The orders on a line never take more than its net hours, and what the loop
\* still gives away is what they leave of them (_assign_orders_to_lines).
WithinCapacity ==
  \A l \in Lines : Load(l, Orders) <= Capacity(l) /\ left[l] = Capacity(l) - Load(l, Orders)

\* Urgency decides: an order left out would not have fitted on any line had
\* the planner dropped every less urgent order, and the orders of a line and
\* day are numbered from 1 in the order of urgency.
UrgentFirst ==
  /\ \A o \in unscheduled : StartDays(o) # {} =>
       \A l \in Lines : Hours(o) + Load(l, {p \in Orders : ~Before(o, p)}) > Capacity(l)
  /\ \A l \in Lines, d \in input.days :
       LET here == {o \in DOMAIN placed : placed[o].line = l /\ placed[o].day = d}
       IN /\ {placed[o].sequence : o \in here} = 1..Cardinality(here)
          /\ \A o, p \in here : Before(o, p) => placed[o].sequence < placed[p].sequence

\* "Finalized, KPIs locked": as long as requests do not overlap on a schedule,
\* it never becomes a draft again, an active one stays active, and who
\* committed it and whether to targets does not change.
CommittedStays ==
  [][\A id \in Exists : row[id].status # "DRAFT" /\ id \notin raced' =>
       /\ row'[id].status \in {row[id].status, "ACTIVE"}
       /\ row'[id].by = row[id].by /\ row'[id].targets = row[id].targets]_schedulingVars

\* A request is between its commit and the commitments of schedule id.
StoringOn(id) == \E s \in Planners : ~AtRest(s) /\ request[s].id = id /\ request[s].step = "store"

\* As long as requests do not overlap on a schedule, the KPI commitments of
\* its targets are stored once: none are missing unless the request is still
\* to store them or failed between its two transactions.
CommitmentsStored ==
  \A id \in Exists \ raced :
    /\ row[id].commitments = IF id \in promised /\ ~StoringOn(id) THEN 1 ELSE 0
    /\ id \in promised => row[id].targets /\ row[id].status # "DRAFT"
=============================================================================
