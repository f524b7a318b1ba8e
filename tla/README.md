# Verification of the KPI Operations platform

TLA+ models of the parts of the KPI Operations platform (`src/`) that keep state under
concurrency, failures and long sequences of requests, the TLC instances that check them, and
theorems proved with TLAPS for every value of the constants.

- [1. The system](#1-the-system): inventory
- [2. The models](#2-the-models): which module models what, and how
- [3. Checks](#3-checks): runs, bounds, fairness, what they show
- [4. Proofs](#4-proofs): theorems, assumptions, inductive invariants
- [5. What the code does otherwise](#5-what-the-code-does-otherwise): disagreements and races
- [6. Not modelled](#6-not-modelled) and [7. Plan](#7-plan)

## 1. The system

A FastAPI backend serves a Vue client. In production four gunicorn worker processes
(`docker-compose.prod.yml:68`) share one MariaDB; development uses SQLite. An endpoint is a
synchronous function in a thread pool, so one worker serves several requests at a time. Each
request has a SQLAlchemy session of its own (`backend/database.py`): one transaction from the
first SELECT to the commit, rolled back when it is closed early. MariaDB runs at REPEATABLE
READ: a request reads a snapshot, and its UPDATE writes the columns it changed to whatever the
row is by then. There are no row versions and no `SELECT ... FOR UPDATE`. Almost every hazard
of the backend follows from this: *a request decides on the row it read and commits later*.

| Component | State | Operations | What is hard | Correct when |
|---|---|---|---|---|
| Work orders and workflow (`calculations/workflow_engine.py`, `crud/work_order.py`, `routes/workflow.py`) | `WORK_ORDER`, `WORKFLOW_TRANSITION_LOG`, the client's workflow in `CLIENT_CONFIG` | create, transition, bulk transition, PUT, PATCH status, approve QC, change the workflow | overlapping requests on one order, edits beside transitions, a history that must explain the row | the history explains the status, terminal is final, gates hold, a hold remembers |
| Quality holds and WIP aging (`routes/holds.py`, `calculations/wip_aging.py`) | `HOLD_ENTRY`, `HOLD_STATUS_TRANSITION` | create, approve hold, request and approve resume, the as-of query | as-of questions over dates and history, midnight, rows older than the history table | the KPIs count what the rows say, the past does not change |
| Event bus (`events/bus.py`, `events/session_hooks.py`, `orm/event_store.py`) | one list per process, `EVENT_STORE` | collect, flush after commit, discard after rollback | threads share the list, the flush re-enters itself, faults and restarts | handled once, in order, only if committed, eventually |
| Calculation assumptions (`services/assumption_service.py`) | `CALCULATION_ASSUMPTION`, `ASSUMPTION_CHANGE` | propose, edit, approve (retires what overlaps), retire, effective set | windows with open ends, several rows changed at once, overlapping approvals | one record in effect per name and date, reviewed values frozen, a complete change log |
| KPI and configuration cache (`cache/kpi_cache.py`, `crud/client_config.py`) | a dictionary per worker | get, get-or-set, delete, clear, expiry | a miss and its store are two steps, invalidation reaches one process, time | staleness is bounded, own changes show, the size is limited by expiry |
| Line assignment, floating pool, audit (`crud/employee_line_assignment.py`, `crud/floating_pool`, `audit/capture.py`) | `EMPLOYEE_LINE_ASSIGNMENT`, `FLOATING_POOL`, flags of `EMPLOYEE`, `AUDIT_ENTRY` | create, update, end; assign, release, edit, join and leave the pool | limits are checked before the insert, edits that are not checked, days that pass | at most two lines and 100 %, one primary, no double booking, a trail that tells all |
| Capacity workbook, web client (`frontend/src/stores/capacity`) | worksheets, dirty flags, undo history, `clientId` | edit, undo, redo, load, save all, analyses, reset | answers that arrive late or out of order, edits during a save, failures inside the loop | rows belong to the client shown, nothing unsaved counts as saved, saving ends |
| Capacity scheduler (`services/capacity/scheduling_service.py`, `capacity_service.py`) | `CAPACITY_SCHEDULE`, KPI commitments | generate, create, commit, activate | a greedy allocation, overlapping commits, a commit in two transactions | capacity is not exceeded, urgency decides, what is committed stays |
| Production line simulation (`simulation_v2/engine.py`) | bundles, machines, counters | discrete-event processes | shared machines, counters across waits | counters agree with the floor, nobody waits for ever, the demand is made |
| Startup (`bootstrap/lifecycle.py`, `db/migrate.py`, `scripts/init_demo_database.py`) | schema, migration stamp, demo seed, two named locks | lock, detect, rebuild, seed, release | four workers start at once, time-outs, kills | one at a time prepares, complete data survives, the work gets done |
| Capacity analysis, materials, scenarios (`services/capacity`) | result rows | explode, compare with stock, what-if | one transaction per component of a check | arithmetic |
| Authentication (`auth/jwt.py`, `authStore.ts`) | revoked tokens, the browser's token | login, logout, refresh, 401 | pruning against expiry, late answers | revoked stays revoked, a new login survives |
| Everything else | - | data entry, CSV, KPI formulas, dashboards, reports | arithmetic and queries | - |

How they interact. Requests meet in database rows and nowhere else, except for what one
process keeps in memory: the bus and the cache. Services *collect* events in their
transaction, and the session's commit and rollback *hooks* are to publish or discard them; the
audit listeners write into the transaction they record. KPI calculations *read* what the
other components keep: the as-of state of holds, the effective assumptions, the cached
configuration. An administrator changes a client's workflow while its orders move. The web
client meets the server only through requests that may be answered late or not at all.

## 2. The models

### How a request is modelled

`WorkOrders`, `HoldApproval`, `Assumptions` and `Staffing` share one shape, and the stored
schedules of `Scheduling` a smaller form of it:

- a **handler** (`Transition`, `ApproveHold`, `Approve`, ...) is the SELECT and the decision.
  Its guards are the handler's checks; what it will write is a *plan* in `session[s]`: the
  columns, their values and the history row;
- **`Commit(s)`** writes the plan to the rows as they are *then*, column by column, and
  appends the history;
- **`Rollback(s)`** is any error between the two;
- an operation that decides nothing on existing rows (`Create`, `Propose`) is one step.

`Spec` lets requests overlap in every way. `SerialSpec` is the same `Next` in which no two
requests in flight touch the same order, hold or name (`OneAtATime`): the reading of one
handler at a time, and the behaviour of an installation where users do not collide. Whether a
property holds under `Spec` or only under `SerialSpec` is a result and stated with every run
and theorem; section 5 says what overlapping requests do to the latter.

The other modules answer the same question with bookkeeping variables that no guard reads: a
behaviour is *marked* when requests overlap, a statement fails or an answer comes for somebody
else (`irregular` in `Staffing`, `marks` and `loose` in `Workbook`, `calm` in `EventBus`,
`raced` in `Scheduling`, `broken` and `skipped` in `Startup`), and a property says for which
marks it speaks. Every run explores the marked behaviours too, and a property of a thing that is
marked may still say something of the others.

### Modules

| Module | Models | Correspondence |
|---|---|---|
| `Lifecycle` | what the program promises of everything with a status and a history | objects move along `Arrows`, a move and its history entry are one step, nothing is rewritten. Abstract: it has no requests |
| `WorkflowRules` | the pure part of the workflow engine | `Configs` are workflow configurations, with the defaults and the shipped templates. `IsTransitionValid`, `ValidateTransition` are the methods of that name, gates included; `Transitioned` and `TransitionColumns` are the columns `execute_transition` sets |
| `WorkOrders` | the endpoints that change an order | `wo`, `log`, `config`. A row is its status, `previous_status`, whether it has a quantity, QC approval, dispatch, shipment and closing dates. `UpdateStatusUnlogged` is the `except` of `crud/work_order.py` that logs an error and goes on; `StatementFaults` are the orders it may happen to |
| `HoldApproval` | the approval of holds, `active_as_of` | `hold`, `log`, `today`. Time is in days, the grain of every query; `StatusAsOf` has the three tiers of the code; `LegacyRows` have no history |
| `EventBus` | the bus of one process | `collected` is the shared list, `frames[r]` the activations of `flush_collected` of a thread, innermost last: persisting an event commits a session with the same hooks. `Hooked` says whether anything installed them |
| `Assumptions` | the assumption service | `row`, `log`. A window has two ends in `Bounds`, `Null` included. `Approve` plans the approval and the retirement of what overlaps |
| `KPICache` | the caches of all workers | `version[k]` counts the changes of the data of a key and stands for it. An entry has the version it was fetched from, the ticks `left`, how long it has been superseded (`old`), and whether a change in its own worker owes its removal (`due`). `Begin`, `Miss`, `Fetch`, `Store` are the separate steps of `get_or_set` |
| `Staffing` | line assignments with their audit entries, and the floating pool | tables are sequences (rows are never deleted). A plan may insert one row and update others; the unique key is checked at the commit. `EmployeeNext` are edits of the employee |
| `Workbook` | the stores behind the capacity workbook | code between two awaits is one step. `loads`, `run`, `analyses` are the requests in flight, answered in any order or failed; `Continue` is the loop of `saveAllDirty`. Rows are the clients they belong to and the act of the user that made them |
| `Scheduling` | generation and stored schedules | a step of `Assign` is a turn of the loop over the sorted orders; commit, KPI commitments and activation are requests with a read and a write |
| `Simulation` | the simulation engine | a bundle is a process with a place in its operation; `users` and `queue` are SimPy's. Durations are arbitrary: any process may go next |
| `Startup` | the lifespan of the workers | `holder` of each named lock, `at` of each worker, `db`; kills, failed statements, time-outs and restarts of the container |

`WorkOrders`, `HoldApproval` and `Assumptions` each instantiate `Lifecycle` with a refinement mapping
(`Life`): status and history of the abstraction are those of the rows, the transition log
being projected on `from` and `to`. `FollowsLifecycle == Life!Spec` is checked by the serial
runs and proved for all constants. Of work orders the mapping takes those that lose no history row.

The `MC...` modules hold the values of small instances and the symmetry sets, the `...Proofs`
modules the theorems. `PlanningProofs` holds those of `Scheduling`, `Simulation` and `Staffing`
together, because they share the lemmas about sums; the three name their specifications
apart (`SchedulingSpec`, `SimulationSpec`, `StaffingSpec`) for that reason. An operator whose comment says *Mutant of X* is X with a plausible bug.
It takes part in no specification; every property is checked to fail when its mutant takes
the place of the original, so that no property holds by the shape of the model.

### Abstractions

- Identifiers, values and users are model values or small sets; texts are left out.
- A quantity of a work order is whether it is positive, a timestamp whether it is set: the
  code tests no more. Hours of an order and net hours of a line are natural numbers.
- Authentication and the tenant check are guards without state and are left out, except where
  a role decides a state change (a supervisor's hold, proposer and approver).
- The bus runs its handlers without knowing what they do: an error in one is caught.
- A fetched `None` is what the cache takes for a miss; keys without data are left out.
- The server is external to `Workbook`, and SimPy to `Simulation`: both are modelled as the
  code uses them.
- The seed of the demo data is a number of transactions (`Batches`).
- Deletion of an order or a hold is a soft delete that finds no `is_active` column and changes
  nothing.

## 3. Checks

Each run is `tlc -config <run>.cfg <module>`; the module is the `MC...` module of the component.

| Run | Specification, instance | Properties | Distinct states |
|---|---|---|---|
| `wo_serial` | `SerialSpec`; two orders, one of which may lose history rows, two requests, two workflows | `StatusExplained`, `HoldRemembers`, `FollowsLifecycle`, `TerminalIsFinal`, `GatesHold` | 571 006 |
| `hold_serial` | `SerialSpec`; two holds, two requests, three days, legacy rows | `HistoryChains`, `AgingAgrees`, `PastIsSettled`, `FollowsLifecycle` | 59 761 |
| `asum_serial` | `SerialSpec`; two records of a name, two values, two dates with open ends | `HistoryChains`, `AtMostOneInEffect`, `ReviewedIsFrozen`, `FollowsLifecycle` | 179 137 |
| `bus` | `FairSpec`; two transactions of two events, overlapping or not, every fault | `HandledOnce`, `ExactlyCommitted`, `InOrder`, `CommittedIsHandled` | 50 689 |
| `bus_deployed` | the application as it starts (`Hooked = FALSE`) | `CommittedIsHandled` is violated | - |
| `cache_expiry` | `FairSpec`; two requests of a worker, two keys, limit 1, time to live 2 and 1 | `StaleForAtMost`, `OwnChangesDropped`, `GrowsWithLiveOnly`, `Converges` | 321 582 |
| `staffing` | `MCSpec`; an employee, three lines or three pool rows, two requests, two days | `LimitsHold`, `TrailTellsAll`, `BookedOnce` | 1 495 137 |
| `staffing_booking` | `MCSpec`; one request at a time | `NoDoubleBooking` is violated | - |
| `workbook` | `MCSpec`; two clients, three worksheets, two runs of saves, a history of two, three acts | `SavesOwnRows`, `CleanIsAccepted`, `SavedAllOrSaid`, `SavingEnds` | 477 290 |
| `scheduling` | `SchedulingSpec`; three orders, two lines, two days, a schedule, two requests | `WithinCapacity`, `UrgentFirst`, `CommitmentsStored`, `CommittedStays` | 2 848 894 |
| `simulation` | `FairSimulationSpec`; two bundles each of two products on crossing routes, a product without operations, breakdowns | `CountersAgree`, `MachinesShared`, `DemandMet`, `Drains` | 67 192 |
| `startup` | `FairSpec`; three workers, two demo clients and another, three batches, two faults | `OneSeeder`, `ServesWhole`, `WholeIsKept`, `Completes` | 67 814 |

### What they show

*Work orders.* The status of an order is the target of the last history row that is not a note,
and the two arose together (`StatusExplained`). If requests do not overlap on an order,
terminal states are final, and the orders that keep their history follow the abstract life
cycle and remember, as long as they are on hold, what the hold interrupted (`HoldRemembers`; an order created
on hold interrupted nothing). A gate is tested on the row as it is when the request reads it: an order
completes only if it had a quantity and ships only if it had an approval, and has either still
when it gets there unless the same PUT writes that column (`GatesHold`). `TerminalIsFinal` and
`GatesHold` hold also of the order whose history rows are lost, `HoldRemembers` does not.

The documentation promises more, and the run contains what breaks it (section 5): a PUT that carries
both `COMPLETED` and a quantity of zero, and an order put on hold by an update that swallows the
error of the transition and saves no previous status. `AlwaysGatedOnArrival` and `AlwaysHoldSaves`
prove that there are no other ways, save a PUT that writes `previous_status` itself.

*Holds.* `AgingAgrees` relates two independent definitions: the query decides by dates and
history, the approval flow by the row's status. `PastIsSettled` says that approvals today do
not rewrite the KPIs of a day that is over, for rows without a history too.

*Assumptions.* Whatever windows are proposed, edited and approved one after the other, closed
at both ends or open, no date has two records in effect.

*Events.* The bus never hands an event to a handler twice, whatever threads, failing inserts
and restarts do: two flushes may copy the same event, but only one can store it. While a run is
`calm` (transactions do not overlap and end in a commit or a rollback, `EVENT_STORE` and the
process do not fail) exactly the events of committed transactions are handled, in their order,
in spite of the re-entrant flush: none of another transaction ever, and all of a transaction as
soon as its flush has returned (`ExactlyCommitted`), which it does (`CommittedIsHandled`).

*Cache.* However invalidations get lost (a late store undoes one, one reaches one worker of
four, a creation sends none, a refresh fails before it) no answer is older than the time to
live of its key plus one request; and when changes stop, every worker's answers become current.

*Staffing.* Over plans, commits, endings and days, an employee has two lines at most and 100 %
at most (`LimitsHold`) as long as two requests about the employee do not overlap and no update
reopens an ended assignment: those are the ways around the check, and the property names them.
The audit trail, read alone, gives back the present row: on every column the last word is the
row's, although requests overlap, and as long as they do not it gives back every value the row
had, each entry starting from the last word of those before it (`TrailTellsAll`). `BookedOnce` has the exception that `staffing_booking` shows to be needed.

*Workbook.* Rows of one client never appear under, and are never saved under, another one's
id, also through undo and redo after a change of client, unless loads overlap or fail. A sheet
without its mark shows what the server last sent or took, unless it changed behind a save
(`loose`: the hazard of `useWorkbookStore.ts:138`), a run of saves that started alone leaves nothing
that it was asked to save both unsaved and unsaid, and saving always ends.

*Scheduling.* The greedy loop never takes more of a line than it has, and dropping every order
less urgent than one left out would not make room for it. A committed schedule keeps its
commitments, each stored once.

*Simulation.* Routes that cross cannot block each other, because a bundle releases a machine
before it asks for the next; nobody waits while a machine is free, or is lost from a queue, and as long as bundles are not
done, one of them is not waiting (`SomebodyGoesOn` in `MachinesShared`). Counters that processes raise and lower across waits agree with
the bundles on the floor at every moment, and if the horizon is long enough exactly the demand is made.

*Startup.* Whatever is killed or times out, two workers are never at the demo data together,
complete data is never dropped unless a reseed is forced, a worker serves incomplete data only
while another one is still to complete them (`ServesWhole`), and all workers serve complete
data in the end, unless one was cut short: stopped in the middle of a rebuild, after which the
code has no way back (section 5), or by an error of its check or of `GET_LOCK` (`broken` marks both).

### Bounds

`MaxLog` bounds the history of one row, `MaxDay`, `LastDay` and `MaxDate` the days, `MaxEvents` the
events of a transaction, `MaxVersion` the changes of a key, `MaxLines`, `MaxPool` and `MaxTrail`
the rows and the trail of an assignment, `MaxHistory` the undo entries (the code has 50),
`MaxActs` the acts of the user, `MaxFaults` the kills and failures; `MaxOld` is where counting
staleness stops, above every value the properties compare it with. Each appears in the guard
of the action that would exceed it. They are large enough for the cases that matter:

- three history rows hold a creation, a hold and a note, cancellation or completion after it;
  three days a hold that starts, stops and is asked about on different days; two dates with
  open ends every relation of two closed windows (apart, touching, nested, equal, unbounded);
- two transactions of two events give a flush inside a flush beside another thread's; two
  versions a late store of the first over an invalidation for the second;
- three line rows exceed the limit of two, three pool rows make `.first()` pick the wrong one;
- three acts are an edit, a save or load, and an undo or edit while it runs; two undo entries
  overflow;
- orders of three make one that fits nowhere, one that leaves a gap and one that takes it; two
  lines and days make the choice of either matter;
- two bundles of each product meet on both machines and in the queue of each;
- three workers are a holder, one that waits and one that times out; two faults a kill and
  another one during the recovery from it.

Sessions are interchangeable, and so are the keys of `Staffing` and the ids of `Assumptions`:
no action and no property distinguishes them, and the runs with symmetry check no liveness.
`MCStaffing` follows either the lines or the pool of an employee, which share nothing but the
employee's flags; at marks for which the properties say little, the requests in flight commit and the
behaviour ends. `MCWorkbook` starts from an empty
and from a loaded workbook, so that the acts are left for what follows the load, and a run of saves
takes the first free slot, since slots are interchangeable. A second run can only start when a
reset has released the button under the first; three acts are enough for that.

The theorems of section 4 remove the bounds on orders, requests, workers, keys, worksheets, lines and dates.

Deadlock is checked for the cache and for work orders, where something is always possible. The
other instances come to an end: the last day or history row is reached, every
transaction has ended, the simulated floor is empty, every worker serves.

### Fairness

- `EventBus!FairSpec`: weak fairness of every step of a flush. The thread of a request that
  has committed goes on running; nothing makes it wait.
- `KPICache!FairSpec`: weak fairness of `Tick` (time passes) and of the steps of a request in
  flight (threads run).
- `Workbook!FairSpec`: weak fairness of `SaveAnswered(i) \/ SaveFailed(i)`. The browser settles
  every request, with an answer or an error. No fairness of loads: nothing depends on them.
- `FairSimulationSpec`: weak fairness of the steps of the bundles together, not of each one.
  `env.run` goes on with the next event as long as there is one; which one is left open.
- `Startup!FairSpec`: weak fairness of `Step(w)`. A live worker goes on, and `GET_LOCK` answers
  with the lock or with its time-out.

No fairness is assumed of users, changes, failures, rollbacks or kills. `MaxRequest` in
`KPICache` is an assumption on time rather than on scheduling: a request that reads ends within
`MaxRequest` ticks. The code sets no such limit for a thread; the bound of `StaleForAtMost` is
stated in terms of it because it depends on it.

## 4. Proofs

Proved with TLAPS for all values of the constants that satisfy the named assumptions
(`...Assumption` in each module: types of constants, a positive time to live, finite sets of
cache keys, orders and lines). TLC evaluates the assumptions in every run.

| Module | Theorem | Statement |
|---|---|---|
| `WorkOrdersProofs` | `TypeCorrect` | `Spec => []TypeOK` |
| | `StatusAlwaysExplained` | of `Spec`, for orders that lose no history row |
| | `TerminalStaysFinal`, `GatesAlwaysHold` | of `SerialSpec`, also for orders that lose history rows |
| | `AlwaysGatedOnArrival` | of `SerialSpec`, if no PUT sets a quantity of zero or a false approval together with a status |
| | `AlwaysHoldSaves` | of `SerialSpec`, if no history row is lost and no PUT names `previous_status` |
| | `AlwaysHoldRemembers` | of `SerialSpec`, for orders that lose no history row, if no PUT names `previous_status` |
| | `HistoryAlwaysChains`, `AlwaysFollowsLifecycle` | of `SerialSpec`, for orders that lose no history row |
| `HoldApprovalProofs` | `TypeCorrect`, `HistoryMatchesRow` | of `Spec`, any number of overlapping requests |
| | `HistoryAlwaysChains`, `AgingAlwaysAgrees`, `PastStaysSettled`, `AlwaysFollowsLifecycle` | of `SerialSpec`, for holds that do not start in the future |
| `AssumptionsProofs` | `TypeCorrect`, `StatusAlwaysLogged` | of `Spec` |
| | `AtMostOneAlwaysInEffect`, `HistoryAlwaysChains`, `ReviewedStaysFrozen`, `AlwaysFollowsLifecycle` | of `SerialSpec` |
| `EventBusProofs` | `TypeCorrect`, `AlwaysHandledOnce`, `AlwaysExactlyCommitted`, `AlwaysInOrder` | of `Spec`, any number of threads and events |
| `KPICacheProofs` | `TypeCorrect`, `StaleIsBounded`, `OwnChangesAlwaysDropped`, `GrowsWithLiveEntriesOnly` | of `Spec`, any number of workers and keys |
| `WorkbookProofs` | `TypeCorrect`, `AlwaysSavesOwnRows`, `AlwaysCleanIsAccepted`, `AlwaysSavedOrSaid`, `BlockedBySaves`, `RunsAdvance` | of `Spec`, any worksheets, clients, runs, length of history |
| `PlanningProofs` | `TypeCorrect`, `AlwaysWithinCapacity`, `AlwaysUrgentFirst`, `AlwaysCommitmentsStored`, `CommittedAlwaysStays` | of `SchedulingSpec`, any orders, lines, hours, days and requests |
| | `FloorCorrect`, `AlwaysMachinesShared`, `AlwaysCountersAgree`, `AlwaysDemandMet` | of `SimulationSpec`, any products, routes, bundles, demands and breakdowns |
| | `TablesCorrect`, `AlwaysBookedOnce`, `AlwaysTrailTellsAll`, `AlwaysLimitsHold` | of `StaffingSpec`, any employees, rows, days and number of overlapping requests |
| `StartupProofs` | `TypeCorrect`, `AlwaysOneSeeder`, `AlwaysServesWhole`, `WholeAlwaysKept`, `LocksAreLive` | of `Spec`, any number of workers and faults |

The inductive invariants, and why the properties alone are not inductive:

- *Overlapping requests.* A property of rows and histories is broken by the commit of a plan
  that was never justified, so the invariant also says what plans in flight are worth: a plan
  that writes a status carries a history row that ends in it. That suffices for
  `StatusExplained`, `HistoryMatchesRow` and `StatusAlwaysLogged`, because the commit
  writes both.
- *Requests that do not overlap.* Here a plan must still fit the row when it commits: the row
  is the one it was decided on, since nobody else may plan for it (`OneAtATime`). From that
  follow the chains of histories, `TerminalIsFinal`, `GatesHold` and the refinement.
- *Refinement.* Under the mapping a handler is a stutter and a commit moves exactly the objects
  whose plan has a history entry, along an arrow; the invariant supplies that the arrow starts
  where the object is.
- *Gates.* What the row has afterwards depends on the whole plan: `GInv` adds to a plan that fits the
  row that, if it writes a status, it writes neither a quantity of zero nor a false approval.
- *Holds and `previous_status`.* That a last move into `ON_HOLD` exists is `StatusExplained`.
  What it left is in a row that later changes may write. `HInv` says it without asking that the
  order is on hold now: if the last entry of a history that is not a note entered `ON_HOLD`, the row remembers
  where it started; and every plan in flight keeps that (`Keeps`): a change that enters
  `ON_HOLD` writes the status it leaves, any other one leaves the column alone.
- *As-of queries.* `AgingAgrees` needs that histories are ordered in time, end in the row's
  status, and that a resume date is the day of the last transition. Lemmas say what
  `StatusAsOf` selects from such a history, and that appending an entry of a later day does
  not change what it selects for an earlier one.
- *Windows.* `AtMostOneInEffect` rests on the lemma that windows which share a date satisfy
  `WindowsOverlap`, so an approval plans the retirement of every active record it could
  coincide with.
- *The bus.* `Once` says that only stored events have been handled or wait in a frame to be,
  each in one place: from the insert on an event belongs to the frame that stored it. `CalmInv`
  describes calm behaviours: one transaction is in flight, what is collected is its events in
  order, what is stored was committed, what a frame still has to do comes after what was handled. `Accounted` says where each event is:
  collected while its transaction is open or its flush has not yet copied the list, then in the
  outermost frame of its thread, then handled; nested frames are empty, so that an event leaves the
  outermost frame only by being dispatched.
- *Staleness.* `StaleForAtMost` bounds `old` alone and is not inductive: the next tick may age
  an entry at its bound. The invariant trades age against the time that is left:
  `old + left <= TTL + MaxRequest` for a live entry and `old <= age` for a request. A tick
  raises `old` by one at most and lowers `left` by one; `Store` starts from a fetch no older
  than its request.
- *Size of the cache.* Only `Store` adds a key, and at capacity it keeps live entries only;
  the proof counts domains with the theorems on finite sets.
- *Whose rows.* `OwnInv`: since the last load that nothing overlapped, either one load of the
  chosen client and no save is in flight, or no load is and every worksheet, undo and redo
  entry and running save is the chosen client's. The clause on history entries is what undo needs.
- *Saves.* For `CleanIsAccepted` a save in flight carries the rows that are shown, unless they
  are loose (`CarriesShown`), so that the answer may clear the mark. For `SavedAllOrSaid` a run that
  started alone stays alone, and each worksheet it is to save is clean, has its note, or is still
  ahead of it in `Order` (`SaidInv`).
- *Schedules.* What a request in its second step knows of the row it read holds as long as
  nobody raced it; the rows of KPI commitments are counted against that step.
- *Startup.* A worker at the data holds the lock (`Locked`), the expected clients tell whether
  the seed began (`ClientsTell`), incomplete data without a break is being rebuilt by a worker
  (`Rebuilt`), and a worker past the seed left it whole (`Past`). When workers skip the work,
  this is not enough to know that it is done once all of them serve: `Held` says that a lock that
  is taken is held by a live worker inside of it, so that who times out leaves the work to somebody, and
  `ToCome` that what is not complete has a worker still to complete it.

- *Sums.* The library defines the sum of a function over a set by a recursive function that
  removes one chosen element at a time. What a recursive function computes is out of
  reach as an induction over data, but a sum of naturals is also a cardinality: `Units(f, S)`
  has `f[x]` elements for each `x`. Counting units satisfies the equation of the recursive
  function (`IterEquation`), so that the function the library chooses exists; a smallest subset
  on which it and the count differ is impossible (`SumIsCount`, on `WFMin`). From there the theorems on finite
  sets give what the invariants need: adding an element (`SumAdd`), a part of a set
  (`SumMonotone`), equal numbers (`SumSame`). The counters of the simulation are compared with cardinalities in
  the same way, without a sum.
- *Generation.* `WithinCapacity` is not inductive without the equation between what is left
  of a line and the hours on it (`Paid`). `UrgentFirst` compares an order left out with the more urgent ones
  only, and orders that are placed later must not disturb it: `Sorted` says that no order still to
  come is before one that has been dealt with, so that what the loop places from then on is not in the sum.
- *Machines.* `MInv` adds to `MachinesShared` where a bundle can be (`Floor`: pieces only at a
  machine, the operation one of its product) and that nobody waits twice (`Once`), which is what
  the head of a queue needs when a machine is released to it. That the floor never stops
  follows from `MInv` without a further step: who waits does so for a tool all of whose
  machines are taken, a tool has at least one machine (`SumAtLeast`), and who holds a machine waits
  for nothing (`SomebodyDoes`). No ring of waiting bundles exists because nobody in it could hold anything.
- *Counters.* Every step of a bundle moves it from one set of the invariant to another, or
  adds one piece to one operation; the proof counts what changes for each step. `DemandMet` then
  needs no invariant of its own: all bundles finished means that throughput is `BundlesNeeded`
  times their size, and rounding up covers the demand with less than a bundle to spare (`RoundedUp`).
- *Staffing.* `SBase` is types, plans that change rows of one employee only (`Plans`), and that
  two requests in flight about one employee leave the mark (`Alone`). Each property adds what a
  plan in flight is worth as long as nobody raced its employee: it lends no day that is taken (`Free`, in
  `SPool`), it starts from the rows as they are (`Fresh`, in `STrail`; that a trail ends in its row needs no
  such thing, because the entry and the column take the same value), it leaves its employee
  within the limits (`FitsLimits`, in `SLimits`: sums and cardinalities of the rows as the commit
  will leave them). A commit makes the rows what the plan said; the end of a day only takes active rows away.

### Only model-checked

- Liveness, which is out of the prover's reach: `CommittedIsHandled`, `Converges`,
  `SavingEnds`, `Drains`, `Completes`. Every other property of a passing run is also proved. Of
  each of the five the part that is not about fairness is proved as well, so that what rests
  on TLC is only that steps which can be taken are taken: a transaction that has flushed has left no event
  behind (`AlwaysExactlyCommitted`), an entry too old is served no more (`StaleIsBounded`), the button
  is blocked only while a run goes on and every answer takes the run onward (`BlockedBySaves`,
  `RunsAdvance`), some bundle that is not done can go on (`AlwaysMachinesShared`), and when all
  workers serve, the data is complete (`AlwaysServesWhole`).
- That the exceptions are needed (section 5): `bus_deployed` and `staffing_booking` show two of
  them; the races are visible when the marks are ignored.

No theorem rests on anything unproved. Modules with theorems use recursive functions and the
sums of the library, no `RECURSIVE` operator.

## 5. What the code does otherwise

### Shown by a run that finds a violation

- `bus_deployed`: events are "flushed after successful commit", but nothing calls
  `setup_session_hooks`: the list of a process grows, and no event is published.
- `staffing_booking`: of an employee's assignments only one, whichever the database returns
  first, is compared with a new one: an employee with two assignments can be lent again over the
  other (`crud/floating_pool/assignments.py:70`; the docstring at `:30` promises
  "Prevents double-assignment of employees").

### When requests overlap

Seen when `Spec` takes the place of `SerialSpec`, and in behaviours marked as raced:

- two transitions validated on the same row both commit: the second may lead out of a terminal
  status or past a gate, and the two history rows start from the same status;
- two resumptions of a hold, or an approval beside one, write over each other: a resumed hold
  returns to an earlier status with its resume date set;
- an edit of a proposal commits after its approval: a value nobody reviewed comes into force;
  two approvals of overlapping windows both stay active, against the comment at
  `backend/orm/calculation_assumption.py:54`; a decision on a record since retired reopens it;
- two assignments together exceed two lines or 100 %, and two bookings overlap;
- two commits of a draft schedule both succeed, and one that read the draft sets a schedule that
  is active by then back to committed (`scheduling_service.py:272`,
  `routes/capacity/analysis.py:402-434`).

### Work orders, holds, events, cache

- The glossary draws "Any -> ON_HOLD -> (previous state)", but the workflows the program ships have
  no way from `ON_HOLD` back to every status it can interrupt.
- The gates can be passed within one request. A PUT with the status `COMPLETED` and an
  `actual_quantity` of 0, which the schema allows (`schemas/work_order.py:98`), passes the gate on
  the row it finds (`workflow_engine.py:194`) and then writes the zero
  (`crud/work_order.py:267-273`): the order is completed with nothing. In the same way one with
  `SHIPPED` and `qc_approved` 0 ships an order without approval. The document asks for both of
  the order itself (`backend/docs/WORKFLOW_STATES.md:62-63`, `:232-233`), and the engine says
  "actual_quantity must be greater than 0" (`workflow_engine.py:195`). `GatedOnArrival` says the same;
  `MCEdits` has such a PUT, and TLC finds the violation in four states when the property is added to
  `wo_serial.cfg`.
- A hold can forget. When the SELECT of the last transition fails (`workflow_engine.py:345`), before
  `previous_status` is set (`:356`), the update logs the error and sets the status all the same
  (`crud/work_order.py:263-273`): the order is on hold, and `previous_status` is unset or names what
  an earlier hold interrupted, and then it can only be resumed to that. "Current status saved to
  `previous_status`", says `WORKFLOW_STATES.md:159`; the statement under the comment "Store
  previous status for ON_HOLD tracking" (`crud/work_order.py:243-244`) has no effect.
  `HoldSavesStatus` says what the document says, and fails in the same way when it is added to `wo_serial.cfg`.
- An update whose SELECT of the last transition fails changes the status without a history row
  (`StatementFaults`); a PUT may write `previous_status` itself (`schemas/work_order.py:121`),
  which `AlwaysHoldRemembers` therefore excludes.
- A transition from `ON_HOLD` to `ON_HOLD` is valid if `previous_status` is unset, and stores
  `ON_HOLD` there: the order can only be cancelled then, until a PUT corrects the column.
- Placing an order on hold creates no `HoldEntry`, although `WORKFLOW_STATES.md:161` lists it.
- `bulk_transition` reports the new status as the old one (`workflow_engine.py:464`).
- A hold dated in the future and approved before that date has a history that ends, in the
  order of its dates, in the opening transition (`FutureDates`).
- A commit publishes, and a rollback discards, what *other* requests of the process have
  collected; requests that collect without committing leave their events to the next commit; a
  worker that dies after the commit loses the events still in memory (`bus.py:138`).
- `create_client_config` and the workflow configuration leave cached defaults in place until
  they expire; the cache exceeds `max_entries` with entries that are live.

### Workbook

- Undo pops the newest entry and shows the one below it: the first undo after one edit restores nothing,
  an undo may change another worksheet than the last edit did, and the latest state cannot be
  redone (`historyManager.ts:41`; `README.md:257` announces undo/redo). Edits in a grid cell
  enter no history.
- A change of client discards unsaved edits without a word; an edit made while its worksheet is
  saved is marked clean by the answer (`useWorkbookStore.ts:138`).
- The endpoint that saves a worksheet is a placeholder: it answers "saved" and stores nothing
  (`routes/capacity/kpi_workbook.py:426-472`), and refuses `dashboardInputs` and `instructions` always.
- A reset during a run of saves releases the button, and the run goes on by the flags of the worksheets that
  were replaced: a second run may then save beside it, and each wipes out the error notes the other
  left. `SavedAllOrSaid` speaks of runs that started alone for this reason.
- No request of the client has a time-out: saving ends because the browser gives up, not the store.

### Startup

- A seed that is killed or fails after its first commit (`init_demo_database.py:1159`) stays
  truncated: every later boot finds the clients and calls the data complete, against "the work
  completes on the winner or on a later boot" (`lifecycle.py:46-49`).
- A kill between the DROP and the upgrade leaves no tables; the successor's check fails, is
  logged, and the worker serves (`migrate.py:44-45`).
- With `FORCE_RESEED` every worker, and every one gunicorn replaces later, drops and seeds in turn under
  the workers that serve already (`lifecycle.py:102`, `:114-116`).

### Capacity planning and simulation (mostly by reading)

- Capacity of a line counts for the whole period, not per day; an order may be placed after its due date;
  committing changes no order and generates no work order, though `orm/capacity/orders.py:29-37` draws a
  status SCHEDULED and `docs/user-guide/04-capacity-planning.md:164` says that it
  "generates work orders downstream". The route's commit stores no KPI rows
  (`routes/capacity/analysis.py:427-432`), only the service does, which no route calls; generating
  over HTTP returns an object without the id its response model requires. A missing SAM counts
  as 1.0 in scheduling and 0 in analysis.
- One order without a bill of materials aborts the materials check: `BOMExplosionError` is not
  caught at `mrp_service.py:132-133`. Results are committed component by component (`:330-368`),
  so that a failed check leaves part of them, and earlier runs' shortages stay listed.
- `_get_calendar_data` (`analysis_service.py:341-350`) divides the total hours by the total of
  shifts and the quotient by the shifts per day once more, so that days with two shifts count
  half. An overtime scenario with an empty list of lines, its default, ignores the departments it
  names (`scenario_service.py:664-667`).
- Simulation input is told "Weekly demand will be used as authoritative" (`validation.py:335`) where
  the engine takes the daily one first (`engine.py:325`). The capacity of a tool is the sum of the
  operators of all operations that use it. Floating-point rounding in the number of
  bundles is not modelled.

### Elsewhere, by reading

- Acknowledging, resolving or dismissing an alert raises an error before the commit: the ORM
  user has no `.get` (`routes/alerts/crud.py:287`, `:316`, `:354`), so no alert leaves "active".
  `_check_hold_alerts` (`generate.py:328`) has no client filter.
- The summary of the floating pool counts rows where it says employees.
- Two logouts with one token insert the same key twice (`jwt.py:77`); a late 401 removes the token
  of a newer login (`client.ts:25`).

## 6. Not modelled

`PROJECT.json` lists every part with its reason. In short:

- *Arithmetic over query results*: KPI formulas, simulation results, dashboards, reports,
  predictions, capacity analysis, materials and scenarios. They compute in one request and keep
  no state that others change.
- *Rows without states*: data entry, CSV import, reference data, preferences, other stores of
  the client; alerts, whose only state no request can change.
- *External or physical*: the MiniZinc optimiser, mail, nightly tasks, database providers.
- *Guards without state*: tenant and role checks; authentication apart from two races
  described above.
- *Without a caller*: `resume_hold`, `release_hold` and the helpers around them.
- *Presentation*: views, and the generator of demo data.
- *The audit trail* in part: insertions and updates of line assignments are modelled; the other
  audited tables have the same listeners, deletion and masking are left out.

## 7. Plan

In this order:

1. The materials check and the scenarios: a check that fails half-way, two checks on one day,
   and what their readers list.
2. Revoked tokens against their pruning, and the client's late 401.
3. Audit entries of the other tables beside the requests already modelled.
4. Larger instances: two employees who exchange lines, two schedules of one period, three clients of a workbook.
