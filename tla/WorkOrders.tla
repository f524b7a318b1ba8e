----------------------------- MODULE WorkOrders -----------------------------
(***************************************************************************)
(* Work orders of one client as the API changes them.                      *)
(*                                                                         *)
(* Every request runs in a database session of its own and in three parts: *)
(* it SELECTs the row and the workflow configuration, decides on what it   *)
(* read, and COMMITs an UPDATE of the columns it changed together with the *)
(* history row.  Nothing locks or versions the row between the SELECT and  *)
(* the UPDATE, so the decision of one request can be taken on a row that   *)
(* another request changes before it commits.  A handler below is the      *)
(* SELECT and the decision (its result is a plan kept in session), Commit  *)
(* is the UPDATE, Rollback any error on the way.                           *)
(***************************************************************************)
EXTENDS WorkflowRules, Naturals, Sequences

CONSTANTS
  WorkOrderIds,     \* primary keys a client may use
  Sessions,         \* requests that can be in flight together
  ClientConfigs,    \* the workflow configurations an administrator may install
  NewRows,          \* the rows a POST may carry
  Edits,            \* the bodies of a PUT: columns and the values for them
  StatementFaults,  \* the orders of which one SELECT may fail in a healthy transaction
  MaxLog            \* bound: history rows of one work order

ASSUME ConfigsAssumption == ClientConfigs \subseteq Configs /\ ClientConfigs # {}
ASSUME NewRowsAssumption == NewRows \subseteq Rows
ASSUME EditsAssumption == Edits \subseteq [cols : SUBSET Columns, val : Rows]
ASSUME FaultsAssumption == StatementFaults \subseteq WorkOrderIds
ASSUME MaxLogAssumption == MaxLog \in Nat

VARIABLES
  wo,       \* WORK_ORDER: the rows that exist
  log,      \* WORKFLOW_TRANSITION_LOG by work order, in transition_id order
  config,   \* the client's workflow configuration
  session   \* for each request: its plan for the rows it will update

vars == <<wo, log, config, session>>

Entries == [from : Statuses \cup {NoStatus}, to : Statuses]

NoEntry == [from |-> NoStatus, to |-> NoStatus]

\* One row's share of a plan: the columns to write, their values, and the
\* history row to add, if any.
Changes == [cols : SUBSET Columns, val : Rows, entry : Entries \cup {NoEntry}]
NoPlan == [w \in {} |-> {}]

Exists == DOMAIN wo
Idle(s) == session[s] = NoPlan

\* Request s leaves its plan for Commit.
Plan(s, plan) ==
  /\ session' = [session EXCEPT ![s] = plan]
  /\ UNCHANGED <<wo, log, config>>

Only(w, change) == [x \in {w} |-> change]

-----------------------------------------------------------------------------
Init ==
  /\ wo = NoPlan
  /\ log = [w \in WorkOrderIds |-> <<>>]
  /\ config \in ClientConfigs
  /\ session = [s \in Sessions |-> NoPlan]

\* POST /api/work-orders: the body's status is taken as it is; the history
\* opens in the same transaction.
Create(w, r) ==
  /\ w \notin Exists /\ Len(log[w]) < MaxLog
  /\ wo' = [x \in Exists \cup {w} |-> IF x = w THEN r ELSE wo[x]]
  /\ log' = [log EXCEPT ![w] = Append(@, [from |-> NoStatus, to |-> r.status])]
  /\ UNCHANGED <<config, session>>

\* What execute_transition plans for row r.
TransitionChange(r, to) ==
  [cols |-> TransitionColumns(config, r, to), val |-> Transitioned(config, r, to),
   entry |-> [from |-> r.status, to |-> to]]

\* POST /api/workflow/work-orders/{id}/transition.
Transition(s, w, to) ==
  /\ Idle(s) /\ w \in Exists
  /\ ValidateTransition(config, wo[w], to)
  /\ Plan(s, Only(w, TransitionChange(wo[w], to)))

\* POST /api/workflow/bulk-transition: the orders that do not validate are
\* reported and skipped, the others share one transaction.
BulkTransition(s, ids, to) ==
  LET valid == {w \in ids \cap Exists : ValidateTransition(config, wo[w], to)}
  IN /\ Idle(s) /\ valid # {}
     /\ Plan(s, [w \in valid |-> TransitionChange(wo[w], to)])

\* Mutant of UpdateFields: a new status is let through.
UpdateFieldsAndStatus(s, w, e) ==
  LET r == wo[w]
      after == Overlay(r, e.val, e.cols)
  IN /\ Idle(s) /\ w \in Exists
     /\ Plan(s, Only(w, [cols |-> {c \in e.cols : after[c] # r[c]}, val |-> after, entry |-> NoEntry]))

\* PUT /api/work-orders/{id} and PATCH .../status, no change of status: only
\* the columns whose value differs from the row read are written.
UpdateFields(s, w, e) ==
  LET r == wo[w]
      after == Overlay(r, e.val, e.cols)
  IN /\ Idle(s) /\ w \in Exists
     /\ "status" \in e.cols => e.val.status = r.status
     /\ Plan(s, Only(w, [cols |-> {c \in e.cols : after[c] # r[c]}, val |-> after, entry |-> NoEntry]))

\* The same requests with a new status: the transition is validated on the
\* row as read, executed and flushed, then the other columns are set.
UpdateStatus(s, w, e) ==
  LET r == wo[w]
      t == TransitionChange(r, e.val.status)
      rest == e.cols \ {"status"}
  IN /\ Idle(s) /\ w \in Exists
     /\ "status" \in e.cols /\ e.val.status # r.status
     /\ ValidateTransition(config, r, e.val.status)
     /\ Plan(s, Only(w, [t EXCEPT !.cols = @ \cup rest, !.val = Overlay(@, e.val, rest)]))

\* UpdateStatus when the SELECT of the last transition fails: the error is
\* logged and swallowed, and the status is set with the other columns.
UpdateStatusUnlogged(s, w, e) ==
  LET r == wo[w]
  IN /\ Idle(s) /\ w \in Exists /\ w \in StatementFaults
     /\ "status" \in e.cols /\ e.val.status # r.status
     /\ ValidateTransition(config, r, e.val.status)
     /\ Plan(s, Only(w, [cols |-> {c \in e.cols : e.val[c] # r[c]},
                         val |-> Overlay(r, e.val, e.cols), entry |-> NoEntry]))

\* POST /api/work-orders/{id}/approve-qc.
ApproveQC(s, w) ==
  LET r == wo[w]
  IN /\ Idle(s) /\ w \in Exists
     /\ ~r.qc /\ r.status \notin {"SHIPPED", "CLOSED", "CANCELLED", "REJECTED"}
     /\ Plan(s, Only(w, [cols |-> {"qc"}, val |-> [r EXCEPT !.qc = TRUE],
                         entry |-> [from |-> r.status, to |-> r.status]]))

\* PUT /api/workflow/config/{client} and .../apply-template.
SetConfig(c) ==
  /\ config' = c
  /\ UNCHANGED <<wo, log, session>>

\* The UPDATEs and INSERTs of a plan become visible together: the first
\* UPDATE of a row locks it until the transaction ends.
Commit(s) ==
  LET plan == session[s]
  IN /\ ~Idle(s)
     /\ \A w \in DOMAIN plan : plan[w].entry # NoEntry => Len(log[w]) < MaxLog
     /\ wo' = [w \in Exists |-> IF w \in DOMAIN plan
                                THEN Overlay(wo[w], plan[w].val, plan[w].cols) ELSE wo[w]]
     /\ log' = [w \in WorkOrderIds |->
                  IF w \in DOMAIN plan /\ plan[w].entry # NoEntry
                  THEN Append(log[w], plan[w].entry) ELSE log[w]]
     /\ session' = [session EXCEPT ![s] = NoPlan]
     /\ UNCHANGED config

\* A failed flush, a deadlock or a lost connection: the session is closed
\* and everything it planned is rolled back.
Rollback(s) ==
  /\ ~Idle(s)
  /\ session' = [session EXCEPT ![s] = NoPlan]
  /\ UNCHANGED <<wo, log, config>>

Handler(s) ==
  \/ \E w \in WorkOrderIds, to \in Statuses : Transition(s, w, to)
  \/ \E ids \in SUBSET WorkOrderIds, to \in Statuses : BulkTransition(s, ids, to)
  \/ \E w \in WorkOrderIds, e \in Edits : UpdateFields(s, w, e)
  \/ \E w \in WorkOrderIds, e \in Edits : UpdateStatus(s, w, e)
  \/ \E w \in WorkOrderIds, e \in Edits : UpdateStatusUnlogged(s, w, e)
  \/ \E w \in WorkOrderIds : ApproveQC(s, w)

Next ==
  \/ \E w \in WorkOrderIds, r \in NewRows : Create(w, r)
  \/ \E s \in Sessions : Handler(s) \/ Commit(s) \/ Rollback(s)
  \/ \E c \in ClientConfigs : SetConfig(c)

Spec == Init /\ [][Next]_vars

\* The same program when no two requests in flight touch the same order: what
\* a reader of one handler at a time assumes.
OneAtATime ==
  \A s, t \in Sessions : s # t => DOMAIN session[s] \cap DOMAIN session[t] = {}

SerialNext == Next /\ OneAtATime'
SerialSpec == Init /\ [][SerialNext]_vars

-----------------------------------------------------------------------------
(* Properties.                                                             *)

\* Rows, histories, configuration and plans have the types of their columns.
TypeOK ==
  /\ Exists \subseteq WorkOrderIds /\ wo \in [Exists -> Rows]
  /\ log \in [WorkOrderIds -> Seq(Entries)]
  /\ config \in ClientConfigs
  /\ session = [s \in Sessions |-> session[s]]
  /\ \A s \in Sessions : DOMAIN session[s] \subseteq WorkOrderIds
                         /\ session[s] \in [DOMAIN session[s] -> Changes]

\* A history entry that does not change the status: a repeated transition or
\* the record of a QC approval.
IsNote(entry) == entry.from = entry.to

\* The orders that lose no history row to a failed SELECT.
Logged == WorkOrderIds \ StatementFaults

\* However requests interleave, the status of such an order is the target of the
\* last history entry that is not a note: no commit of
\* execute_transition changes the status without its history row, and no
\* other handler changes it at all.
StatusExplained ==
  \A w \in Exists \cap Logged : \E i \in 1..Len(log[w]) :
    /\ ~IsNote(log[w][i]) /\ log[w][i].to = wo[w].status
    /\ \A j \in (i + 1)..Len(log[w]) : IsNote(log[w][j])

\* When requests do not overlap on an order, its history is one chain from
\* creation to the present status.
HistoryChains ==
  \A w \in Logged :
    /\ w \in Exists <=> log[w] # <<>>
    /\ w \in Exists => /\ log[w][1].from = NoStatus
                       /\ log[w][Len(log[w])].to = wo[w].status
    /\ \A i \in 2..Len(log[w]) : log[w][i].from = log[w][i - 1].to

\* When requests do not overlap on an order, CLOSED, CANCELLED and REJECTED
\* are final (WorkflowStateMachine refuses any way out of them).
TerminalIsFinal ==
  [][\A w \in Exists : wo[w].status \in Terminal => wo'[w].status = wo[w].status]_vars

\* The request that commits in this step writes column c of order w.
Writes(w, c) ==
  \E s \in Sessions : /\ session'[s] # session[s]
                      /\ w \in DOMAIN session[s] /\ c \in session[s][w].cols

\* When requests do not overlap on an order, it enters COMPLETED only if the
\* row had a quantity, and SHIPPED only if the row had QC approval, when the
\* gate was tested; it has lost either on arrival only if the request that
\* passed the gate writes that very column (update_work_order sets the other
\* columns of the PUT after the transition).
GatesHold ==
  [][\A w \in Exists : wo'[w].status # wo[w].status =>
       /\ wo'[w].status = "COMPLETED" => wo[w].qty /\ (wo'[w].qty \/ Writes(w, "qty"))
       /\ wo'[w].status = "SHIPPED" => wo[w].qc /\ (wo'[w].qc \/ Writes(w, "qc"))]_vars

\* What the workflow document says of the order itself: one that has just
\* become COMPLETED has a quantity, one that has just become SHIPPED has QC
\* approval (WORKFLOW_STATES.md, lines 62 and 63). A PUT of the status together
\* with a quantity of 0 breaks it, and AlwaysGatedOnArrival assumes there is none.
GatedOnArrival ==
  [][\A w \in Exists : wo'[w].status # wo[w].status =>
       /\ wo'[w].status = "COMPLETED" => wo'[w].qty
       /\ wo'[w].status = "SHIPPED" => wo'[w].qc]_vars

\* When requests do not overlap and no PUT edits previous_status itself, every
\* order on hold that loses no history row was put on hold by the last entry
\* of its history that is no note, and previous_status is the status it was
\* held from, unless it was created on hold.
HoldRemembers ==
  \A w \in Exists \cap Logged : wo[w].status = "ON_HOLD" =>
    \E i \in 1..Len(log[w]) :
      /\ log[w][i].to = "ON_HOLD" /\ ~IsNote(log[w][i])
      /\ \A j \in (i + 1)..Len(log[w]) : IsNote(log[w][j])
      /\ i > 1 => wo[w].prev = log[w][i].from

\* What the workflow document says of every order placed on hold: its current
\* status is saved to previous_status (WORKFLOW_STATES.md, line 159). An update
\* that swallows the error of execute_transition breaks it, setting the status
\* and not previous_status; AlwaysHoldSaves assumes that no SELECT fails.
HoldSavesStatus ==
  [][\A w \in Exists : wo'[w].status = "ON_HOLD" /\ wo[w].status # "ON_HOLD"
       => wo'[w].prev = wo[w].status]_vars

StatusOf(w) == IF w \in Exists THEN wo[w].status ELSE NoStatus

Life == INSTANCE Lifecycle WITH
  Ids <- Logged,
  Arrows <- {move \in (Statuses \cup {NoStatus}) \X Statuses :
               move[1] # move[2] /\ move[1] \notin Terminal},
  status <- [w \in Logged |-> StatusOf(w)],
  history <- [w \in Logged |-> log[w]]

\* When requests do not overlap on an order, reading, deciding and committing
\* apart cannot be told from doing it at once: every order leaves a status
\* that is not terminal and records exactly that move.
FollowsLifecycle == Life!Spec
=============================================================================
