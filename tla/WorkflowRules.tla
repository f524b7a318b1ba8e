---------------------------- MODULE WorkflowRules ----------------------------
(***************************************************************************)
(* The rules of the work-order state machine, as pure operators:           *)
(* backend/calculations/workflow_engine.py (class WorkflowStateMachine and *)
(* the part of execute_transition that edits the row) and the templates of *)
(* backend/schemas/workflow.py.                                            *)
(*                                                                         *)
(* A row of WORK_ORDER is abstracted to the columns the rules read or      *)
(* write: quantities to "is it non-zero", dates to "is it set".            *)
(***************************************************************************)
EXTENDS FiniteSets

Statuses == {"RECEIVED", "RELEASED", "DEMOTED", "ACTIVE", "IN_PROGRESS", "ON_HOLD",
             "COMPLETED", "SHIPPED", "CLOSED", "REJECTED", "CANCELLED"}

\* previous_status IS NULL, and from_status of the entry that opens a history.
NoStatus == "NULL"

Terminal == {"CLOSED", "CANCELLED", "REJECTED"}

\* Targets reachable from every status that is not terminal.
UniversalTo == {"ON_HOLD", "CANCELLED"}

Triggers == {"at_shipment", "at_client_receipt", "at_completion", "manual"}

\* A client's workflow: its arrows <<from, to>> and its closure trigger.
Configs == [transitions : SUBSET (Statuses \X Statuses), trigger : Triggers]

-----------------------------------------------------------------------------
(* The workflows the program ships with.                                   *)

DefaultTransitions ==
  {<<"RECEIVED", "RELEASED">>, <<"RELEASED", "IN_PROGRESS">>,
   <<"IN_PROGRESS", "COMPLETED">>, <<"COMPLETED", "SHIPPED">>}
  \cup ({"SHIPPED", "COMPLETED"} \X {"CLOSED"})
  \cup ({"RECEIVED", "RELEASED", "IN_PROGRESS"} \X {"ON_HOLD"})
  \cup ({"RELEASED"} \X {"DEMOTED"})
  \cup ({"RECEIVED", "RELEASED", "IN_PROGRESS", "ON_HOLD", "DEMOTED"} \X {"CANCELLED"})
  \cup ({"IN_PROGRESS", "COMPLETED"} \X {"REJECTED"})

StandardTemplate == [transitions |-> DefaultTransitions, trigger |-> "at_shipment"]

SimpleTemplate ==
  [transitions |->
     {<<"RECEIVED", "IN_PROGRESS">>, <<"IN_PROGRESS", "COMPLETED">>, <<"COMPLETED", "CLOSED">>}
     \cup ({"RECEIVED", "IN_PROGRESS"} \X {"ON_HOLD"})
     \cup ({"RECEIVED", "IN_PROGRESS", "ON_HOLD"} \X {"CANCELLED"}),
   trigger |-> "at_completion"]

ExpressTemplate ==
  [transitions |-> {"RECEIVED"} \X {"COMPLETED", "CANCELLED"}, trigger |-> "at_completion"]

-----------------------------------------------------------------------------
(* Rows.                                                                   *)

\* qty: actual_quantity is neither NULL nor 0; qc: qc_approved is true;
\* dispatched, shipped, closed: the date column of that name is set.
Rows == [status : Statuses, prev : Statuses \cup {NoStatus}, qty : BOOLEAN, qc : BOOLEAN,
         dispatched : BOOLEAN, shipped : BOOLEAN, closed : BOOLEAN]

Columns == {"status", "prev", "qty", "qc", "dispatched", "shipped", "closed"}

\* Row r with the columns cols taken from row v: what an UPDATE of cols leaves.
Overlay(r, v, cols) ==
  [status     |-> IF "status" \in cols THEN v.status ELSE r.status,
   prev       |-> IF "prev" \in cols THEN v.prev ELSE r.prev,
   qty        |-> IF "qty" \in cols THEN v.qty ELSE r.qty,
   qc         |-> IF "qc" \in cols THEN v.qc ELSE r.qc,
   dispatched |-> IF "dispatched" \in cols THEN v.dispatched ELSE r.dispatched,
   shipped    |-> IF "shipped" \in cols THEN v.shipped ELSE r.shipped,
   closed     |-> IF "closed" \in cols THEN v.closed ELSE r.closed]

-----------------------------------------------------------------------------
(* WorkflowStateMachine.                                                   *)

\* Mutant of IsTransitionValid: the universal targets skip the terminal check.
TransitionValidFromTerminal(c, from, to) ==
  \/ from = to
  \/ from \notin Terminal /\ <<from, to>> \in c.transitions
  \/ to \in UniversalTo

\* is_transition_valid. The ON_HOLD branch of the code is a bare "pass".
IsTransitionValid(c, from, to) ==
  \/ from = to
  \/ /\ from \notin Terminal
     /\ <<from, to>> \in c.transitions \/ to \in UniversalTo

\* Mutant of ValidateTransition: no gates.
ValidateWithoutGates(c, r, to) ==
  /\ IsTransitionValid(c, r.status, to)
  /\ (r.status = "ON_HOLD" /\ to # "CANCELLED" /\ r.prev # NoStatus) => to = r.prev

\* validate_transition: the arrow, the resume rule and the two gates.
ValidateTransition(c, r, to) ==
  /\ IsTransitionValid(c, r.status, to)
  /\ (r.status = "ON_HOLD" /\ to # "CANCELLED" /\ r.prev # NoStatus) => to = r.prev
  /\ to = "COMPLETED" => r.qty
  /\ to = "SHIPPED" => r.qc

\* get_allowed_transitions.
AllowedTransitions(c, from) ==
  {to \in Statuses : <<from, to>> \in c.transitions}
  \cup (IF from \in Terminal THEN {} ELSE UniversalTo)

ShouldAutoClose(c, to) ==
  \/ c.trigger = "at_shipment" /\ to = "SHIPPED"
  \/ c.trigger = "at_completion" /\ to = "COMPLETED"

\* The dates execute_transition stamps on the way to a target.
Stamped(c, to) ==
  {d \in {"dispatched", "shipped", "closed"} :
     \/ <<to, d>> \in {<<"RELEASED", "dispatched">>, <<"SHIPPED", "shipped">>, <<"CLOSED", "closed">>}
     \/ d = "closed" /\ ShouldAutoClose(c, to)}

\* Mutant of Transitioned: the hold does not keep the status it interrupts.
TransitionedForgetful(c, r, to) ==
  [r EXCEPT !.status = to,
            !.dispatched = @ \/ "dispatched" \in Stamped(c, to),
            !.shipped = @ \/ "shipped" \in Stamped(c, to),
            !.closed = @ \/ "closed" \in Stamped(c, to)]

\* The row execute_transition leaves in the session for a validated target.
Transitioned(c, r, to) ==
  [r EXCEPT !.status = to,
            !.prev = IF to = "ON_HOLD" THEN r.status ELSE @,
            !.dispatched = @ \/ "dispatched" \in Stamped(c, to),
            !.shipped = @ \/ "shipped" \in Stamped(c, to),
            !.closed = @ \/ "closed" \in Stamped(c, to)]

\* The columns its UPDATE names: a status or previous_status that did not
\* change is left out, a stamped date never is.
TransitionColumns(c, r, to) ==
  {col \in {"status", "prev"} : Transitioned(c, r, to)[col] # r[col]} \cup Stamped(c, to)
=============================================================================
