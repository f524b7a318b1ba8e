------------------------------ MODULE Lifecycle ------------------------------
(***************************************************************************)
(* What the program promises of everything that has a status and a         *)
(* history: work orders, quality holds, calculation assumptions.           *)
(*                                                                         *)
(* An object moves along Arrows; the step that moves it appends to its     *)
(* history the status it leaves and the status it takes, no history is     *)
(* ever rewritten, and several objects may move in one step.  There are no *)
(* requests in flight here: a decision and its record are one step.        *)
(***************************************************************************)
EXTENDS Sequences

CONSTANTS
  Ids,       \* what has a status
  NoStatus,  \* the status of what does not exist yet
  Arrows     \* the moves allowed, creation included

VARIABLES
  status,    \* the status of each object
  history    \* its moves so far

Entry(from, to) == [from |-> from, to |-> to]

\* An object may be older than its history.
Init == history = [i \in Ids |-> <<>>]

Rests(i) == status'[i] = status[i] /\ history'[i] = history[i]

\* A remark that leaves the status alone.
Remarks(i) ==
  /\ status[i] # NoStatus /\ status'[i] = status[i]
  /\ history'[i] = Append(history[i], Entry(status[i], status[i]))

Moves(i) ==
  /\ <<status[i], status'[i]>> \in Arrows
  /\ history'[i] = Append(history[i], Entry(status[i], status'[i]))

Next == \A i \in Ids : Rests(i) \/ Remarks(i) \/ Moves(i)

Spec == Init /\ [][Next]_<<status, history>>
=============================================================================
