------------------------------ MODULE MCWorkbook ------------------------------
(* A small instance of Workbook.                                             *)
EXTENDS Workbook

CONSTANTS c1, c2

MCOrder == <<"orders", "scenarios", "inputs">>

\* The state after the first load, which counts as act 0.
Loaded ==
  LET rows == [of |-> {c1}, act |-> 0]
  IN /\ clientId = c1 /\ isLoading = FALSE /\ globalError = FALSE /\ isSaving = FALSE
     /\ sheet = [s \in Sheets |-> [rows |-> rows, dirty |-> FALSE, error |-> FALSE]]
     /\ past = <<>> /\ future = <<>> /\ loads = {} /\ analyses = {}
     /\ run = [i \in Runs |-> NoRun]
     /\ act = 0
     /\ accepted = [s \in Sheets |-> rows]
     /\ loose = {} /\ marks = {} /\ wanted = [i \in Runs |-> {}]

\* Slots are interchangeable: a run takes the first that is free.
MCNext ==
  /\ Next
  /\ \A i \in Runs : run[i] = NoRun /\ run'[i] # NoRun => \A j \in Runs : j < i => Active(j)

MCSpec ==
  /\ Init \/ Loaded
  /\ [][MCNext]_vars
  /\ \A i \in Runs : WF_vars(SaveAnswered(i) \/ SaveFailed(i))
=============================================================================
