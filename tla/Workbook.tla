-------------------------------- MODULE Workbook --------------------------------
(***************************************************************************)
(* The capacity workbook of the web client: the worksheets a planner sees, *)
(* their dirty flags, the undo history, and the requests in flight that    *)
(* load, save and analyse them.  Everything between two awaits is one      *)
(* step; answers come in any order, and any request may fail.              *)
(*                                                                         *)
(* Rows are abstracted to the clients they belong to and the act of the    *)
(* user that made them.  The server is external: it answers, and what it   *)
(* keeps is not modelled.                                                  *)
(***************************************************************************)
EXTENDS Naturals, Sequences, SequencesExt

CONSTANTS
  Clients,      \* clients a planner may choose
  Order,        \* the worksheets, as Object.entries lists them
  Unlisted,     \* worksheets that hold no list of rows: dashboardInputs, instructions
  Analysed,     \* worksheets that answers to analyses write
  Runs,         \* slots for runs of saveAllDirty that are in flight together
  MaxHistory,   \* maxHistory, 50 in the code
  MaxActs       \* bound: acts of the user that make new rows or ask the server for some

Sheets == Range(Order)
NoClient == "null"
Acts == 0..MaxActs
Rows == [of : SUBSET Clients, act : Acts]
NoRows == [of |-> {}, act |-> 0]
Entries == [sheet : Sheets \ Unlisted, rows : Rows]
Kinds == {"replace", "append"}
Marks == {"crossed", "mixed", "failed", "late"}

ASSUME OrderAssumption == Order \in Seq(STRING) /\ Unlisted \subseteq Sheets /\ Analysed \subseteq Sheets
ASSUME HistoryAssumption == MaxHistory \in Nat \ {0}
ASSUME ActsAssumption == MaxActs \in Nat
ASSUME ClientAssumption == NoClient \notin Clients

VARIABLES
  clientId, isLoading, globalError, isSaving,   \* useWorkbookStore
  sheet,          \* useWorksheetOps: rows, dirty and error of each worksheet
  past, future,   \* historyManager
  loads,          \* loads not yet answered: their act and client
  run,            \* for each slot, the run of saveAllDirty in it or NoRun
  analyses,       \* analyses not yet answered
  act,            \* acts so far
  accepted,       \* for each sheet, the rows the server last sent or accepted
  loose,          \* sheets changed behind a save or by an analysis
  wanted,         \* for each run that started alone, the sheets dirty then and not changed since
  marks           \* overlaps and failures since the last quiet load
  \* (the code has none of the last four, and no guard reads them)

store == <<clientId, isLoading, globalError, isSaving>>
history == <<past, future>>
ghosts == <<accepted, loose, wanted, marks>>
vars == <<store, sheet, history, loads, run, analyses, act, ghosts>>

NoRun == [at |-> 0]
Active(i) == run[i] # NoRun
Running == {i \in Runs : Active(i)}

\* One more act of the user.
Acting == act < MaxActs /\ act' = act + 1

\* Sheets whose rows a request in flight carries and will mark clean.
InFlight == {Order[run[i].at] : i \in {j \in Running : run[j].attached}}

-----------------------------------------------------------------------------
(* The undo history.                                                       *)

\* push: the rows from before a change; the oldest entry goes.
Pushed(s) ==
  /\ past' = LET p == Append(past, [sheet |-> s, rows |-> sheet[s].rows])
             IN IF Len(p) > MaxHistory THEN Tail(p) ELSE p
  /\ future' = <<>>

\* _saveToHistory: worksheets that hold no list are passed over.
SaveToHistory(s) ==
  IF s \in Unlisted THEN UNCHANGED history ELSE Pushed(s)

\* Rows r now shown in sheet s, as an unsaved change.
Changed(s, r) ==
  /\ sheet' = [sheet EXCEPT ![s].rows = r, ![s].dirty = TRUE]
  /\ loose' = loose \cup ({s} \cap InFlight)
  /\ wanted' = [i \in Runs |-> wanted[i] \ {s}]
  /\ UNCHANGED <<accepted, marks>>

Restored(e) == Changed(e.sheet, e.rows)

\* Ctrl+Z: the last entry is set aside and the one below it is shown.
Undo ==
  /\ past # <<>>
  /\ past' = Front(past)
  /\ future' = Append(future, Last(past))
  /\ IF Len(past) > 1 THEN Restored(Last(Front(past))) ELSE UNCHANGED <<sheet, ghosts>>
  /\ UNCHANGED <<store, loads, run, analyses, act>>

\* Ctrl+Y: the entry set aside last is shown.
Redo ==
  /\ future # <<>>
  /\ future' = Front(future)
  /\ past' = Append(past, Last(future))
  /\ Restored(Last(future))
  /\ UNCHANGED <<store, loads, run, analyses, act>>

-----------------------------------------------------------------------------
(* Edits: the view shows no grid while a workbook loads.                   *)

\* Rows after the user typed into them.
Typed(s) == [of |-> sheet[s].rows.of \cup ({clientId} \ {NoClient}), act |-> act + 1]

\* addRow, removeRow, duplicateRow, importData, updateDashboardInput ...
EditRows(s) ==
  /\ ~isLoading /\ Acting
  /\ SaveToHistory(s)
  /\ Changed(s, Typed(s))
  /\ UNCHANGED <<store, loads, run, analyses>>

\* A cell edited in the grid is written into its row in place, and the
\* worksheet marked: nothing goes to the history.
EditCell(s) ==
  /\ s \notin Unlisted
  /\ ~isLoading /\ Acting
  /\ Changed(s, Typed(s))
  /\ UNCHANGED <<store, history, loads, run, analyses>>

-----------------------------------------------------------------------------
(* Loading.                                                                *)

\* loadWorkbook, up to its await
Load(c) ==
  /\ Acting
  /\ clientId' = c /\ isLoading' = TRUE /\ globalError' = FALSE
  /\ loads' = loads \cup {[act |-> act + 1, client |-> c]}
  /\ marks' = marks \cup (IF loads = {} THEN {} ELSE {"crossed"})
                    \cup (IF Running = {} THEN {} ELSE {"mixed"})
  /\ UNCHANGED <<isSaving, sheet, history, run, analyses, accepted, loose, wanted>>

\* Mutant of LoadAnswered: the history survives.
LoadKeepingHistory(l) ==
  LET rows == [of |-> {l.client}, act |-> l.act]
      quiet == loads = {l} /\ Running = {} /\ l.client = clientId
  IN /\ loads' = loads \ {l}
     /\ sheet' = [s \in Sheets |-> [rows |-> rows, dirty |-> FALSE, error |-> FALSE]]
     /\ isLoading' = FALSE
     /\ accepted' = [s \in Sheets |-> rows]
     /\ loose' = InFlight
     /\ marks' = IF quiet THEN {} ELSE marks
     /\ UNCHANGED <<clientId, globalError, isSaving, history, run, analyses, act, wanted>>

\* ... and after it: all worksheets are replaced and the history cleared.
LoadAnswered(l) ==
  LET rows == [of |-> {l.client}, act |-> l.act]
      quiet == loads = {l} /\ Running = {} /\ l.client = clientId
  IN /\ loads' = loads \ {l}
     /\ sheet' = [s \in Sheets |-> [rows |-> rows, dirty |-> FALSE, error |-> FALSE]]
     /\ past' = <<>> /\ future' = <<>>
     /\ isLoading' = FALSE
     /\ accepted' = [s \in Sheets |-> rows]
     /\ loose' = InFlight
     /\ marks' = IF quiet THEN {} ELSE marks
     /\ UNCHANGED <<clientId, globalError, isSaving, run, analyses, act, wanted>>

\* The rows of the client before stay, under the new client's id.
LoadFailed(l) ==
  /\ loads' = loads \ {l}
  /\ globalError' = TRUE /\ isLoading' = FALSE
  /\ marks' = marks \cup {"failed"}
  /\ UNCHANGED <<clientId, isSaving, sheet, history, run, analyses, act, accepted, loose, wanted>>

-----------------------------------------------------------------------------
(* Saving.                                                                 *)

DirtyIn(sheets) == {s \in Sheets : sheets[s].dirty}

\* The loop of saveAllDirty goes on behind position p with the worksheets
\* given: to its next request, or to its end.  Without a client the remaining
\* worksheets count as saved.  A run that Reset overtook goes by the flags of
\* the worksheets that were replaced, and saves the ones that replaced them.
Continue(i, p, sheets) ==
  LET dirty == IF Active(i) /\ run[i].old THEN run[i].frozen ELSE DirtyIn(sheets)
      next == {n \in DOMAIN Order : n > p /\ Order[n] \in dirty}
      start == ~Active(i)
  IN \/ /\ next = {} \/ clientId = NoClient
        /\ run' = [run EXCEPT ![i] = NoRun] /\ isSaving' = FALSE /\ sheet' = sheets
     \/ /\ clientId # NoClient
        /\ \E n \in next :
             /\ \A m \in next : n <= m
             /\ run' = [run EXCEPT ![i] =
                          [at |-> n, rows |-> sheets[Order[n]].rows, client |-> clientId, attached |-> TRUE,
                           old |-> ~start /\ run[i].old, frozen |-> IF start THEN {} ELSE run[i].frozen]]
             /\ sheet' = [sheets EXCEPT ![Order[n]].error = FALSE]
        /\ isSaving' = (start \/ isSaving)

\* saveAllDirty: the button is live while something is dirty and nothing is
\* being saved.
SaveAll(i) ==
  /\ ~Active(i) /\ ~isSaving
  /\ DirtyIn(sheet) # {}
  /\ Continue(i, 0, sheet)
  /\ wanted' = [wanted EXCEPT ![i] = IF Running = {} THEN DirtyIn(sheet) ELSE {}]
  /\ marks' = IF loads = {} THEN marks ELSE marks \cup {"mixed"}
  /\ UNCHANGED <<clientId, isLoading, globalError, history, loads, analyses, act, accepted, loose>>

\* The server accepts; it knows no worksheet without a list.
SaveAnswered(i) ==
  LET s == Order[run[i].at]
  IN /\ Active(i) /\ s \notin Unlisted
     /\ Continue(i, run[i].at, IF run[i].attached THEN [sheet EXCEPT ![s].dirty = FALSE] ELSE sheet)
     /\ accepted' = IF run[i].attached THEN [accepted EXCEPT ![s] = run[i].rows] ELSE accepted
     /\ UNCHANGED <<clientId, isLoading, globalError, history, loads, analyses, act, loose, wanted, marks>>

\* Mutant of SaveFailed: the flag is cleared whatever the answer.
SaveFailedClean(i) ==
  LET s == Order[run[i].at]
  IN /\ Active(i)
     /\ Continue(i, run[i].at, IF run[i].attached
                               THEN [sheet EXCEPT ![s].error = TRUE, ![s].dirty = FALSE] ELSE sheet)
     /\ UNCHANGED <<clientId, isLoading, globalError, history, loads, analyses, act, ghosts>>

\* Mutant of SaveFailed: the first failure ends the run.
SaveFailedStops(i) ==
  LET s == Order[run[i].at]
  IN /\ Active(i)
     /\ run' = [run EXCEPT ![i] = NoRun] /\ isSaving' = FALSE
     /\ sheet' = IF run[i].attached THEN [sheet EXCEPT ![s].error = TRUE] ELSE sheet
     /\ UNCHANGED <<clientId, isLoading, globalError, history, loads, analyses, act, ghosts>>

\* Mutant of SaveFailed: the failure escapes the loop.
SaveFailedEscapes(i) ==
  LET s == Order[run[i].at]
  IN /\ Active(i)
     /\ run' = [run EXCEPT ![i] = NoRun]
     /\ sheet' = IF run[i].attached THEN [sheet EXCEPT ![s].error = TRUE] ELSE sheet
     /\ UNCHANGED <<store, history, loads, analyses, act, ghosts>>

\* It refuses, or no answer comes: the run notes it and goes on.
SaveFailed(i) ==
  LET s == Order[run[i].at]
  IN /\ Active(i)
     /\ Continue(i, run[i].at, IF run[i].attached THEN [sheet EXCEPT ![s].error = TRUE] ELSE sheet)
     /\ UNCHANGED <<clientId, isLoading, globalError, history, loads, analyses, act, ghosts>>

-----------------------------------------------------------------------------
(* Analyses, schedules and scenarios.                                      *)

Ask(s, kind) ==
  /\ clientId # NoClient
  /\ Acting
  /\ analyses' = analyses \cup {[act |-> act + 1, client |-> clientId, sheet |-> s, kind |-> kind]}
  /\ UNCHANGED <<store, sheet, history, loads, run, ghosts>>

\* Results replace the rows of a worksheet without marking it; a new scenario
\* is appended and marks it.  Whose workbook is shown by now is not asked.
Answer(q) ==
  LET s == q.sheet
      of == IF q.kind = "append" THEN sheet[s].rows.of \cup {q.client} ELSE {q.client}
  IN /\ analyses' = analyses \ {q}
     /\ sheet' = [sheet EXCEPT ![s].rows = [of |-> of, act |-> q.act],
                               ![s].dirty = @ \/ q.kind = "append"]
     /\ loose' = loose \cup {s}
     /\ wanted' = [i \in Runs |-> wanted[i] \ {s}]
     /\ marks' = marks \cup (IF q.client = clientId THEN {} ELSE {"late"})
     /\ UNCHANGED <<store, history, loads, run, act, accepted>>

AskFailed(q) ==
  /\ analyses' = analyses \ {q}
  /\ UNCHANGED <<store, sheet, history, loads, run, act, ghosts>>

-----------------------------------------------------------------------------
(* Reset.                                                                  *)

\* What Reset leaves of the worksheets and of the runs in flight.
Replaced ==
  /\ sheet' = [s \in Sheets |-> [rows |-> NoRows, dirty |-> FALSE, error |-> FALSE]]
  /\ run' = [i \in Runs |->
               IF ~Active(i) THEN NoRun
               ELSE [run[i] EXCEPT !.attached = FALSE, !.old = TRUE,
                                   !.frozen = IF run[i].old THEN @ ELSE DirtyIn(sheet)]]
  /\ accepted' = [s \in Sheets |-> NoRows]
  /\ loose' = {}
  /\ wanted' = [i \in Runs |-> {}]
  /\ marks' = IF loads = {} THEN marks ELSE marks \cup {"crossed"}

\* The store is emptied; requests in flight are not called off.
Reset ==
  /\ Acting
  /\ clientId' = NoClient /\ isLoading' = FALSE /\ globalError' = FALSE /\ isSaving' = FALSE
  /\ past' = <<>> /\ future' = <<>>
  /\ Replaced
  /\ UNCHANGED <<loads, analyses>>

-----------------------------------------------------------------------------

Init ==
  /\ clientId = NoClient
  /\ isLoading = FALSE /\ globalError = FALSE /\ isSaving = FALSE
  /\ sheet = [s \in Sheets |-> [rows |-> NoRows, dirty |-> FALSE, error |-> FALSE]]
  /\ past = <<>> /\ future = <<>>
  /\ loads = {} /\ analyses = {}
  /\ run = [i \in Runs |-> NoRun]
  /\ act = 0
  /\ accepted = [s \in Sheets |-> NoRows]
  /\ loose = {} /\ marks = {}
  /\ wanted = [i \in Runs |-> {}]

Next ==
  \/ Undo \/ Redo
  \/ \E s \in Sheets : EditRows(s) \/ EditCell(s)
  \/ \E c \in Clients : Load(c)
  \/ \E l \in loads : LoadAnswered(l) \/ LoadFailed(l)
  \/ \E i \in Runs : SaveAll(i) \/ SaveAnswered(i) \/ SaveFailed(i)
  \/ \E s \in Analysed, kind \in Kinds : Ask(s, kind)
  \/ \E q \in analyses : Answer(q) \/ AskFailed(q)
  \/ Reset

Spec == Init /\ [][Next]_vars

\* The browser settles every request.
FairSpec == Spec /\ \A i \in Runs : WF_vars(SaveAnswered(i) \/ SaveFailed(i))

-----------------------------------------------------------------------------
(* Properties.                                                             *)

\* Stores, worksheets, history and requests in flight have their types.
TypeOK ==
  /\ clientId \in Clients \cup {NoClient}
  /\ isLoading \in BOOLEAN /\ globalError \in BOOLEAN /\ isSaving \in BOOLEAN
  /\ sheet \in [Sheets -> [rows : Rows, dirty : BOOLEAN, error : BOOLEAN]]
  /\ past \in Seq(Entries) /\ future \in Seq(Entries)
  /\ loads \subseteq [act : Acts, client : Clients]
  /\ run \in [Runs -> {NoRun} \cup
                [at : DOMAIN Order, rows : Rows, client : Clients, attached : BOOLEAN,
                 old : BOOLEAN, frozen : SUBSET Sheets]]
  /\ analyses \subseteq [act : Acts, client : Clients, sheet : Sheets, kind : Kinds]
  /\ act \in Acts
  /\ accepted \in [Sheets -> Rows]
  /\ loose \subseteq Sheets /\ marks \subseteq Marks
  /\ wanted \in [Runs -> SUBSET Sheets]

\* Outside a load, every worksheet shows rows of the client that is chosen, and
\* a save never sends rows of one client under the id of another: through any
\* edits, undos, analyses and resets, unless since the last load that nothing
\* overlapped a load failed, was overlapped, or an answer came for another
\* client.  Above all, undoing brings back nothing of a client left.
SavesOwnRows ==
  marks = {} =>
    /\ ~isLoading => \A s \in Sheets : sheet[s].rows.of \subseteq {clientId}
    /\ \A i \in Running : run[i].rows.of \subseteq {run[i].client}

\* A worksheet without its mark shows what the server last sent or accepted,
\* unless it changed while it was being saved or an analysis wrote it.
CleanIsAccepted ==
  \A s \in Sheets \ loose : ~sheet[s].dirty => sheet[s].rows = accepted[s]

\* When a run of saveAllDirty ends, every worksheet that was dirty when it
\* began and has not changed since is clean or says that it was not saved,
\* unless a run that Reset overtook was still going, which wipes out notes.
SavedAllOrSaid ==
  [][\A i \in Runs : Active(i) /\ run'[i] = NoRun =>
       \A s \in wanted[i] : ~sheet'[s].dirty \/ sheet'[s].error]_vars

\* Saving comes to an end, whatever fails: the button does not stay blocked.
SavingEnds == isSaving ~> ~isSaving
=============================================================================
