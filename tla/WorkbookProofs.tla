---------------------------- MODULE WorkbookProofs ----------------------------
(***************************************************************************)
(* Theorems about the capacity workbook: its types; that rows of one       *)
(* client are neither shown nor saved as those of another while nothing    *)
(* overlaps or fails; what a worksheet without its mark shows; and that a  *)
(* save of everything passes nothing over.                                 *)
(***************************************************************************)
EXTENDS Workbook, SequenceTheorems, TLAPS

-----------------------------------------------------------------------------
(* The inductive invariant.                                                *)

\* Rows that belong to the client chosen, or to nobody, and entries of the
\* history that hold such rows.
Own(rows) == rows.of \subseteq {clientId}
OwnEntries == {e \in Entries : Own(e.rows)}

\* Since a quiet load: either a single load is under way, for the client
\* chosen, and nothing is being saved; or nothing is loaded and the worksheets
\* and both sides of the history are the client's.  Rows on their way to the
\* server always go under their own client.
OwnInv ==
  marks = {} =>
    /\ \A i \in Runs : Active(i) => run[i].rows.of \subseteq {run[i].client}
    /\ isLoading => Running = {} /\ \E l \in loads : loads = {l} /\ l.client = clientId
    /\ ~isLoading => /\ loads = {}
                     /\ \A s \in Sheets : Own(sheet[s].rows)
                     /\ past \in Seq(OwnEntries) /\ future \in Seq(OwnEntries)

-----------------------------------------------------------------------------
(* Lemmas about sequences and positions.                                   *)

\* The positions of Order hold worksheets.
LEMMA OrderHoldsSheets == \A n \in DOMAIN Order : Order[n] \in Sheets
BY DEF Sheets, Range

\* Without its last or its first element a sequence keeps the others.
LEMMA PartsOfSeq ==
  ASSUME NEW S, NEW q \in Seq(S), q # <<>>
  PROVE  /\ Front(q) \in Seq(S) /\ Last(q) \in S /\ Tail(q) \in Seq(S)
         /\ Len(q) > 1 => Front(q) # <<>>
<1>1. Len(q) \in Nat \ {0} /\ DOMAIN q = 1..Len(q)
  BY EmptySeq, LenProperties
<1>2. \A n \in 1..(Len(q) - 1) : q[n] \in S
  BY <1>1, ElementOfSeq
<1>3. Front(q) \in Seq(S) /\ Len(Front(q)) = Len(q) - 1
  <2>1. 1 \in Int /\ Len(q) - 1 \in Int  BY <1>1
  <2>2. /\ SubSeq(q, 1, Len(q) - 1) \in Seq(S)
        /\ Len(SubSeq(q, 1, Len(q) - 1)) = IF 1 <= Len(q) - 1 THEN (Len(q) - 1) - 1 + 1 ELSE 0
    BY <1>2, <2>1, SubSeqProperties
  <2>. QED  BY <1>1, <2>2 DEF Front
<1>4. Len(q) > 1 => Front(q) # <<>>
  BY <1>1, <1>3, EmptySeq
<1>5. Tail(q) \in Seq(S)
  BY HeadTailProperties
<1>6. Last(q) \in S
  BY <1>1, ElementOfSeq DEF Last
<1>. QED  BY <1>3, <1>4, <1>5, <1>6

\* An entry pushed joins a history that keeps its other entries' kind.
LEMMA PushedStays ==
  ASSUME NEW S, past \in Seq(S), NEW s \in Sheets,
         [sheet |-> s, rows |-> sheet[s].rows] \in S, Pushed(s)
  PROVE  past' \in Seq(S) /\ future' \in Seq(S)
<1>. DEFINE p == Append(past, [sheet |-> s, rows |-> sheet[s].rows])
<1>1. p \in Seq(S) /\ p # <<>>
  BY AppendProperties
<1>2. Tail(p) \in Seq(S)
  BY <1>1, PartsOfSeq
<1>3. past' = IF Len(p) > MaxHistory THEN Tail(p) ELSE p
  BY DEF Pushed
<1>4. <<>> \in Seq(S)
  BY EmptySeq
<1>. QED  BY <1>1, <1>2, <1>3, <1>4 DEF Pushed

-----------------------------------------------------------------------------
(* Types.                                                                  *)

\* A run of saveAllDirty: NoRun, or a record.
RunRec == [at : DOMAIN Order, rows : Rows, client : Clients, attached : BOOLEAN,
           old : BOOLEAN, frozen : SUBSET Sheets]

LEMMA TypeInit == Init => TypeOK
<1>. SUFFICES ASSUME Init PROVE TypeOK  OBVIOUS
<1>1. past \in Seq(Entries) /\ future \in Seq(Entries)
  BY EmptySeq DEF Init
<1>2. NoRows \in Rows /\ act \in Acts
  BY ActsAssumption DEF Init, NoRows, Rows, Acts
<1>. QED  BY <1>1, <1>2 DEF Init, TypeOK

\* A change of rows keeps the types.
LEMMA ChangedType ==
  ASSUME TypeOK, NEW s \in Sheets, NEW r \in Rows, Changed(s, r)
  PROVE  /\ sheet' \in [Sheets -> [rows : Rows, dirty : BOOLEAN, error : BOOLEAN]]
         /\ accepted' \in [Sheets -> Rows] /\ marks' \subseteq Marks
         /\ loose' \subseteq Sheets /\ wanted' \in [Runs -> SUBSET Sheets]
<1>1. sheet' \in [Sheets -> [rows : Rows, dirty : BOOLEAN, error : BOOLEAN]]
  BY DEF TypeOK, Changed
<1>2. accepted' \in [Sheets -> Rows] /\ marks' \subseteq Marks /\ loose' \subseteq Sheets
  BY DEF TypeOK, Changed
<1>3. wanted' \in [Runs -> SUBSET Sheets]
  BY DEF TypeOK, Changed
<1>. QED  BY <1>1, <1>2, <1>3

\* Typing makes rows.
LEMMA TypedRows ==
  ASSUME TypeOK, NEW s \in Sheets, act < MaxActs
  PROVE  Typed(s) \in Rows /\ act + 1 \in Acts
<1>1. act + 1 \in Acts
  BY ActsAssumption DEF TypeOK, Acts
<1>2. sheet[s].rows.of \subseteq Clients
  BY DEF TypeOK, Rows
<1>3. {clientId} \ {NoClient} \subseteq Clients
  BY DEF TypeOK
<1>. QED  BY <1>1, <1>2, <1>3 DEF Typed, Rows

LEMMA TypeEdits ==
  ASSUME TypeOK, NEW s \in Sheets, EditRows(s) \/ EditCell(s)
  PROVE  TypeOK'
<1>0. act < MaxActs /\ act' = act + 1 /\ Changed(s, Typed(s))
  BY DEF EditRows, EditCell, Acting
<1>1. Typed(s) \in Rows /\ act' \in Acts
  BY <1>0, TypedRows
<1>2. past' \in Seq(Entries) /\ future' \in Seq(Entries)
  <2>1. CASE EditRows(s) /\ s \notin Unlisted
    <3>1. [sheet |-> s, rows |-> sheet[s].rows] \in Entries
      BY <2>1 DEF TypeOK, Entries
    <3>. QED  BY <2>1, <3>1, PushedStays DEF EditRows, SaveToHistory, TypeOK
  <2>2. CASE UNCHANGED history
    BY <2>2 DEF TypeOK, history
  <2>. QED  BY <2>1, <2>2 DEF EditRows, EditCell, SaveToHistory
<1>3. UNCHANGED <<store, loads, run, analyses>>
  BY DEF EditRows, EditCell
<1>. QED  BY <1>0, <1>1, <1>2, <1>3, ChangedType DEF TypeOK, store

LEMMA TypeUndo ==
  ASSUME TypeOK, Undo
  PROVE  TypeOK'
<1>1. past' \in Seq(Entries) /\ Last(past) \in Entries
      /\ (Len(past) > 1 => Last(Front(past)) \in Entries)
  BY PartsOfSeq DEF TypeOK, Undo
<1>2. future' \in Seq(Entries)
  BY <1>1, AppendProperties DEF TypeOK, Undo
<1>3. UNCHANGED <<store, loads, run, analyses, act>>
  BY DEF Undo
<1>4. CASE Len(past) > 1
  <2>. DEFINE e == Last(Front(past))
  <2>1. e.sheet \in Sheets /\ e.rows \in Rows
    BY <1>1, <1>4 DEF Entries
  <2>2. Changed(e.sheet, e.rows)
    BY <1>4 DEF Undo, Restored
  <2>. HIDE DEF e
  <2>. QED  BY <1>1, <1>2, <1>3, <2>1, <2>2, ChangedType DEF TypeOK, store
<1>5. CASE ~(Len(past) > 1)
  BY <1>1, <1>2, <1>3, <1>5 DEF Undo, TypeOK, store, ghosts
<1>. QED  BY <1>4, <1>5

LEMMA TypeRedo ==
  ASSUME TypeOK, Redo
  PROVE  TypeOK'
<1>1. future' \in Seq(Entries) /\ Last(future) \in Entries
  BY PartsOfSeq DEF TypeOK, Redo
<1>2. past' \in Seq(Entries)
  BY <1>1, AppendProperties DEF TypeOK, Redo
<1>3. UNCHANGED <<store, loads, run, analyses, act>>
  BY DEF Redo
<1>4. Last(future).sheet \in Sheets /\ Last(future).rows \in Rows
  BY <1>1 DEF Entries
<1>5. Changed(Last(future).sheet, Last(future).rows)
  BY DEF Redo, Restored
<1>. QED  BY <1>1, <1>2, <1>3, <1>4, <1>5, ChangedType DEF TypeOK, store

\* The worksheets whose rows are in flight are worksheets.
LEMMA InFlightSheets == TypeOK => InFlight \subseteq Sheets
BY OrderHoldsSheets DEF TypeOK, InFlight, Running, Active

LEMMA TypeLoads ==
  ASSUME TypeOK,
         (\E c \in Clients : Load(c)) \/ (\E l \in loads : LoadAnswered(l) \/ LoadFailed(l))
  PROVE  TypeOK'
<1>1. ASSUME NEW c \in Clients, Load(c)  PROVE TypeOK'
  <2>1. act' \in Acts /\ act' = act + 1
    BY <1>1, ActsAssumption DEF TypeOK, Acts, Load, Acting
  <2>2. loads' \subseteq [act : Acts, client : Clients]
    BY <1>1, <2>1 DEF Load, TypeOK
  <2>3. marks' \subseteq Marks
    BY <1>1 DEF Load, TypeOK, Marks
  <2>. QED  BY <1>1, <2>1, <2>2, <2>3 DEF Load, TypeOK, history
<1>2. ASSUME NEW l \in loads, LoadAnswered(l)  PROVE TypeOK'
  <2>. DEFINE rows == [of |-> {l.client}, act |-> l.act]
  <2>1. rows \in Rows
    BY DEF TypeOK, Rows
  <2>2. sheet' \in [Sheets -> [rows : Rows, dirty : BOOLEAN, error : BOOLEAN]]
    BY <1>2, <2>1 DEF LoadAnswered
  <2>3. accepted' \in [Sheets -> Rows]
    BY <1>2, <2>1 DEF LoadAnswered
  <2>4. past' \in Seq(Entries) /\ future' \in Seq(Entries)
    BY <1>2, EmptySeq DEF LoadAnswered
  <2>5. loose' \subseteq Sheets /\ marks' \subseteq Marks
    BY <1>2, InFlightSheets DEF LoadAnswered, TypeOK
  <2>6. /\ loads' \subseteq [act : Acts, client : Clients] /\ isLoading' \in BOOLEAN
        /\ UNCHANGED <<clientId, globalError, isSaving, run, analyses, act, wanted>>
    BY <1>2 DEF LoadAnswered, TypeOK
  <2>. QED  BY <2>2, <2>3, <2>4, <2>5, <2>6 DEF TypeOK
<1>3. ASSUME NEW l \in loads, LoadFailed(l)  PROVE TypeOK'
  BY <1>3 DEF LoadFailed, TypeOK, Marks, history
<1>. QED  BY <1>1, <1>2, <1>3

\* The step of the save loop, from worksheets with their flags touched.
LEMMA ContinueType ==
  ASSUME TypeOK, NEW i \in Runs, NEW p,
         NEW sheets \in [Sheets -> [rows : Rows, dirty : BOOLEAN, error : BOOLEAN]],
         Continue(i, p, sheets)
  PROVE  /\ sheet' \in [Sheets -> [rows : Rows, dirty : BOOLEAN, error : BOOLEAN]]
         /\ run' \in [Runs -> {NoRun} \cup RunRec]
         /\ isSaving' \in BOOLEAN
<1>1. CASE /\ run' = [run EXCEPT ![i] = NoRun] /\ isSaving' = FALSE /\ sheet' = sheets
  BY <1>1 DEF TypeOK, RunRec
<1>2. CASE ~(run' = [run EXCEPT ![i] = NoRun] /\ isSaving' = FALSE /\ sheet' = sheets)
  <2>1. PICK n \in DOMAIN Order :
             /\ run' = [run EXCEPT ![i] =
                   [at |-> n, rows |-> sheets[Order[n]].rows, client |-> clientId, attached |-> TRUE,
                    old |-> Active(i) /\ run[i].old,
                    frozen |-> IF ~Active(i) THEN {} ELSE run[i].frozen]]
             /\ sheet' = [sheets EXCEPT ![Order[n]].error = FALSE]
             /\ isSaving' = (~Active(i) \/ isSaving) /\ clientId # NoClient
    BY <1>2 DEF Continue
  <2>2. Order[n] \in Sheets /\ clientId \in Clients
    BY <2>1, OrderHoldsSheets DEF TypeOK
  <2>3. Active(i) => run[i] \in RunRec
    BY DEF Active, TypeOK, RunRec
  <2>4. (Active(i) /\ run[i].old) \in BOOLEAN
        /\ (IF ~Active(i) THEN {} ELSE run[i].frozen) \in SUBSET Sheets
    BY <2>3 DEF RunRec
  <2>5. run' \in [Runs -> {NoRun} \cup RunRec]
    BY <2>1, <2>2, <2>4 DEF TypeOK, RunRec
  <2>6. sheet' \in [Sheets -> [rows : Rows, dirty : BOOLEAN, error : BOOLEAN]]
    BY <2>1, <2>2
  <2>7. isSaving' \in BOOLEAN
    BY <2>1
  <2>. QED  BY <2>5, <2>6, <2>7
<1>. QED  BY <1>1, <1>2

LEMMA TypeSaves ==
  ASSUME TypeOK, NEW i \in Runs, SaveAll(i) \/ SaveAnswered(i) \/ SaveFailed(i)
  PROVE  TypeOK'
<1>. DEFINE S == [Sheets -> [rows : Rows, dirty : BOOLEAN, error : BOOLEAN]]
            s == Order[run[i].at]
<1>1. CASE SaveAll(i)
  <2>1. Continue(i, 0, sheet)  BY <1>1 DEF SaveAll
  <2>2. wanted' \in [Runs -> SUBSET Sheets] /\ marks' \subseteq Marks
    BY <1>1 DEF SaveAll, TypeOK, DirtyIn, Marks
  <2>3. sheet \in S  BY DEF TypeOK
  <2>4. UNCHANGED <<clientId, isLoading, globalError, history, loads, analyses, act, accepted, loose>>
    BY <1>1 DEF SaveAll
  <2>. QED  BY <2>1, <2>2, <2>3, <2>4, ContinueType DEF TypeOK, history, RunRec
<1>2. CASE SaveAnswered(i) \/ SaveFailed(i)
  <2>1. Active(i)  BY <1>2 DEF SaveAnswered, SaveFailed
  <2>2. run[i] \in RunRec  BY <2>1 DEF Active, TypeOK, RunRec
  <2>3. s \in Sheets /\ run[i].rows \in Rows
    BY <2>2, OrderHoldsSheets DEF RunRec
  <2>4. PICK sheets \in S : Continue(i, run[i].at, sheets)
    <3>. HIDE DEF s
    <3>1. /\ [sheet EXCEPT ![s].dirty = FALSE] \in S
          /\ [sheet EXCEPT ![s].error = TRUE] \in S
          /\ sheet \in S
      BY <2>3 DEF TypeOK
    <3>. QED  BY <1>2, <3>1 DEF SaveAnswered, SaveFailed, s
  <2>5. accepted' \in [Sheets -> Rows]
    BY <1>2, <2>3 DEF SaveAnswered, SaveFailed, ghosts, TypeOK
  <2>6. UNCHANGED <<clientId, isLoading, globalError, history, loads, analyses, act, loose, wanted, marks>>
    BY <1>2 DEF SaveAnswered, SaveFailed, ghosts
  <2>. QED  BY <2>4, <2>5, <2>6, ContinueType DEF TypeOK, history, RunRec
<1>. QED  BY <1>1, <1>2

LEMMA TypeAnalyses ==
  ASSUME TypeOK,
         \/ \E s \in Analysed, kind \in Kinds : Ask(s, kind)
         \/ \E q \in analyses : Answer(q) \/ AskFailed(q)
  PROVE  TypeOK'
<1>1. ASSUME NEW s \in Analysed, NEW kind \in Kinds, Ask(s, kind)  PROVE TypeOK'
  <2>1. act' \in Acts /\ act' = act + 1
    BY <1>1, ActsAssumption DEF TypeOK, Acts, Ask, Acting
  <2>2. analyses' \subseteq [act : Acts, client : Clients, sheet : Sheets, kind : Kinds]
    BY <1>1, <2>1, OrderAssumption DEF Ask, TypeOK
  <2>. QED  BY <1>1, <2>1, <2>2 DEF Ask, TypeOK, store, history, ghosts
<1>2. ASSUME NEW q \in analyses, Answer(q)  PROVE TypeOK'
  <2>. DEFINE of == IF q.kind = "append" THEN sheet[q.sheet].rows.of \cup {q.client} ELSE {q.client}
  <2>1. q \in [act : Acts, client : Clients, sheet : Sheets, kind : Kinds]
    BY DEF TypeOK
  <2>2. sheet[q.sheet].rows.of \subseteq Clients
    BY <2>1 DEF TypeOK, Rows
  <2>3. [of |-> of, act |-> q.act] \in Rows
    BY <2>1, <2>2 DEF Rows
  <2>4. sheet' \in [Sheets -> [rows : Rows, dirty : BOOLEAN, error : BOOLEAN]]
    <3>. HIDE DEF of
    <3>1. sheet' = [sheet EXCEPT ![q.sheet].rows = [of |-> of, act |-> q.act],
                                 ![q.sheet].dirty = @ \/ q.kind = "append"]
      BY <1>2 DEF Answer, of
    <3>. QED  BY <2>1, <2>3, <3>1 DEF TypeOK
  <2>5. loose' \subseteq Sheets /\ wanted' \in [Runs -> SUBSET Sheets] /\ marks' \subseteq Marks
    BY <1>2, <2>1 DEF Answer, TypeOK, Marks
  <2>. QED  BY <1>2, <2>4, <2>5 DEF Answer, TypeOK, store, history
<1>3. ASSUME NEW q \in analyses, AskFailed(q)  PROVE TypeOK'
  BY <1>3 DEF AskFailed, TypeOK, store, history, ghosts
<1>. QED  BY <1>1, <1>2, <1>3

LEMMA TypeReset ==
  ASSUME TypeOK, Reset
  PROVE  TypeOK'
<1>1. act' \in Acts
  BY ActsAssumption DEF TypeOK, Acts, Reset, Acting
<1>2. NoRows \in Rows
  BY ActsAssumption DEF NoRows, Rows, Acts
<1>3. run' \in [Runs -> {NoRun} \cup RunRec]
  <2>1. ASSUME NEW i \in Runs, Active(i)
        PROVE  [run[i] EXCEPT !.attached = FALSE, !.old = TRUE,
                              !.frozen = IF run[i].old THEN @ ELSE DirtyIn(sheet)] \in RunRec
    BY <2>1 DEF Active, TypeOK, RunRec, DirtyIn
  <2>. QED  BY <2>1 DEF Reset, Replaced
<1>4. past' \in Seq(Entries) /\ future' \in Seq(Entries)
  BY EmptySeq DEF Reset
<1>5. sheet' \in [Sheets -> [rows : Rows, dirty : BOOLEAN, error : BOOLEAN]]
      /\ accepted' \in [Sheets -> Rows]
  BY <1>2 DEF Reset, Replaced
<1>6. loose' \subseteq Sheets /\ wanted' \in [Runs -> SUBSET Sheets] /\ marks' \subseteq Marks
  BY DEF Reset, Replaced, TypeOK, Marks
<1>. QED  BY <1>1, <1>3, <1>4, <1>5, <1>6 DEF Reset, TypeOK, RunRec

LEMMA TypeStep == TypeOK /\ [Next]_vars => TypeOK'
<1>. SUFFICES ASSUME TypeOK, [Next]_vars PROVE TypeOK'  OBVIOUS
<1>1. CASE UNCHANGED vars
  BY <1>1 DEF TypeOK, vars, store, history, ghosts
<1>2. CASE Next
  BY <1>2, TypeUndo, TypeRedo, TypeEdits, TypeLoads, TypeSaves, TypeAnalyses, TypeReset DEF Next
<1>. QED  BY <1>1, <1>2

\* Stores, worksheets, the history and what is in flight keep their types,
\* whatever the user does and however requests end (useWorkbookStore.ts,
\* useWorksheetOps.ts, historyManager.ts).
THEOREM TypeCorrect == Spec => []TypeOK
BY TypeInit, TypeStep, PTL DEF Spec

-----------------------------------------------------------------------------
(* Whose rows are shown and saved.                                         *)

LEMMA OwnInit == Init => OwnInv
<1>. SUFFICES ASSUME Init PROVE OwnInv  OBVIOUS
<1>1. past \in Seq(OwnEntries) /\ future \in Seq(OwnEntries)
  BY EmptySeq DEF Init
<1>2. \A i \in Runs : ~Active(i)
  BY DEF Init, Active
<1>. QED  BY <1>1, <1>2 DEF Init, OwnInv, Own, NoRows

\* A change of a worksheet to rows of the client chosen leaves every worksheet
\* with such rows.
LEMMA ChangedOwn ==
  ASSUME TypeOK, NEW s \in Sheets, NEW r, Changed(s, r), clientId' = clientId,
         Own(r), \A t \in Sheets : Own(sheet[t].rows)
  PROVE  \A t \in Sheets : Own(sheet[t].rows)'
<1>1. \A t \in Sheets : sheet'[t].rows = IF t = s THEN r ELSE sheet[t].rows
  BY DEF TypeOK, Changed
<1>. QED  BY <1>1 DEF Own

LEMMA OwnEdits ==
  ASSUME TypeOK, OwnInv, NEW s \in Sheets, EditRows(s) \/ EditCell(s)
  PROVE  OwnInv'
<1>1. /\ Changed(s, Typed(s)) /\ ~isLoading /\ UNCHANGED <<store, loads, run, marks>>
  BY DEF EditRows, EditCell, Changed
<1>. SUFFICES ASSUME marks = {} PROVE OwnInv'
  BY <1>1 DEF OwnInv
<1>2. /\ loads = {} /\ \A t \in Sheets : Own(sheet[t].rows)
      /\ past \in Seq(OwnEntries) /\ future \in Seq(OwnEntries)
  BY <1>1 DEF OwnInv
<1>3. \A t \in Sheets : Own(sheet[t].rows)'
  <2>1. Own(Typed(s)) /\ clientId' = clientId  BY <1>1, <1>2 DEF Own, Typed, store
  <2>. QED  BY <1>1, <1>2, <2>1, ChangedOwn
<1>4. past' \in Seq(OwnEntries) /\ future' \in Seq(OwnEntries)
  <2>1. CASE EditRows(s) /\ s \notin Unlisted
    <3>1. [sheet |-> s, rows |-> sheet[s].rows] \in OwnEntries
      BY <1>2, <2>1 DEF TypeOK, Entries, OwnEntries, Own
    <3>. HIDE DEF OwnEntries
    <3>. QED  BY <1>2, <2>1, <3>1, PushedStays DEF EditRows, SaveToHistory
  <2>2. CASE UNCHANGED history
    BY <1>2, <2>2 DEF history
  <2>. QED  BY <2>1, <2>2 DEF EditRows, EditCell, SaveToHistory
<1>5. OwnEntries' = OwnEntries
  BY <1>1 DEF OwnEntries, Own, store
<1>. QED  BY <1>1, <1>2, <1>3, <1>4, <1>5 DEF OwnInv, store, Active, Running

LEMMA OwnUndoRedo ==
  ASSUME TypeOK, OwnInv, Undo \/ Redo
  PROVE  OwnInv'
<1>1. UNCHANGED <<store, loads, run, marks>> /\ clientId' = clientId
  BY DEF Undo, Redo, Restored, Changed, ghosts, store
<1>2. OwnEntries' = OwnEntries
  BY <1>1 DEF OwnEntries, Own
<1>3. ASSUME marks = {}, ~isLoading
      PROVE  /\ \A t \in Sheets : Own(sheet[t].rows)'
             /\ past' \in Seq(OwnEntries) /\ future' \in Seq(OwnEntries)
  <2>0. /\ \A t \in Sheets : Own(sheet[t].rows)
        /\ past \in Seq(OwnEntries) /\ future \in Seq(OwnEntries)
    BY <1>3 DEF OwnInv
  <2>1. ASSUME NEW e \in OwnEntries, Restored(e)
        PROVE  \A t \in Sheets : Own(sheet[t].rows)'
    <3>1. e.sheet \in Sheets /\ Own(e.rows) /\ Changed(e.sheet, e.rows)
      BY <2>1 DEF OwnEntries, Entries, Restored
    <3>. QED  BY <1>1, <2>0, <3>1, ChangedOwn
  <2>2. CASE Undo
    <3>1. /\ past' \in Seq(OwnEntries) /\ Last(past) \in OwnEntries
          /\ (Len(past) > 1 => Last(Front(past)) \in OwnEntries)
      BY <2>0, <2>2, PartsOfSeq DEF Undo
    <3>2. future' \in Seq(OwnEntries)
      BY <2>0, <2>2, <3>1, AppendProperties DEF Undo
    <3>3. CASE Len(past) > 1
      BY <2>1, <2>2, <3>1, <3>2, <3>3 DEF Undo
    <3>4. CASE ~(Len(past) > 1)
      BY <1>1, <2>0, <2>2, <3>1, <3>2, <3>4 DEF Undo, Own
    <3>. QED  BY <3>3, <3>4
  <2>3. CASE Redo
    <3>1. future' \in Seq(OwnEntries) /\ Last(future) \in OwnEntries
      BY <2>0, <2>3, PartsOfSeq DEF Redo
    <3>2. past' \in Seq(OwnEntries)
      BY <2>0, <2>3, <3>1, AppendProperties DEF Redo
    <3>. QED  BY <2>1, <2>3, <3>1, <3>2 DEF Redo
  <2>. QED  BY <2>2, <2>3
<1>. QED  BY <1>1, <1>2, <1>3 DEF OwnInv, store, Active, Running

LEMMA OwnLoads ==
  ASSUME TypeOK, OwnInv,
         (\E c \in Clients : Load(c)) \/ (\E l \in loads : LoadAnswered(l) \/ LoadFailed(l))
  PROVE  OwnInv'
<1>1. ASSUME NEW c \in Clients, Load(c)  PROVE OwnInv'
  <2>. SUFFICES ASSUME marks' = {} PROVE OwnInv'  BY DEF OwnInv
  <2>1. marks = {} /\ loads = {} /\ Running = {}
    BY <1>1 DEF Load
  <2>. DEFINE l == [act |-> act + 1, client |-> c]
  <2>2. loads' = {l} /\ l.client = clientId' /\ l \in loads'
    BY <1>1, <2>1 DEF Load
  <2>. HIDE DEF l
  <2>. QED  BY <1>1, <2>1, <2>2 DEF Load, OwnInv, Running, Active
<1>2. ASSUME NEW l \in loads, LoadAnswered(l)  PROVE OwnInv'
  <2>. SUFFICES ASSUME marks' = {} PROVE OwnInv'  BY DEF OwnInv
  <2>1. loads = {l} /\ Running = {} /\ l.client = clientId
    BY <1>2 DEF LoadAnswered, OwnInv
  <2>2. \A i \in Runs : ~Active(i)'
    BY <1>2, <2>1 DEF LoadAnswered, Running, Active
  <2>3. \A s \in Sheets : Own(sheet[s].rows)'
    BY <1>2, <2>1 DEF LoadAnswered, Own
  <2>4. past' \in Seq(OwnEntries') /\ future' \in Seq(OwnEntries')
    BY <1>2, EmptySeq DEF LoadAnswered
  <2>. QED  BY <1>2, <2>1, <2>2, <2>3, <2>4 DEF LoadAnswered, OwnInv
<1>3. ASSUME NEW l \in loads, LoadFailed(l)  PROVE OwnInv'
  BY <1>3 DEF LoadFailed, OwnInv
<1>. QED  BY <1>1, <1>2, <1>3

\* The save loop sends rows shown for the client chosen, and shows the same.
LEMMA ContinueOwn ==
  ASSUME TypeOK, NEW i \in Runs, NEW p,
         NEW sheets \in [Sheets -> [rows : Rows, dirty : BOOLEAN, error : BOOLEAN]],
         Continue(i, p, sheets), clientId' = clientId,
         \A s \in Sheets : Own(sheets[s].rows),
         \A j \in Runs : Active(j) => run[j].rows.of \subseteq {run[j].client}
  PROVE  /\ \A s \in Sheets : Own(sheet[s].rows)'
         /\ \A j \in Runs : Active(j)' => run'[j].rows.of \subseteq {run'[j].client}
<1>1. CASE run' = [run EXCEPT ![i] = NoRun] /\ sheet' = sheets
  BY <1>1 DEF TypeOK, Active, Own
<1>2. CASE ~(run' = [run EXCEPT ![i] = NoRun] /\ sheet' = sheets)
  <2>1. PICK n \in DOMAIN Order :
             /\ \E old, frozen :
                  run' = [run EXCEPT ![i] =
                    [at |-> n, rows |-> sheets[Order[n]].rows, client |-> clientId, attached |-> TRUE,
                     old |-> old, frozen |-> frozen]]
             /\ sheet' = [sheets EXCEPT ![Order[n]].error = FALSE]
    BY <1>2 DEF Continue
  <2>2. Order[n] \in Sheets  BY OrderHoldsSheets
  <2>3. \A s \in Sheets : sheet'[s].rows = sheets[s].rows
    BY <2>1, <2>2
  <2>4. \A j \in Runs : IF j = i THEN /\ run'[j].rows = sheets[Order[n]].rows
                                      /\ run'[j].client = clientId
                                 ELSE run'[j] = run[j]
    BY <2>1 DEF TypeOK
  <2>. QED  BY <2>2, <2>3, <2>4 DEF Own, Active
<1>. QED  BY <1>1, <1>2

LEMMA OwnSaves ==
  ASSUME TypeOK, OwnInv, NEW i \in Runs, SaveAll(i) \/ SaveAnswered(i) \/ SaveFailed(i)
  PROVE  OwnInv'
<1>. DEFINE S == [Sheets -> [rows : Rows, dirty : BOOLEAN, error : BOOLEAN]]
            s == Order[run[i].at]
<1>. SUFFICES ASSUME marks' = {} PROVE OwnInv'  BY DEF OwnInv
<1>1. /\ UNCHANGED <<clientId, isLoading, history, loads>>
      /\ marks = {} /\ ~isLoading
  <2>1. CASE SaveAll(i)
    BY <2>1 DEF SaveAll, OwnInv
  <2>2. CASE SaveAnswered(i) \/ SaveFailed(i)
    BY <2>2 DEF SaveAnswered, SaveFailed, OwnInv, Running, ghosts
  <2>. QED  BY <2>1, <2>2
<1>2. /\ loads = {} /\ \A t \in Sheets : Own(sheet[t].rows)
      /\ past \in Seq(OwnEntries) /\ future \in Seq(OwnEntries)
      /\ \A j \in Runs : Active(j) => run[j].rows.of \subseteq {run[j].client}
  BY <1>1 DEF OwnInv
<1>3. PICK sheets \in S : /\ \E p : Continue(i, p, sheets)
                           /\ \A t \in Sheets : Own(sheets[t].rows)
  <2>1. CASE SaveAll(i)
    <3>1. sheet \in S  BY DEF TypeOK
    <3>2. Continue(i, 0, sheet)  BY <2>1 DEF SaveAll
    <3>. HIDE DEF S
    <3>. QED  BY <1>2, <3>1, <3>2
  <2>2. CASE SaveAnswered(i) \/ SaveFailed(i)
    <3>1. run[i] \in RunRec
      BY <2>2 DEF SaveAnswered, SaveFailed, Active, TypeOK, RunRec
    <3>2. s \in Sheets
      BY <3>1, OrderHoldsSheets DEF RunRec
    <3>. HIDE DEF s
    <3>3. sheet \in S /\ [sheet EXCEPT ![s].dirty = FALSE] \in S
          /\ [sheet EXCEPT ![s].error = TRUE] \in S
      BY <3>2 DEF TypeOK
    <3>4. \A t \in Sheets : /\ [sheet EXCEPT ![s].dirty = FALSE][t].rows = sheet[t].rows
                            /\ [sheet EXCEPT ![s].error = TRUE][t].rows = sheet[t].rows
      BY <3>2 DEF TypeOK
    <3>5. /\ \A t \in Sheets : Own([sheet EXCEPT ![s].dirty = FALSE][t].rows)
          /\ \A t \in Sheets : Own([sheet EXCEPT ![s].error = TRUE][t].rows)
      BY <1>2, <3>4
    <3>6. \/ Continue(i, run[i].at, sheet)
          \/ Continue(i, run[i].at, [sheet EXCEPT ![s].dirty = FALSE])
          \/ Continue(i, run[i].at, [sheet EXCEPT ![s].error = TRUE])
      BY <2>2 DEF SaveAnswered, SaveFailed, s
    <3>. HIDE DEF S
    <3>. QED  BY <1>2, <3>3, <3>5, <3>6
  <2>. QED  BY <2>1, <2>2
<1>4. /\ \A t \in Sheets : Own(sheet[t].rows)'
      /\ \A j \in Runs : Active(j)' => run'[j].rows.of \subseteq {run'[j].client}
  BY <1>1, <1>2, <1>3, ContinueOwn
<1>5. OwnEntries' = OwnEntries
  BY <1>1 DEF OwnEntries, Own
<1>. QED  BY <1>1, <1>2, <1>4, <1>5 DEF OwnInv, history

LEMMA OwnAnalyses ==
  ASSUME TypeOK, OwnInv,
         \/ \E s \in Analysed, kind \in Kinds : Ask(s, kind)
         \/ \E q \in analyses : Answer(q) \/ AskFailed(q)
  PROVE  OwnInv'
<1>. SUFFICES ASSUME marks' = {} PROVE OwnInv'  BY DEF OwnInv
<1>1. UNCHANGED <<store, history, loads, run>> /\ marks = {} /\ clientId' = clientId
  BY DEF Ask, Answer, AskFailed, ghosts, store
<1>2. ASSUME ~isLoading  PROVE \A t \in Sheets : Own(sheet[t].rows)'
  <2>1. \A t \in Sheets : Own(sheet[t].rows)
    BY <1>1, <1>2 DEF OwnInv
  <2>2. ASSUME NEW q \in analyses, Answer(q)
        PROVE  \A t \in Sheets : Own(sheet[t].rows)'
    <3>1. q.sheet \in Sheets  BY DEF TypeOK
    <3>2. q.client = clientId  BY <2>2 DEF Answer
    <3>3. \A t \in Sheets : sheet'[t].rows.of =
            IF t # q.sheet THEN sheet[t].rows.of
            ELSE IF q.kind = "append" THEN sheet[t].rows.of \cup {q.client} ELSE {q.client}
      <4>. DEFINE of == IF q.kind = "append" THEN sheet[q.sheet].rows.of \cup {q.client} ELSE {q.client}
      <4>1. sheet' = [sheet EXCEPT ![q.sheet].rows = [of |-> of, act |-> q.act],
                                   ![q.sheet].dirty = @ \/ q.kind = "append"]
        BY <2>2 DEF Answer
      <4>2. \A t \in Sheets : sheet'[t].rows = IF t = q.sheet THEN [of |-> of, act |-> q.act]
                                                ELSE sheet[t].rows
        <5>. HIDE DEF of
        <5>. QED  BY <3>1, <4>1 DEF TypeOK
      <4>3. sheet'[q.sheet].rows.of = of
        <5>. HIDE DEF of
        <5>. QED  BY <3>1, <4>2
      <4>. QED  BY <4>2, <4>3
    <3>. QED  BY <1>1, <2>1, <3>2, <3>3 DEF Own
  <2>. QED  BY <1>1, <2>1, <2>2 DEF Ask, AskFailed, Own
<1>3. OwnEntries' = OwnEntries
  BY <1>1 DEF OwnEntries, Own
<1>. QED  BY <1>1, <1>2, <1>3 DEF OwnInv, store, history, Running, Active

LEMMA OwnReset ==
  ASSUME TypeOK, OwnInv, Reset
  PROVE  OwnInv'
<1>. SUFFICES ASSUME marks' = {} PROVE OwnInv'  BY DEF OwnInv
<1>1. marks = {} /\ loads' = {} /\ ~isLoading'
  BY DEF Reset, Replaced
<1>2. \A s \in Sheets : Own(sheet[s].rows)'
  BY DEF Reset, Replaced, NoRows, Own
<1>3. past' \in Seq(OwnEntries') /\ future' \in Seq(OwnEntries')
  BY EmptySeq DEF Reset
<1>4. ASSUME NEW i \in Runs, Active(i)'
      PROVE  run'[i].rows.of \subseteq {run'[i].client}
  <2>1. Active(i)
    BY <1>4 DEF Reset, Replaced, Active
  <2>2. run[i].rows.of \subseteq {run[i].client} /\ run[i] \in RunRec
    BY <1>1, <2>1 DEF OwnInv, TypeOK, Active, RunRec
  <2>3. run'[i].rows = run[i].rows /\ run'[i].client = run[i].client
    BY <2>1, <2>2 DEF Reset, Replaced, RunRec
  <2>. QED  BY <2>2, <2>3
<1>. QED  BY <1>1, <1>2, <1>3, <1>4 DEF OwnInv

LEMMA OwnStep == TypeOK /\ OwnInv /\ [Next]_vars => OwnInv'
<1>. SUFFICES ASSUME TypeOK, OwnInv, [Next]_vars PROVE OwnInv'  OBVIOUS
<1>1. CASE UNCHANGED vars
  BY <1>1 DEF OwnInv, Own, OwnEntries, Running, Active, vars, store, history, ghosts
<1>2. CASE Next
  BY <1>2, OwnUndoRedo, OwnEdits, OwnLoads, OwnSaves, OwnAnalyses, OwnReset DEF Next
<1>. QED  BY <1>1, <1>2

\* While no load overlaps another or a save, none fails and no answer comes
\* for another client, the worksheets show rows of the client chosen, and no
\* save sends rows of one client under the id of another: undo and redo, over
\* any number of worksheets and edits, bring nothing of a former client back
\* (useWorkbookStore.ts:58-111, historyManager.ts).
THEOREM AlwaysSavesOwnRows == Spec => []SavesOwnRows
<1>1. OwnInv => SavesOwnRows
  BY DEF OwnInv, SavesOwnRows, Running, Own
<1>. QED  BY <1>1, OwnInit, OwnStep, TypeInit, TypeStep, PTL DEF Spec

-----------------------------------------------------------------------------
(* What a worksheet without its mark shows.                                *)

\* Unless its worksheet is loose, a save in flight carries what is shown.
CarriesShown ==
  \A i \in Runs : Active(i) /\ run[i].attached /\ Order[run[i].at] \notin loose =>
    run[i].rows = sheet[Order[run[i].at]].rows

CleanInv == CleanIsAccepted /\ CarriesShown

SheetRec == [rows : Rows, dirty : BOOLEAN, error : BOOLEAN]

\* A run in a slot is on a worksheet.
LEMMA RunOnSheet ==
  ASSUME TypeOK, NEW i \in Runs, Active(i)
  PROVE  run[i] \in RunRec /\ Order[run[i].at] \in Sheets
BY OrderHoldsSheets DEF TypeOK, Active, RunRec

LEMMA CleanInit == Init => CleanInv
BY DEF Init, CleanInv, CleanIsAccepted, CarriesShown, Active

\* A change marks its worksheet, and one that is being saved becomes loose.
LEMMA ChangedClean ==
  ASSUME TypeOK, CleanInv, NEW s \in Sheets, NEW r, Changed(s, r), UNCHANGED run
  PROVE  CleanInv'
<1>1. \A t \in Sheets : IF t = s THEN sheet'[t].dirty = TRUE ELSE sheet'[t] = sheet[t]
  BY DEF TypeOK, Changed
<1>2. loose \subseteq loose' /\ accepted' = accepted
  BY DEF Changed
<1>3. CleanIsAccepted'
  BY <1>1, <1>2 DEF CleanInv, CleanIsAccepted
<1>4. ASSUME NEW i \in Runs, Active(i)', run'[i].attached, Order[run'[i].at] \notin loose'
      PROVE  run'[i].rows = sheet'[Order[run'[i].at]].rows
  <2>1. Active(i) /\ run'[i] = run[i] /\ Order[run[i].at] \in InFlight
    BY <1>4 DEF Active, InFlight, Running
  <2>2. Order[run[i].at] # s /\ Order[run[i].at] \in Sheets
    BY <1>4, <2>1, RunOnSheet DEF Changed
  <2>. QED  BY <1>1, <1>2, <1>4, <2>1, <2>2 DEF CleanInv, CarriesShown
<1>. QED  BY <1>3, <1>4 DEF CleanInv, CarriesShown

LEMMA CleanEdits ==
  ASSUME TypeOK, CleanInv, Undo \/ Redo \/ \E s \in Sheets : EditRows(s) \/ EditCell(s)
  PROVE  CleanInv'
<1>1. UNCHANGED run
  BY DEF Undo, Redo, EditRows, EditCell
<1>2. ASSUME NEW s \in Sheets, EditRows(s) \/ EditCell(s)  PROVE CleanInv'
  BY <1>1, <1>2, ChangedClean DEF EditRows, EditCell
<1>3. ASSUME NEW e \in Entries, Restored(e)  PROVE CleanInv'
  <2>1. e.sheet \in Sheets  BY DEF Entries
  <2>. QED  BY <1>1, <1>3, <2>1, ChangedClean DEF Restored
<1>4. CASE Undo
  <2>1. Len(past) > 1 => Last(Front(past)) \in Entries
    BY <1>4, PartsOfSeq DEF TypeOK, Undo
  <2>2. CASE Len(past) > 1
    BY <1>3, <1>4, <2>1, <2>2 DEF Undo
  <2>3. CASE ~(Len(past) > 1)
    BY <1>1, <1>4, <2>3 DEF Undo, CleanInv, CleanIsAccepted, CarriesShown, Active, ghosts
  <2>. QED  BY <2>2, <2>3
<1>5. CASE Redo
  <2>1. Last(future) \in Entries
    BY <1>5, PartsOfSeq DEF TypeOK, Redo
  <2>. QED  BY <1>3, <1>5, <2>1 DEF Redo
<1>. QED  BY <1>2, <1>4, <1>5

LEMMA CleanLoads ==
  ASSUME TypeOK, CleanInv,
         (\E c \in Clients : Load(c)) \/ (\E l \in loads : LoadAnswered(l) \/ LoadFailed(l))
  PROVE  CleanInv'
<1>1. CASE UNCHANGED <<sheet, run, accepted, loose>>
  BY <1>1 DEF CleanInv, CleanIsAccepted, CarriesShown, Active
<1>2. ASSUME NEW l \in loads, LoadAnswered(l)  PROVE CleanInv'
  <2>1. CleanIsAccepted'
    BY <1>2 DEF LoadAnswered, CleanIsAccepted
  <2>2. \A i \in Runs : Active(i)' /\ run'[i].attached => Order[run'[i].at] \in loose'
    BY <1>2 DEF LoadAnswered, InFlight, Running, Active
  <2>. QED  BY <2>1, <2>2 DEF CleanInv, CarriesShown
<1>. QED  BY <1>1, <1>2 DEF Load, LoadFailed

\* The save loop sends what is shown and touches only the note of an error.
LEMMA ContinueClean ==
  ASSUME TypeOK, NEW i \in Runs, NEW p, NEW sheets \in [Sheets -> SheetRec],
         Continue(i, p, sheets), UNCHANGED loose,
         \A s \in Sheets : sheets[s].rows = sheet[s].rows,
         \A s \in Sheets \ loose : ~sheets[s].dirty => sheets[s].rows = accepted'[s],
         CarriesShown
  PROVE  CleanInv'
<1>1. CASE run' = [run EXCEPT ![i] = NoRun] /\ sheet' = sheets
  <2>1. CleanIsAccepted'  BY <1>1 DEF CleanIsAccepted
  <2>2. \A j \in Runs : Active(j)' => Active(j) /\ run'[j] = run[j]
    BY <1>1 DEF TypeOK, Active
  <2>3. CarriesShown'
    BY <1>1, <2>2, RunOnSheet DEF CarriesShown
  <2>. QED  BY <2>1, <2>3 DEF CleanInv
<1>2. CASE ~(run' = [run EXCEPT ![i] = NoRun] /\ sheet' = sheets)
  <2>1. PICK n \in DOMAIN Order :
             /\ \E old, frozen :
                  run' = [run EXCEPT ![i] =
                    [at |-> n, rows |-> sheets[Order[n]].rows, client |-> clientId, attached |-> TRUE,
                     old |-> old, frozen |-> frozen]]
             /\ sheet' = [sheets EXCEPT ![Order[n]].error = FALSE]
    BY <1>2 DEF Continue
  <2>2. Order[n] \in Sheets  BY OrderHoldsSheets
  <2>3. \A s \in Sheets : sheet'[s].rows = sheets[s].rows /\ sheet'[s].dirty = sheets[s].dirty
    BY <2>1, <2>2 DEF SheetRec
  <2>4. \A j \in Runs : IF j = i THEN run'[j].rows = sheets[Order[n]].rows /\ run'[j].at = n
                                 ELSE run'[j] = run[j]
    BY <2>1 DEF TypeOK
  <2>5. CleanIsAccepted'  BY <2>3 DEF CleanIsAccepted
  <2>6. ASSUME NEW j \in Runs, Active(j)', run'[j].attached, Order[run'[j].at] \notin loose'
        PROVE  run'[j].rows = sheet'[Order[run'[j].at]].rows
    <3>1. CASE j = i
      BY <2>2, <2>3, <2>4, <3>1
    <3>2. CASE j # i
      BY <2>3, <2>4, <2>6, <3>2, RunOnSheet DEF Active, CarriesShown
    <3>. QED  BY <3>1, <3>2
  <2>. QED  BY <2>5, <2>6 DEF CleanInv, CarriesShown
<1>. QED  BY <1>1, <1>2

LEMMA CleanSaves ==
  ASSUME TypeOK, CleanInv, NEW i \in Runs, SaveAll(i) \/ SaveAnswered(i) \/ SaveFailed(i)
  PROVE  CleanInv'
<1>. DEFINE s == Order[run[i].at]
<1>0. sheet \in [Sheets -> SheetRec] /\ CarriesShown /\ CleanIsAccepted
  BY DEF TypeOK, SheetRec, CleanInv
<1>1. CASE SaveAll(i)
  BY <1>0, <1>1, ContinueClean DEF SaveAll, CleanIsAccepted
<1>2. CASE SaveAnswered(i) \/ SaveFailed(i)
  <2>1. Active(i) /\ run[i] \in RunRec /\ s \in Sheets /\ UNCHANGED loose
    BY <1>2, RunOnSheet DEF SaveAnswered, SaveFailed, ghosts
  <2>. HIDE DEF s
  <2>2. CASE SaveAnswered(i) /\ run[i].attached
    <3>. DEFINE sheets == [sheet EXCEPT ![s].dirty = FALSE]
    <3>1. sheets \in [Sheets -> SheetRec] /\ \A t \in Sheets : sheets[t].rows = sheet[t].rows
      BY <1>0, <2>1 DEF SheetRec
    <3>2. Continue(i, run[i].at, sheets) /\ accepted' = [accepted EXCEPT ![s] = run[i].rows]
      BY <2>2 DEF SaveAnswered, s
    <3>3. s \notin loose => run[i].rows = sheet[s].rows
      BY <1>0, <2>1, <2>2 DEF CarriesShown, s
    <3>4. \A t \in Sheets \ {s} : sheets[t] = sheet[t] /\ accepted'[t] = accepted[t]
      BY <1>0, <2>1, <3>2 DEF TypeOK
    <3>5. accepted'[s] = run[i].rows
      BY <2>1, <3>2 DEF TypeOK
    <3>6. \A t \in Sheets \ loose : ~sheets[t].dirty => sheets[t].rows = accepted'[t]
      BY <1>0, <3>1, <3>3, <3>4, <3>5 DEF CleanIsAccepted
    <3>. HIDE DEF sheets
    <3>. QED  BY <1>0, <2>1, <3>1, <3>2, <3>6, ContinueClean
  <2>3. CASE SaveFailed(i) /\ run[i].attached
    <3>. DEFINE sheets == [sheet EXCEPT ![s].error = TRUE]
    <3>1. sheets \in [Sheets -> SheetRec]
          /\ \A t \in Sheets : sheets[t].rows = sheet[t].rows /\ sheets[t].dirty = sheet[t].dirty
      BY <1>0, <2>1 DEF SheetRec
    <3>2. Continue(i, run[i].at, sheets) /\ accepted' = accepted
      BY <2>3 DEF SaveFailed, ghosts, s
    <3>3. \A t \in Sheets \ loose : ~sheets[t].dirty => sheets[t].rows = accepted'[t]
      BY <1>0, <3>1, <3>2 DEF CleanIsAccepted
    <3>. HIDE DEF sheets
    <3>. QED  BY <1>0, <2>1, <3>1, <3>2, <3>3, ContinueClean
  <2>4. CASE ~run[i].attached
    <3>1. Continue(i, run[i].at, sheet) /\ accepted' = accepted
      BY <1>2, <2>4 DEF SaveAnswered, SaveFailed, ghosts
    <3>. QED  BY <1>0, <2>1, <3>1, ContinueClean DEF CleanIsAccepted
  <2>. QED  BY <1>2, <2>2, <2>3, <2>4
<1>. QED  BY <1>1, <1>2

LEMMA CleanAnalyses ==
  ASSUME TypeOK, CleanInv,
         \/ \E s \in Analysed, kind \in Kinds : Ask(s, kind)
         \/ \E q \in analyses : Answer(q) \/ AskFailed(q)
  PROVE  CleanInv'
<1>1. CASE UNCHANGED <<sheet, run, ghosts>>
  BY <1>1 DEF CleanInv, CleanIsAccepted, CarriesShown, Active, ghosts
<1>2. ASSUME NEW q \in analyses, Answer(q)  PROVE CleanInv'
  <2>1. UNCHANGED <<run, accepted>> /\ loose' = loose \cup {q.sheet}
    BY <1>2 DEF Answer
  <2>2. \A t \in Sheets \ {q.sheet} : sheet'[t] = sheet[t]
    BY <1>2 DEF Answer, TypeOK
  <2>3. CleanIsAccepted'
    BY <2>1, <2>2 DEF CleanInv, CleanIsAccepted
  <2>4. CarriesShown'
    BY <2>1, <2>2, RunOnSheet DEF CleanInv, CarriesShown, Active
  <2>. QED  BY <2>3, <2>4 DEF CleanInv
<1>. QED  BY <1>1, <1>2 DEF Ask, AskFailed

LEMMA CleanReset ==
  ASSUME TypeOK, CleanInv, Reset
  PROVE  CleanInv'
<1>1. CleanIsAccepted'
  BY DEF Reset, Replaced, CleanIsAccepted
<1>2. \A i \in Runs : Active(i)' => ~run'[i].attached
  BY RunOnSheet DEF Reset, Replaced, Active, RunRec
<1>. QED  BY <1>1, <1>2 DEF CleanInv, CarriesShown

LEMMA CleanStep == TypeOK /\ CleanInv /\ [Next]_vars => CleanInv'
<1>. SUFFICES ASSUME TypeOK, CleanInv, [Next]_vars PROVE CleanInv'  OBVIOUS
<1>1. CASE UNCHANGED vars
  BY <1>1 DEF CleanInv, CleanIsAccepted, CarriesShown, Active, vars, ghosts
<1>2. CASE Next
  BY <1>2, CleanEdits, CleanLoads, CleanSaves, CleanAnalyses, CleanReset DEF Next
<1>. QED  BY <1>1, <1>2

\* Whatever overlaps, fails or comes late, a worksheet without its mark shows
\* what the server last sent or accepted, unless it changed while it was being
\* saved or an analysis wrote it: also with runs of saves that Reset overtook
\* (useWorkbookStore.ts:113-175).
THEOREM AlwaysCleanIsAccepted == Spec => []CleanIsAccepted
<1>1. CleanInv => CleanIsAccepted
  BY DEF CleanInv
<1>. QED  BY <1>1, CleanInit, CleanStep, TypeInit, TypeStep, PTL DEF Spec

-----------------------------------------------------------------------------
(* What a run of saves leaves.                                             *)

\* Worksheet s is clean, has its note, or is still ahead of the run in slot i.
Dealt(i, s) ==
  \/ ~sheet[s].dirty \/ sheet[s].error
  \/ \E n \in DOMAIN Order : n >= run[i].at /\ Order[n] = s

\* A run that started alone stays alone, goes by the worksheets shown, and has
\* dealt with what is behind it.
SaidInv ==
  \A i \in Runs : Active(i) /\ wanted[i] # {} =>
    /\ Running = {i} /\ isSaving /\ clientId # NoClient
    /\ run[i].attached /\ ~run[i].old
    /\ \A s \in wanted[i] : Dealt(i, s)

\* Positions are numbers.
LEMMA OrderPositions == DOMAIN Order \subseteq Nat \ {0}
BY OrderAssumption

LEMMA SaidInit == Init => SaidInv
BY DEF Init, SaidInv, Active

\* Steps that leave the runs alone, and change worksheets only where they are
\* wanted no more or are clean.
LEMMA SaidKept ==
  ASSUME TypeOK, SaidInv, UNCHANGED <<run, isSaving>>, clientId # NoClient => clientId' # NoClient,
         \A i \in Runs : wanted'[i] \subseteq wanted[i],
         \A i \in Runs : \A s \in wanted'[i] : sheet'[s] = sheet[s] \/ ~sheet'[s].dirty
  PROVE  SaidInv'
<1>. SUFFICES ASSUME NEW i \in Runs, Active(i)', wanted'[i] # {}
              PROVE  /\ Running' = {i} /\ isSaving' /\ clientId' # NoClient
                     /\ run'[i].attached /\ ~run'[i].old
                     /\ \A s \in wanted'[i] : Dealt(i, s)'
  BY DEF SaidInv
<1>1. Active(i) /\ wanted[i] # {} /\ Running' = Running
  BY DEF Active, Running
<1>2. \A s \in wanted'[i] : Dealt(i, s)
  BY <1>1 DEF SaidInv
<1>3. \A s \in wanted'[i] : Dealt(i, s)'
  BY <1>2 DEF Dealt
<1>. QED  BY <1>1, <1>3 DEF SaidInv

LEMMA ChangedSaid ==
  ASSUME TypeOK, SaidInv, NEW s \in Sheets, NEW r, Changed(s, r), UNCHANGED <<run, store>>
  PROVE  SaidInv'
<1>1. \A i \in Runs : wanted'[i] = wanted[i] \ {s} /\ wanted[i] \subseteq Sheets
  BY DEF Changed, TypeOK
<1>2. \A t \in Sheets \ {s} : sheet'[t] = sheet[t]
  BY DEF Changed, TypeOK
<1>. QED  BY <1>1, <1>2, SaidKept DEF store

LEMMA SaidEdits ==
  ASSUME TypeOK, SaidInv, Undo \/ Redo \/ \E s \in Sheets : EditRows(s) \/ EditCell(s)
  PROVE  SaidInv'
<1>1. UNCHANGED <<run, store>>
  BY DEF Undo, Redo, EditRows, EditCell
<1>2. ASSUME NEW s \in Sheets, EditRows(s) \/ EditCell(s)  PROVE SaidInv'
  BY <1>1, <1>2, ChangedSaid DEF EditRows, EditCell
<1>3. ASSUME NEW e \in Entries, Restored(e)  PROVE SaidInv'
  <2>1. e.sheet \in Sheets  BY DEF Entries
  <2>. QED  BY <1>1, <1>3, <2>1, ChangedSaid DEF Restored
<1>4. CASE Undo
  <2>1. Len(past) > 1 => Last(Front(past)) \in Entries
    BY <1>4, PartsOfSeq DEF TypeOK, Undo
  <2>2. CASE Len(past) > 1
    BY <1>3, <1>4, <2>1, <2>2 DEF Undo
  <2>3. CASE ~(Len(past) > 1)
    BY <1>1, <1>4, <2>3, SaidKept DEF Undo, ghosts, store
  <2>. QED  BY <2>2, <2>3
<1>5. CASE Redo
  <2>1. Last(future) \in Entries
    BY <1>5, PartsOfSeq DEF TypeOK, Redo
  <2>. QED  BY <1>3, <1>5, <2>1 DEF Redo
<1>. QED  BY <1>2, <1>4, <1>5

LEMMA SaidLoads ==
  ASSUME TypeOK, SaidInv,
         (\E c \in Clients : Load(c)) \/ (\E l \in loads : LoadAnswered(l) \/ LoadFailed(l))
  PROVE  SaidInv'
<1>1. ASSUME NEW c \in Clients, Load(c)  PROVE SaidInv'
  BY <1>1, SaidKept, ClientAssumption DEF Load
<1>2. ASSUME NEW l \in loads, LoadAnswered(l)  PROVE SaidInv'
  <2>1. \A i \in Runs : wanted'[i] = wanted[i] /\ wanted[i] \subseteq Sheets
    BY <1>2 DEF LoadAnswered, TypeOK
  <2>2. \A s \in Sheets : ~sheet'[s].dirty
    BY <1>2 DEF LoadAnswered
  <2>. QED  BY <1>2, <2>1, <2>2, SaidKept DEF LoadAnswered
<1>3. ASSUME NEW l \in loads, LoadFailed(l)  PROVE SaidInv'
  BY <1>3, SaidKept DEF LoadFailed
<1>. QED  BY <1>1, <1>2, <1>3

\* A run starts alone, at the first worksheet that is dirty.
LEMMA SaidStart ==
  ASSUME TypeOK, SaidInv, NEW i \in Runs, SaveAll(i)
  PROVE  SaidInv'
<1>0. ~Active(i) /\ ~isSaving /\ Continue(i, 0, sheet) /\ clientId' = clientId
      /\ wanted' = [wanted EXCEPT ![i] = IF Running = {} THEN DirtyIn(sheet) ELSE {}]
  BY DEF SaveAll
<1>1. \A j \in Runs : Active(j) => wanted[j] = {}
  BY <1>0 DEF SaidInv
<1>2. CASE run' = [run EXCEPT ![i] = NoRun]
  <2>1. \A j \in Runs : Active(j)' => Active(j) /\ wanted'[j] = wanted[j]
    BY <1>0, <1>2 DEF TypeOK, Active
  <2>. QED  BY <1>1, <2>1 DEF SaidInv
<1>3. CASE run' # [run EXCEPT ![i] = NoRun]
  <2>1. PICK n \in DOMAIN Order :
             /\ \A m \in DOMAIN Order : m > 0 /\ Order[m] \in DirtyIn(sheet) => n <= m
             /\ run' = [run EXCEPT ![i] =
                   [at |-> n, rows |-> sheet[Order[n]].rows, client |-> clientId, attached |-> TRUE,
                    old |-> FALSE, frozen |-> {}]]
             /\ isSaving' = TRUE /\ clientId # NoClient
    BY <1>0, <1>3 DEF Continue
  <2>2. /\ run'[i].at = n /\ run'[i].attached /\ ~run'[i].old /\ n # 0
        /\ \A j \in Runs \ {i} : run'[j] = run[j] /\ wanted'[j] = wanted[j]
    BY <1>0, <2>1, OrderPositions DEF TypeOK
  <2>3. \A j \in Runs \ {i} : Active(j)' => wanted'[j] = {}
    BY <1>1, <2>2 DEF Active
  <2>4. ASSUME wanted'[i] # {}
        PROVE  Running' = {i} /\ \A s \in wanted'[i] : Dealt(i, s)'
    <3>1. Running = {} /\ wanted'[i] = DirtyIn(sheet)
      BY <1>0, <2>4 DEF TypeOK
    <3>2. Running' = {i}
      BY <2>2, <3>1 DEF Running, Active, NoRun
    <3>3. ASSUME NEW s \in wanted'[i]  PROVE Dealt(i, s)'
      <4>1. PICK m \in DOMAIN Order : Order[m] = s
        BY <3>1, <3>3 DEF DirtyIn, Sheets, Range
      <4>2. m > 0 /\ n <= m
        BY <2>1, <3>1, <4>1, OrderPositions
      <4>. QED  BY <2>2, <4>1, <4>2, OrderPositions DEF Dealt
    <3>. QED  BY <3>2, <3>3
  <2>. QED  BY <1>0, <2>1, <2>2, <2>3, <2>4 DEF SaidInv
<1>. QED  BY <1>2, <1>3

\* The worksheets after the answer to run i: the one it was on is clean or has
\* its note, the others are as they were.
Settled(i, sheets) ==
  LET s == Order[run[i].at]
  IN /\ sheets \in [Sheets -> SheetRec]
     /\ ~sheets[s].dirty \/ sheets[s].error
     /\ \A t \in Sheets : /\ sheets[t].dirty => sheet[t].dirty
                          /\ sheet[t].error => sheets[t].error
     /\ Continue(i, run[i].at, sheets)

LEMMA SettledByAnswer ==
  ASSUME TypeOK, NEW i \in Runs, SaveAnswered(i) \/ SaveFailed(i), run[i].attached
  PROVE  \E sheets : Settled(i, sheets)
<1>. DEFINE s == Order[run[i].at]
<1>1. s \in Sheets /\ sheet \in [Sheets -> SheetRec]
  BY RunOnSheet DEF SaveAnswered, SaveFailed, TypeOK, SheetRec
<1>2. CASE SaveAnswered(i)
  <2>. DEFINE sheets == [sheet EXCEPT ![s].dirty = FALSE]
  <2>1. Continue(i, run[i].at, sheets)
    BY <1>2 DEF SaveAnswered
  <2>. HIDE DEF s
  <2>2. /\ sheets \in [Sheets -> SheetRec] /\ ~sheets[s].dirty
        /\ \A t \in Sheets : /\ sheets[t].dirty => sheet[t].dirty
                             /\ sheet[t].error => sheets[t].error
    BY <1>1 DEF SheetRec
  <2>. HIDE DEF sheets
  <2>. QED  BY <2>1, <2>2 DEF Settled, s
<1>3. CASE SaveFailed(i)
  <2>. DEFINE sheets == [sheet EXCEPT ![s].error = TRUE]
  <2>1. Continue(i, run[i].at, sheets)
    BY <1>3 DEF SaveFailed
  <2>. HIDE DEF s
  <2>2. /\ sheets \in [Sheets -> SheetRec] /\ sheets[s].error
        /\ \A t \in Sheets : /\ sheets[t].dirty => sheet[t].dirty
                             /\ sheet[t].error => sheets[t].error
    BY <1>1 DEF SheetRec
  <2>. HIDE DEF sheets
  <2>. QED  BY <2>1, <2>2 DEF Settled, s
<1>. QED  BY <1>2, <1>3

\* With the answer every wanted worksheet is dealt with or strictly ahead.
LEMMA SettledAhead ==
  ASSUME TypeOK, SaidInv, NEW i \in Runs, NEW sheets, Settled(i, sheets), Active(i), NEW s \in wanted[i]
  PROVE  /\ s \in Sheets
         /\ \/ ~sheets[s].dirty \/ sheets[s].error
            \/ \E m \in DOMAIN Order : m > run[i].at /\ Order[m] = s /\ s \in DirtyIn(sheets)
<1>1. s \in Sheets /\ Dealt(i, s) /\ run[i].at \in DOMAIN Order
  BY RunOnSheet DEF TypeOK, SaidInv, RunRec
<1>2. CASE ~sheet[s].dirty \/ sheet[s].error
  BY <1>1, <1>2 DEF Settled
<1>3. ASSUME NEW m \in DOMAIN Order, m >= run[i].at, Order[m] = s
      PROVE  \/ ~sheets[s].dirty \/ sheets[s].error
             \/ m > run[i].at /\ s \in DirtyIn(sheets)
  <2>1. m = run[i].at \/ m > run[i].at
    BY <1>1, <1>3, OrderPositions
  <2>. QED  BY <1>1, <1>3, <2>1 DEF Settled, DirtyIn
<1>. QED  BY <1>1, <1>2, <1>3 DEF Dealt

LEMMA SaidSaves ==
  ASSUME TypeOK, SaidInv, NEW i \in Runs, SaveAnswered(i) \/ SaveFailed(i)
  PROVE  SaidInv' /\ (run'[i] = NoRun => \A s \in wanted[i] : ~sheet'[s].dirty \/ sheet'[s].error)
<1>0. Active(i) /\ UNCHANGED <<clientId, wanted>> /\ \E sheets : Continue(i, run[i].at, sheets)
  BY DEF SaveAnswered, SaveFailed, ghosts
<1>1. \A j \in Runs \ {i} : run'[j] = run[j]
  BY <1>0 DEF Continue, TypeOK
<1>2. \A j \in Runs \ {i} : Active(j)' => wanted'[j] = {}
  BY <1>0, <1>1 DEF Active, SaidInv, Running
<1>3. CASE wanted[i] = {}
  BY <1>0, <1>2, <1>3 DEF SaidInv
<1>4. CASE wanted[i] # {}
  <2>1. /\ Running = {i} /\ isSaving /\ clientId # NoClient
        /\ run[i].attached /\ ~run[i].old
    BY <1>0, <1>4 DEF SaidInv
  <2>2. PICK sheets : Settled(i, sheets)
    BY <2>1, SettledByAnswer
  <2>. DEFINE at == run[i].at
              next == {n \in DOMAIN Order : n > at /\ Order[n] \in DirtyIn(sheets)}
  <2>3. \A s \in wanted[i] : s \in Sheets /\ (~sheets[s].dirty \/ sheets[s].error \/
                                              \E m \in next : Order[m] = s)
    BY <1>0, <2>2, SettledAhead
  <2>4. CASE next = {} /\ run' = [run EXCEPT ![i] = NoRun] /\ sheet' = sheets
    <3>1. run'[i] = NoRun  BY <2>4 DEF TypeOK
    <3>2. \A s \in wanted[i] : ~sheet'[s].dirty \/ sheet'[s].error
      BY <2>3, <2>4
    <3>. QED  BY <1>2, <3>1, <3>2 DEF SaidInv, Active
  <2>5. ASSUME NEW n \in next, \A m \in next : n <= m,
               \E rows : run' = [run EXCEPT ![i] =
                 [at |-> n, rows |-> rows, client |-> clientId, attached |-> TRUE,
                  old |-> FALSE, frozen |-> run[i].frozen]],
               sheet' = [sheets EXCEPT ![Order[n]].error = FALSE], isSaving'
        PROVE  SaidInv' /\ run'[i] # NoRun
    <3>1. /\ run'[i].at = n /\ run'[i].attached /\ ~run'[i].old /\ n # 0
      BY <2>5, OrderPositions DEF TypeOK
    <3>2. run'[i] # NoRun /\ Running' = {i}
      BY <1>1, <2>1, <3>1 DEF Running, Active, NoRun
    <3>3. ASSUME NEW s \in wanted[i]  PROVE Dealt(i, s)'
      <4>1. CASE \E m \in next : Order[m] = s
        BY <2>5, <3>1, <4>1, OrderPositions DEF Dealt
      <4>2. CASE s = Order[n]
        BY <3>1, <4>2, OrderPositions DEF Dealt
      <4>3. CASE s # Order[n] /\ (~sheets[s].dirty \/ sheets[s].error)
        <5>1. sheet'[s] = sheets[s]
          BY <2>2, <2>3, <2>5, <4>3 DEF Settled
        <5>. QED  BY <4>3, <5>1 DEF Dealt
      <4>. QED  BY <2>3, <4>1, <4>2, <4>3
    <3>. QED  BY <1>0, <1>2, <2>1, <2>5, <3>1, <3>2, <3>3 DEF SaidInv
  <2>6. \/ next = {} /\ run' = [run EXCEPT ![i] = NoRun] /\ sheet' = sheets
        \/ \E n \in next :
             /\ \A m \in next : n <= m
             /\ run' = [run EXCEPT ![i] =
                  [at |-> n, rows |-> sheets[Order[n]].rows, client |-> clientId, attached |-> TRUE,
                   old |-> FALSE, frozen |-> run[i].frozen]]
             /\ sheet' = [sheets EXCEPT ![Order[n]].error = FALSE] /\ isSaving'
    BY <1>0, <2>1, <2>2 DEF Settled, Continue
  <2>. QED  BY <2>4, <2>5, <2>6
<1>. QED  BY <1>3, <1>4

LEMMA SaidAnalyses ==
  ASSUME TypeOK, SaidInv,
         \/ \E s \in Analysed, kind \in Kinds : Ask(s, kind)
         \/ \E q \in analyses : Answer(q) \/ AskFailed(q)
  PROVE  SaidInv'
<1>1. CASE UNCHANGED <<store, sheet, run, ghosts>>
  BY <1>1, SaidKept DEF store, ghosts
<1>2. ASSUME NEW q \in analyses, Answer(q)  PROVE SaidInv'
  <2>1. UNCHANGED <<run, store>> /\ \A i \in Runs : wanted'[i] = wanted[i] \ {q.sheet} /\ wanted[i] \subseteq Sheets
    BY <1>2 DEF Answer, TypeOK
  <2>2. \A t \in Sheets \ {q.sheet} : sheet'[t] = sheet[t]
    BY <1>2 DEF Answer, TypeOK
  <2>. QED  BY <2>1, <2>2, SaidKept DEF store
<1>. QED  BY <1>1, <1>2 DEF Ask, AskFailed

\* No step but the answer to a save ends a run.
SaidAll == \A i \in Runs : Active(i) /\ run'[i] = NoRun =>
             \A s \in wanted[i] : ~sheet'[s].dirty \/ sheet'[s].error

LEMMA SaidReset ==
  ASSUME TypeOK, SaidInv, Reset
  PROVE  SaidInv' /\ SaidAll
<1>1. \A i \in Runs : wanted'[i] = {}
  BY DEF Reset, Replaced
<1>2. \A i \in Runs : Active(i) => run'[i] # NoRun
  <2>. SUFFICES ASSUME NEW i \in Runs, Active(i) PROVE run'[i] # NoRun
    OBVIOUS
  <2>1. run[i] \in RunRec
    BY RunOnSheet
  <2>2. run'[i].old
    BY <2>1 DEF Reset, Replaced, RunRec
  <2>3. run'[i].at = run[i].at /\ run[i].at # 0
    BY <2>1, OrderPositions DEF Reset, Replaced, RunRec
  <2>. QED  BY <2>3 DEF NoRun
<1>. QED  BY <1>1, <1>2 DEF SaidInv, SaidAll

LEMMA SaidStep ==
  ASSUME TypeOK, SaidInv, [Next]_vars
  PROVE  SaidInv' /\ SaidAll
<1>1. ASSUME UNCHANGED run  PROVE SaidAll
  BY <1>1 DEF SaidAll, Active
<1>2. CASE UNCHANGED vars
  BY <1>1, <1>2, SaidKept DEF vars, store, ghosts
<1>3. CASE Undo \/ Redo \/ \E s \in Sheets : EditRows(s) \/ EditCell(s)
  BY <1>1, <1>3, SaidEdits DEF Undo, Redo, EditRows, EditCell
<1>4. CASE (\E c \in Clients : Load(c)) \/ (\E l \in loads : LoadAnswered(l) \/ LoadFailed(l))
  BY <1>1, <1>4, SaidLoads DEF Load, LoadAnswered, LoadFailed
<1>5. ASSUME NEW i \in Runs, SaveAll(i)  PROVE SaidInv' /\ SaidAll
  <2>1. \A j \in Runs : Active(j) => run'[j] = run[j]
    BY <1>5 DEF SaveAll, Continue, TypeOK
  <2>. QED  BY <1>5, <2>1, SaidStart DEF SaidAll, Active
<1>6. ASSUME NEW i \in Runs, SaveAnswered(i) \/ SaveFailed(i)  PROVE SaidInv' /\ SaidAll
  <2>1. \A j \in Runs \ {i} : run'[j] = run[j]
    BY <1>6 DEF SaveAnswered, SaveFailed, Continue, TypeOK
  <2>. QED  BY <1>6, <2>1, SaidSaves DEF SaidAll, Active
<1>7. CASE \/ \E s \in Analysed, kind \in Kinds : Ask(s, kind)
           \/ \E q \in analyses : Answer(q) \/ AskFailed(q)
  BY <1>1, <1>7, SaidAnalyses DEF Ask, Answer, AskFailed
<1>. QED  BY <1>2, <1>3, <1>4, <1>5, <1>6, <1>7, SaidReset DEF Next

\* When a run of saves that started alone ends, whatever answers, edits and
\* loads came in between, each worksheet that was dirty at its start and has
\* not changed since is clean or says that it was not saved: none is passed
\* over (useWorkbookStore.ts:157-175).
THEOREM AlwaysSavedOrSaid == Spec => SavedAllOrSaid
<1>1. TypeOK /\ SaidInv /\ [Next]_vars
        => [\A i \in Runs : Active(i) /\ run'[i] = NoRun =>
              \A s \in wanted[i] : ~sheet'[s].dirty \/ sheet'[s].error]_vars
  BY SaidStep DEF SaidAll
<1>. QED  BY <1>1, SaidInit, SaidStep, TypeInit, TypeStep, PTL DEF Spec, SavedAllOrSaid

-----------------------------------------------------------------------------
(* What ends a run: each answer brings it closer.                          *)

\* The button is blocked only by a run that is going on.
Blocked == isSaving => Running # {}

\* An answer ends its run or takes it on to a later worksheet, and nothing else
\* moves it, so a run is over after as many answers as there are worksheets.
Advances ==
  \A i \in Runs : Active(i) =>
    \/ run'[i] = NoRun \/ run'[i].at > run[i].at
    \/ run'[i].at = run[i].at /\ ~SaveAnswered(i) /\ ~SaveFailed(i)

LEMMA ContinueAdvances ==
  ASSUME TypeOK, NEW i \in Runs, NEW p, NEW sheets, Continue(i, p, sheets)
  PROVE  /\ (run'[i] = NoRun /\ ~isSaving') \/ (run'[i] # NoRun /\ run'[i].at > p)
         /\ \A j \in Runs \ {i} : run'[j] = run[j]
<1>1. CASE run' = [run EXCEPT ![i] = NoRun] /\ ~isSaving'
  <2>1. run'[i] = NoRun /\ \A j \in Runs \ {i} : run'[j] = run[j]
    BY <1>1 DEF TypeOK
  <2>. QED  BY <1>1, <2>1
<1>2. CASE ~(run' = [run EXCEPT ![i] = NoRun] /\ ~isSaving')
  <2>1. PICK n \in DOMAIN Order :
             /\ n > p
             /\ run' = [run EXCEPT ![i] =
                   [at |-> n, rows |-> sheets[Order[n]].rows, client |-> clientId, attached |-> TRUE,
                    old |-> Active(i) /\ run[i].old,
                    frozen |-> IF ~Active(i) THEN {} ELSE run[i].frozen]]
    BY <1>2 DEF Continue
  <2>2. run'[i].at = n /\ n # 0 /\ \A j \in Runs \ {i} : run'[j] = run[j]
    BY <2>1, OrderPositions DEF TypeOK
  <2>. QED  BY <2>1, <2>2 DEF NoRun
<1>. QED  BY <1>1, <1>2

LEMMA AnswerAdvances ==
  ASSUME TypeOK, NEW i \in Runs, SaveAnswered(i) \/ SaveFailed(i)
  PROVE  /\ (run'[i] = NoRun /\ ~isSaving') \/ (run'[i] # NoRun /\ run'[i].at > run[i].at)
         /\ \A j \in Runs \ {i} : run'[j] = run[j]
<1>1. PICK sheets : Continue(i, run[i].at, sheets)
  BY DEF SaveAnswered, SaveFailed
<1>. QED  BY <1>1, ContinueAdvances

\* The runs go on or end only by answers; Reset marks them.
LEMMA RunsStay ==
  ASSUME TypeOK, [Next]_vars, \A i \in Runs : ~SaveAll(i) /\ ~SaveAnswered(i) /\ ~SaveFailed(i)
  PROVE  \A i \in Runs : (Active(i) <=> Active(i)') /\ run'[i].at = run[i].at
<1>1. CASE UNCHANGED run
  BY <1>1 DEF Active
<1>2. CASE Reset
  <2> SUFFICES ASSUME NEW i \in Runs, Active(i)
               PROVE  Active(i)' /\ run'[i].at = run[i].at
    BY <1>2 DEF Reset, Replaced, Active
  <2>1. run[i] \in RunRec  BY DEF Active, TypeOK, RunRec
  <2>2. run'[i].at = run[i].at /\ run[i].at # 0
    BY <1>2, <2>1, OrderPositions DEF Reset, Replaced, RunRec
  <2>. QED  BY <2>2 DEF NoRun, Active
<1>. QED  BY <1>1, <1>2 DEF Next, vars, Undo, Redo, EditRows, EditCell, Load, LoadAnswered, LoadFailed, Ask, Answer, AskFailed

LEMMA BlockedStep == TypeOK /\ Blocked /\ [Next]_vars => Blocked'
<1>. SUFFICES ASSUME TypeOK, Blocked, [Next]_vars, isSaving' PROVE \E i \in Runs : Active(i)'
  BY DEF Blocked, Running
<1>1. ASSUME NEW i \in Runs, SaveAll(i)  PROVE Active(i)'
  BY <1>1, ContinueAdvances DEF SaveAll, Active
<1>2. ASSUME NEW i \in Runs, SaveAnswered(i) \/ SaveFailed(i)  PROVE Active(i)'
  BY <1>2, AnswerAdvances DEF Active
<1>3. CASE \A i \in Runs : ~SaveAll(i) /\ ~SaveAnswered(i) /\ ~SaveFailed(i)
  <2>1. isSaving
    BY <1>3 DEF Next, vars, store, Undo, Redo, EditRows, EditCell, Load, LoadAnswered, LoadFailed, Ask,
                Answer, AskFailed, Reset
  <2>. QED  BY <1>3, <2>1, RunsStay DEF Blocked, Running
<1>. QED  BY <1>1, <1>2, <1>3

\* The button that saves is blocked only while a run goes on, whatever fails,
\* is reset or overlaps (useWorkbookStore.ts:157-175): the safety half of
\* SavingEnds.
THEOREM BlockedBySaves == Spec => [](isSaving => Running # {})
<1>1. Init => Blocked
  BY DEF Init, Blocked
<1>2. Spec => []Blocked
  BY <1>1, BlockedStep, TypeInit, TypeStep, PTL DEF Spec
<1>. QED  BY <1>2, PTL DEF Blocked

\* ... and a run never asks the server twice about a worksheet, so that it is
\* over after as many answers as there are worksheets (useWorkbookStore.ts:157-175).
THEOREM RunsAdvance == Spec => [][Advances]_vars
<1>1. TypeOK /\ [Next]_vars => Advances
  <2>. SUFFICES ASSUME TypeOK, [Next]_vars, NEW i \in Runs, Active(i)
                PROVE  \/ run'[i] = NoRun \/ run'[i].at > run[i].at
                       \/ run'[i].at = run[i].at /\ ~SaveAnswered(i) /\ ~SaveFailed(i)
    BY DEF Advances
  <2>1. CASE SaveAnswered(i) \/ SaveFailed(i)
    BY <2>1, AnswerAdvances
  <2>2. CASE ~SaveAnswered(i) /\ ~SaveFailed(i)
    <3>1. ASSUME NEW j \in Runs, j # i, SaveAnswered(j) \/ SaveFailed(j)  PROVE run'[i] = run[i]
      BY <3>1, AnswerAdvances
    <3>2. ASSUME NEW j \in Runs, SaveAll(j)  PROVE run'[i] = run[i]
      <4>1. j # i  BY <3>2 DEF SaveAll
      <4>. QED  BY <3>2, <4>1, ContinueAdvances DEF SaveAll
    <3>. QED  BY <2>2, <3>1, <3>2, RunsStay
  <2>. QED  BY <2>1, <2>2
<1>2. TypeOK /\ [Next]_vars => [Advances]_vars
  BY <1>1
<1>. QED  BY <1>2, TypeInit, TypeStep, PTL DEF Spec
===============================================================================
