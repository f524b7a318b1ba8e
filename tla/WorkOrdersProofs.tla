-------------------------- MODULE WorkOrdersProofs --------------------------
(***************************************************************************)
(* Theorems about WorkOrders for every set of orders, sessions, workflow   *)
(* configurations, rows and edits.                                         *)
(***************************************************************************)
EXTENDS WorkOrders, TLAPS

-----------------------------------------------------------------------------
(* What the handlers build.                                                *)

\* An UPDATE of some columns leaves a row, with the status of the values
\* exactly when it names the status.
LEMMA OverlayRow ==
  ASSUME NEW r \in Rows, NEW v \in Rows, NEW cols \in SUBSET Columns
  PROVE  /\ Overlay(r, v, cols) \in Rows
         /\ Overlay(r, v, cols).status = IF "status" \in cols THEN v.status ELSE r.status
BY DEF Overlay, Rows

\* A plan never writes the status without a history row that is no note, nor
\* such a row without the status it names.
Honest(change) ==
  /\ "status" \in change.cols <=> ~IsNote(change.entry)
  /\ ~IsNote(change.entry) => change.val.status = change.entry.to

\* execute_transition plans a well-typed, honest change.
LEMMA TransitionChangeHonest ==
  ASSUME NEW r \in Rows, NEW to \in Statuses
  PROVE  /\ TransitionChange(r, to) \in Changes
         /\ Honest(TransitionChange(r, to))
         /\ TransitionChange(r, to).val.status = to
<1> DEFINE closed == "closed" \in Stamped(config, to)
           shipped == "shipped" \in Stamped(config, to)
           dispatched == "dispatched" \in Stamped(config, to)
<1>0. closed \in BOOLEAN /\ shipped \in BOOLEAN /\ dispatched \in BOOLEAN
  OBVIOUS
<1>1. Transitioned(config, r, to) \in Rows /\ Transitioned(config, r, to).status = to
  <2> HIDE DEF closed, shipped, dispatched
  <2>1. Transitioned(config, r, to) =
          [r EXCEPT !.status = to, !.prev = IF to = "ON_HOLD" THEN r.status ELSE @,
                    !.dispatched = @ \/ dispatched, !.shipped = @ \/ shipped,
                    !.closed = @ \/ closed]
    BY Zenon DEF Transitioned, closed, shipped, dispatched
  <2> QED
    BY <1>0, <2>1 DEF Rows
<1>2. TransitionColumns(config, r, to) \subseteq Columns
  BY DEF TransitionColumns, Stamped, Columns
<1>3. "status" \in TransitionColumns(config, r, to) <=> r.status # to
  BY <1>1 DEF TransitionColumns, Stamped
<1>4. [from |-> r.status, to |-> to] \in Entries
  BY DEF Entries, Rows
<1> QED
  BY <1>1, <1>2, <1>3, <1>4 DEF TransitionChange, Changes, Honest, IsNote

-----------------------------------------------------------------------------
(* What a handler decides on the rows it reads.                            *)

\* The row read may take this status: it is not terminal and the gates are open.
MayBecome(r, to) ==
  to # r.status => /\ r.status \notin Terminal
                   /\ to = "COMPLETED" => r.qty
                   /\ to = "SHIPPED" => r.qc

\* What a change decided on the present row of w promises about that row.
Decided(w, change) ==
  /\ w \in Exists
  /\ change.entry # NoEntry => change.entry.from = wo[w].status
  /\ "status" \in change.cols => MayBecome(wo[w], change.val.status)

IsPlan(plan) == DOMAIN plan \subseteq WorkOrderIds /\ plan \in [DOMAIN plan -> Changes]

\* Every handler leaves a well-typed plan decided on the present rows, and an
\* honest one for every order that loses no history row.
LEMMA HandlerDecides ==
  ASSUME TypeOK, NEW s \in Sessions, Handler(s)
  PROVE  \E plan : /\ Plan(s, plan) /\ IsPlan(plan)
                   /\ \A w \in DOMAIN plan : Decided(w, plan[w])
                   /\ \A w \in DOMAIN plan : w \in Logged => Honest(plan[w])
<1> DEFINE Goal == \E plan : /\ Plan(s, plan) /\ IsPlan(plan)
                             /\ \A w \in DOMAIN plan : Decided(w, plan[w])
                             /\ \A w \in DOMAIN plan : w \in Logged => Honest(plan[w])
<1> USE EditsAssumption
<1>1. \A w \in Exists : wo[w] \in Rows /\ w \in WorkOrderIds
  BY DEF TypeOK, Exists
<1>2. ASSUME NEW w \in Exists, NEW change \in Changes, Plan(s, Only(w, change)),
             Decided(w, change), w \in Logged => Honest(change)
      PROVE  Goal
  <2>1. DOMAIN Only(w, change) = {w} /\ Only(w, change)[w] = change
    BY DEF Only
  <2>2. IsPlan(Only(w, change))
    BY <1>1, <2>1 DEF IsPlan, Only
  <2> QED
    BY <1>2, <2>1, <2>2
<1>3. ASSUME NEW w \in Exists, NEW to \in Statuses, ValidateTransition(config, wo[w], to)
      PROVE  MayBecome(wo[w], to)
  BY <1>3 DEF ValidateTransition, IsTransitionValid, MayBecome
<1>4. ASSUME NEW w \in Exists, NEW to \in Statuses, ValidateTransition(config, wo[w], to)
      PROVE  Decided(w, TransitionChange(wo[w], to))
  <2>1. /\ TransitionChange(wo[w], to).entry.from = wo[w].status
        /\ TransitionChange(wo[w], to).val.status = to
    BY <1>1, TransitionChangeHonest DEF TransitionChange
  <2> QED
    BY <1>3, <1>4, <2>1 DEF Decided
<1>5. ASSUME NEW w \in WorkOrderIds, NEW to \in Statuses, Transition(s, w, to)
      PROVE  Goal
  BY <1>1, <1>2, <1>4, <1>5, TransitionChangeHonest DEF Transition
<1>6. ASSUME NEW ids \in SUBSET WorkOrderIds, NEW to \in Statuses, BulkTransition(s, ids, to)
      PROVE  Goal
  <2> DEFINE valid == {w \in ids \cap Exists : ValidateTransition(config, wo[w], to)}
             plan == [w \in valid |-> TransitionChange(wo[w], to)]
  <2>1. \A w \in valid : /\ TransitionChange(wo[w], to) \in Changes
                         /\ Honest(TransitionChange(wo[w], to))
                         /\ Decided(w, TransitionChange(wo[w], to))
    BY <1>1, <1>4, TransitionChangeHonest
  <2>2. DOMAIN plan = valid /\ valid \subseteq WorkOrderIds
    OBVIOUS
  <2>3. IsPlan(plan) /\ \A w \in DOMAIN plan : Decided(w, plan[w]) /\ Honest(plan[w])
    BY <2>1, <2>2 DEF IsPlan
  <2>4. Plan(s, plan)
    BY <1>6 DEF BulkTransition
  <2> HIDE DEF plan, valid
  <2> QED
    BY <2>3, <2>4
<1>7. ASSUME NEW w \in WorkOrderIds, NEW e \in Edits, UpdateFields(s, w, e)
      PROVE  Goal
  <2> DEFINE after == Overlay(wo[w], e.val, e.cols)
             change == [cols |-> {c \in e.cols : after[c] # wo[w][c]}, val |-> after,
                        entry |-> NoEntry]
  <2>1. /\ w \in Exists /\ wo[w] \in Rows /\ e.val \in Rows /\ e.cols \subseteq Columns
        /\ "status" \in e.cols => e.val.status = wo[w].status
        /\ Plan(s, Only(w, change))
    BY <1>1, <1>7 DEF UpdateFields
  <2>2. after \in Rows /\ after.status = wo[w].status
    BY <2>1, OverlayRow
  <2>3. change \in Changes
    BY <2>1, <2>2 DEF Changes
  <2>4. Honest(change) /\ Decided(w, change)
    BY <2>1, <2>2 DEF Honest, IsNote, NoEntry, Decided, MayBecome
  <2> QED
    BY <1>2, <2>1, <2>3, <2>4
<1>8. ASSUME NEW w \in WorkOrderIds, NEW e \in Edits, UpdateStatus(s, w, e)
      PROVE  Goal
  <2> DEFINE t == TransitionChange(wo[w], e.val.status)
             rest == e.cols \ {"status"}
             change == [t EXCEPT !.cols = @ \cup rest, !.val = Overlay(@, e.val, rest)]
  <2>1. /\ w \in Exists /\ wo[w] \in Rows /\ e.val \in Rows /\ e.cols \subseteq Columns
        /\ Plan(s, Only(w, change)) /\ ValidateTransition(config, wo[w], e.val.status)
    BY <1>1, <1>8 DEF UpdateStatus
  <2>2. e.val.status \in Statuses
    BY <2>1 DEF Rows
  <2>3. t \in Changes /\ Honest(t) /\ Decided(w, t)
    BY <1>4, <2>1, <2>2, TransitionChangeHonest
  <2>4. t.val.status = e.val.status
    BY <2>1, <2>2, TransitionChangeHonest
  <2>5. /\ Overlay(t.val, e.val, rest) \in Rows
        /\ Overlay(t.val, e.val, rest).status = t.val.status
    BY <2>1, <2>3, OverlayRow DEF Changes
  <2>6. MayBecome(wo[w], e.val.status)
    BY <1>3, <2>1, <2>2
  <2> HIDE DEF t
  <2>7. change \in Changes /\ Honest(change)
    BY <2>1, <2>3, <2>5 DEF Changes, Honest
  <2>8. Decided(w, change)
    BY <2>3, <2>4, <2>5, <2>6 DEF Decided, Changes
  <2> QED
    BY <1>2, <2>1, <2>7, <2>8
<1>9. ASSUME NEW w \in WorkOrderIds, NEW e \in Edits, UpdateStatusUnlogged(s, w, e)
      PROVE  Goal
  <2> DEFINE after == Overlay(wo[w], e.val, e.cols)
             change == [cols |-> {c \in e.cols : e.val[c] # wo[w][c]}, val |-> after,
                        entry |-> NoEntry]
  <2>1. /\ w \in Exists /\ wo[w] \in Rows /\ e.val \in Rows /\ e.cols \subseteq Columns
        /\ "status" \in e.cols /\ w \notin Logged
        /\ Plan(s, Only(w, change)) /\ ValidateTransition(config, wo[w], e.val.status)
    BY <1>1, <1>9 DEF UpdateStatusUnlogged, Logged
  <2>2. after \in Rows /\ after.status = e.val.status
    BY <2>1, OverlayRow
  <2>3. MayBecome(wo[w], e.val.status)
    BY <1>3, <2>1 DEF Rows
  <2>4. change \in Changes /\ Decided(w, change)
    BY <2>1, <2>2, <2>3 DEF Changes, Decided
  <2> QED
    BY <1>2, <2>1, <2>4
<1>10. ASSUME NEW w \in WorkOrderIds, ApproveQC(s, w)
      PROVE  Goal
  <2> DEFINE r == wo[w]
             change == [cols |-> {"qc"}, val |-> [r EXCEPT !.qc = TRUE],
                        entry |-> [from |-> r.status, to |-> r.status]]
  <2>1. w \in Exists /\ r \in Rows /\ Plan(s, Only(w, change))
    BY <1>1, <1>10 DEF ApproveQC
  <2>2. [r EXCEPT !.qc = TRUE] \in Rows /\ r.status \in Statuses
    BY <2>1 DEF Rows
  <2>3. change \in Changes /\ Honest(change) /\ Decided(w, change)
    BY <2>1, <2>2 DEF Changes, Entries, Columns, Honest, IsNote, Decided
  <2> QED
    BY <1>2, <2>1, <2>3
<1> QED
  BY <1>5, <1>6, <1>7, <1>8, <1>9, <1>10 DEF Handler

\* Leaving a plan changes the session that leaves it and nothing else.
LEMMA PlanStep ==
  ASSUME TypeOK, NEW s \in Sessions, NEW plan, IsPlan(plan), Plan(s, plan)
  PROVE  /\ TypeOK' /\ UNCHANGED <<wo, log, config>>
         /\ session' = [t \in Sessions |-> IF t = s THEN plan ELSE session[t]]
<1>1. /\ session' = [t \in Sessions |-> IF t = s THEN plan ELSE session[t]]
      /\ wo' = wo /\ log' = log /\ config' = config
  BY DEF Plan, TypeOK
<1>2. TypeOK'
  BY <1>1 DEF TypeOK, Exists, IsPlan
<1> QED
  BY <1>1, <1>2

-----------------------------------------------------------------------------
(* Types.                                                                  *)

Opening(r) == [from |-> NoStatus, to |-> r.status]

\* A new row, and the entry that opens its history.
LEMMA CreateRow ==
  ASSUME TypeOK, NEW w \in WorkOrderIds, NEW r \in NewRows, Create(w, r)
  PROVE  /\ TypeOK'
         /\ r \in Rows /\ Opening(r) \in Entries /\ ~IsNote(Opening(r))
         /\ Exists' = Exists \cup {w} /\ w \notin Exists
         /\ wo'[w] = r /\ \A x \in Exists : wo'[x] = wo[x]
         /\ log'[w] = Append(log[w], Opening(r))
         /\ \A x \in WorkOrderIds \ {w} : log'[x] = log[x]
         /\ UNCHANGED <<config, session>>
<1>1. r \in Rows /\ Opening(r) \in Entries /\ ~IsNote(Opening(r))
  BY NewRowsAssumption DEF Opening, Rows, Entries, IsNote, NoStatus, Statuses
<1>2. /\ Exists' = Exists \cup {w} /\ w \notin Exists
      /\ wo'[w] = r /\ \A x \in Exists : wo'[x] = wo[x]
      /\ log' = [log EXCEPT ![w] = Append(log[w], Opening(r))]
      /\ UNCHANGED <<config, session>>
  BY DEF Create, Exists, Opening
<1>3. TypeOK'
  <2>1. wo' = [x \in Exists \cup {w} |-> IF x = w THEN r ELSE wo[x]]
    BY DEF Create
  <2>2. Append(log[w], Opening(r)) \in Seq(Entries)
    BY <1>1 DEF TypeOK
  <2> QED
    BY <1>1, <1>2, <2>1, <2>2 DEF TypeOK, Exists
<1> QED
  BY <1>1, <1>2, <1>3 DEF TypeOK

\* A commit writes the columns of its plan over the rows as they are now, and
\* appends its history rows.
LEMMA CommitRows ==
  ASSUME TypeOK, NEW s \in Sessions, Commit(s)
  PROVE  /\ TypeOK' /\ IsPlan(session[s]) /\ Exists' = Exists /\ config' = config
         /\ session' = [t \in Sessions |-> IF t = s THEN NoPlan ELSE session[t]]
         /\ \A w \in Exists \ DOMAIN session[s] : wo'[w] = wo[w]
         /\ \A w \in WorkOrderIds \ DOMAIN session[s] : log'[w] = log[w]
         /\ \A w \in DOMAIN session[s] :
              /\ w \in Exists =>
                   wo'[w].status = IF "status" \in session[s][w].cols
                                   THEN session[s][w].val.status ELSE wo[w].status
              /\ log'[w] = IF session[s][w].entry = NoEntry THEN log[w]
                           ELSE Append(log[w], session[s][w].entry)
              /\ session[s][w].entry # NoEntry => session[s][w].entry \in Entries
<1> DEFINE plan == session[s]
<1>1. IsPlan(plan)
  BY DEF TypeOK, IsPlan
<1>2. /\ wo' = [w \in Exists |-> IF w \in DOMAIN plan
                                THEN Overlay(wo[w], plan[w].val, plan[w].cols) ELSE wo[w]]
      /\ log' = [w \in WorkOrderIds |->
                   IF w \in DOMAIN plan /\ plan[w].entry # NoEntry
                   THEN Append(log[w], plan[w].entry) ELSE log[w]]
      /\ session' = [session EXCEPT ![s] = NoPlan] /\ config' = config
  BY DEF Commit
<1>3. /\ Exists' = Exists
      /\ \A w \in Exists : w \in WorkOrderIds /\ wo[w] \in Rows
      /\ \A w \in WorkOrderIds : log[w] \in Seq(Entries)
  BY <1>2 DEF Exists, TypeOK
<1>4. \A w \in DOMAIN plan :
        /\ plan[w].cols \in SUBSET Columns /\ plan[w].val \in Rows
        /\ plan[w].entry # NoEntry => plan[w].entry \in Entries
  BY <1>1 DEF IsPlan, Changes
<1>5. \A w \in DOMAIN plan \cap Exists :
        /\ Overlay(wo[w], plan[w].val, plan[w].cols) \in Rows
        /\ Overlay(wo[w], plan[w].val, plan[w].cols).status =
             IF "status" \in plan[w].cols THEN plan[w].val.status ELSE wo[w].status
  BY <1>3, <1>4, OverlayRow
<1>6. TypeOK'
  <2>1. wo' \in [Exists' -> Rows]
    BY <1>2, <1>3, <1>5
  <2>2. log' \in [WorkOrderIds -> Seq(Entries)]
    BY <1>2, <1>3, <1>4
  <2>3. /\ session' = [t \in Sessions |-> session'[t]]
        /\ \A t \in Sessions : DOMAIN session'[t] \subseteq WorkOrderIds
                               /\ session'[t] \in [DOMAIN session'[t] -> Changes]
    BY <1>2 DEF TypeOK, NoPlan
  <2> QED
    BY <1>2, <1>3, <2>1, <2>2, <2>3 DEF TypeOK
<1> QED
  BY <1>1, <1>2, <1>3, <1>4, <1>5, <1>6 DEF TypeOK, IsPlan

\* A rollback empties its session.
LEMMA RollbackStep ==
  ASSUME TypeOK, NEW s \in Sessions, Rollback(s)
  PROVE  /\ TypeOK' /\ UNCHANGED <<wo, log, config>>
         /\ session' = [t \in Sessions |-> IF t = s THEN NoPlan ELSE session[t]]
<1>1. /\ session' = [session EXCEPT ![s] = NoPlan]
      /\ wo' = wo /\ log' = log /\ config' = config
  BY DEF Rollback
<1> QED
  BY <1>1 DEF TypeOK, Exists, NoPlan

LEMMA TypesInit == Init => TypeOK
BY ConfigsAssumption DEF Init, TypeOK, Exists, NoPlan

LEMMA TypesStep == TypeOK /\ [Next]_vars => TypeOK'
<1> SUFFICES ASSUME TypeOK, [Next]_vars
             PROVE  TypeOK'
  OBVIOUS
<1>1. ASSUME NEW w \in WorkOrderIds, NEW r \in NewRows, Create(w, r)
      PROVE  TypeOK'
  BY <1>1, CreateRow
<1>2. ASSUME NEW s \in Sessions, Handler(s)
      PROVE  TypeOK'
  BY <1>2, HandlerDecides, PlanStep
<1>3. ASSUME NEW s \in Sessions, Commit(s) \/ Rollback(s)
      PROVE  TypeOK'
  BY <1>3, CommitRows, RollbackStep
<1>4. ASSUME NEW c \in ClientConfigs, SetConfig(c)
      PROVE  TypeOK'
  BY <1>4 DEF SetConfig, TypeOK, Exists
<1>5. CASE UNCHANGED vars
  BY <1>5 DEF vars, TypeOK, Exists
<1> QED
  BY <1>1, <1>2, <1>3, <1>4, <1>5 DEF Next

\* Rows, histories, configuration and plans keep the types of their columns.
THEOREM TypeCorrect == Spec => []TypeOK
BY TypesInit, TypesStep, PTL DEF Spec

-----------------------------------------------------------------------------
(* StatusExplained: requests interleave freely.                            *)

Explained(status, h) ==
  \E i \in 1..Len(h) :
    /\ ~IsNote(h[i]) /\ h[i].to = status
    /\ \A j \in (i + 1)..Len(h) : IsNote(h[j])

\* Appending an entry keeps a status explained when the entry names the new
\* status, or is a note and the status stays.
LEMMA AppendExplains ==
  ASSUME NEW h \in Seq(Entries), NEW entry \in Entries, NEW old, NEW new,
         IF IsNote(entry) THEN new = old /\ Explained(old, h) ELSE new = entry.to
  PROVE  Explained(new, Append(h, entry))
<1> DEFINE g == Append(h, entry)
<1>1. /\ Len(h) \in Nat /\ Len(g) = Len(h) + 1 /\ g[Len(h) + 1] = entry
      /\ \A i \in 1..Len(h) : g[i] = h[i]
  OBVIOUS
<1>2. CASE IsNote(entry)
  <2>1. PICK i \in 1..Len(h) : /\ ~IsNote(h[i]) /\ h[i].to = old
                              /\ \A j \in (i + 1)..Len(h) : IsNote(h[j])
    BY <1>2 DEF Explained
  <2>2. \A j \in (i + 1)..Len(g) : IsNote(g[j])
    BY <1>1, <1>2, <2>1
  <2>3. i \in 1..Len(g) /\ g[i] = h[i]
    BY <1>1
  <2>4. ~IsNote(g[i]) /\ g[i].to = new
    BY <1>2, <2>1, <2>3
  <2> QED
    BY <2>2, <2>3, <2>4 DEF Explained
<1>3. CASE ~IsNote(entry)
  <2>1. Len(h) + 1 \in 1..Len(g) /\ ~IsNote(g[Len(h) + 1]) /\ g[Len(h) + 1].to = new
    BY <1>1, <1>3
  <2>2. \A j \in (Len(h) + 2)..Len(g) : IsNote(g[j])
    BY <1>1
  <2> QED
    BY <1>1, <2>1, <2>2 DEF Explained
<1> QED
  BY <1>2, <1>3

PlansHonest ==
  \A s \in Sessions : \A w \in DOMAIN session[s] :
    w \in Exists /\ (w \in Logged => Honest(session[s][w]))

AllExplained == \A w \in Exists \cap Logged : Explained(wo[w].status, log[w])

\* The inductive invariant of Spec.
IInv == TypeOK /\ PlansHonest /\ AllExplained

\* A commit of an honest plan keeps every status explained, over whatever
\* other requests committed since the plan was made.
LEMMA CommitExplains ==
  ASSUME IInv, NEW s \in Sessions, Commit(s)
  PROVE  AllExplained'
<1> DEFINE plan == session[s]
<1> SUFFICES ASSUME NEW w \in Exists \cap Logged
             PROVE  Explained(wo'[w].status, log'[w])
  BY CommitRows DEF IInv, AllExplained, Explained, IsNote
<1>1. Explained(wo[w].status, log[w]) /\ w \in WorkOrderIds /\ log[w] \in Seq(Entries)
  BY DEF IInv, TypeOK, AllExplained
<1>2. CASE w \notin DOMAIN plan
  BY <1>1, <1>2, CommitRows DEF IInv
<1>3. CASE w \in DOMAIN plan
  <2>1. /\ Honest(plan[w])
        /\ wo'[w].status = IF "status" \in plan[w].cols THEN plan[w].val.status ELSE wo[w].status
        /\ log'[w] = IF plan[w].entry = NoEntry THEN log[w] ELSE Append(log[w], plan[w].entry)
        /\ plan[w].entry # NoEntry => plan[w].entry \in Entries
    BY <1>3, CommitRows DEF IInv, PlansHonest
  <2>2. wo'[w].status = IF IsNote(plan[w].entry) THEN wo[w].status ELSE plan[w].entry.to
    BY <2>1 DEF Honest
  <2>3. CASE plan[w].entry = NoEntry
    BY <1>1, <2>1, <2>2, <2>3 DEF IsNote, NoEntry
  <2>4. CASE plan[w].entry # NoEntry
    BY <1>1, <2>1, <2>2, <2>4, AppendExplains
  <2> QED
    BY <2>3, <2>4
<1> QED
  BY <1>2, <1>3

\* However requests interleave, the status of every order that loses no
\* history row to a failed SELECT is explained by its history.
THEOREM StatusAlwaysExplained == Spec => []StatusExplained
<1>1. Init => IInv
  BY TypesInit DEF Init, IInv, PlansHonest, AllExplained, Exists, NoPlan
<1>2. IInv /\ [Next]_vars => IInv'
  <2> SUFFICES ASSUME IInv, [Next]_vars
               PROVE  PlansHonest' /\ AllExplained'
    BY TypesStep DEF IInv
  <2>1. ASSUME NEW w \in WorkOrderIds, NEW r \in NewRows, Create(w, r)
        PROVE  PlansHonest' /\ AllExplained'
    <3>1. PlansHonest'
      BY <2>1, CreateRow DEF IInv, PlansHonest, Honest, IsNote
    <3>2. ASSUME NEW x \in Exists' \cap Logged
          PROVE  Explained(wo'[x].status, log'[x])
      <4>1. CASE x = w
        <5>1. /\ wo'[x].status = Opening(r).to /\ log'[x] = Append(log[w], Opening(r))
              /\ Opening(r) \in Entries /\ ~IsNote(Opening(r)) /\ log[w] \in Seq(Entries)
          BY <2>1, <4>1, CreateRow DEF IInv, TypeOK, Opening
        <5>2. Explained(Opening(r).to, Append(log[w], Opening(r)))
          BY <5>1, AppendExplains
        <5> QED
          BY <5>1, <5>2
      <4>2. CASE x # w
        BY <2>1, <4>2, CreateRow DEF IInv, TypeOK, AllExplained
      <4> QED
        BY <4>1, <4>2
    <3> QED
      BY <3>1, <3>2 DEF AllExplained, Explained, IsNote
  <2>2. ASSUME NEW s \in Sessions, Handler(s)
        PROVE  PlansHonest' /\ AllExplained'
    <3>1. PICK plan : /\ Plan(s, plan) /\ IsPlan(plan)
                      /\ \A w \in DOMAIN plan : Decided(w, plan[w]) /\ (w \in Logged => Honest(plan[w]))
      BY <2>2, HandlerDecides DEF IInv
    <3>2. /\ UNCHANGED <<wo, log, config>>
          /\ session' = [t \in Sessions |-> IF t = s THEN plan ELSE session[t]]
      BY <3>1, PlanStep DEF IInv
    <3> QED
      BY <3>1, <3>2 DEF IInv, PlansHonest, AllExplained, Explained, Exists, Decided, Honest, IsNote
  <2>3. ASSUME NEW s \in Sessions, Commit(s)
        PROVE  PlansHonest' /\ AllExplained'
    BY <2>3, CommitRows, CommitExplains DEF IInv, PlansHonest, NoPlan, Honest, IsNote
  <2>4. ASSUME NEW s \in Sessions, Rollback(s)
        PROVE  PlansHonest' /\ AllExplained'
    <3>1. UNCHANGED <<wo, log>>
      BY <2>4, RollbackStep DEF IInv
    <3>2. AllExplained'
      BY <3>1 DEF IInv, AllExplained, Explained, Exists, IsNote
    <3>3. PlansHonest'
      BY <2>4, <3>1, RollbackStep DEF IInv, PlansHonest, Exists, NoPlan, Honest, IsNote
    <3> QED
      BY <3>2, <3>3
  <2>5. CASE (\E c \in ClientConfigs : SetConfig(c)) \/ UNCHANGED vars
    BY <2>5 DEF SetConfig, vars, IInv, PlansHonest, AllExplained, Explained, Exists, Honest, IsNote
  <2> QED
    BY <2>1, <2>2, <2>3, <2>4, <2>5 DEF Next
<1>3. IInv => StatusExplained
  BY DEF IInv, TypeOK, AllExplained, Explained, StatusExplained, Logged
<1> QED
  BY <1>1, <1>2, <1>3, PTL DEF Spec
-----------------------------------------------------------------------------
(* Requests that do not overlap on an order (SerialSpec).                  *)

PlansCurrent == \A s \in Sessions : \A w \in DOMAIN session[s] : Decided(w, session[s][w])

\* The inductive invariant of SerialSpec: every plan in flight was decided on
\* the row as it still is.
SInv == TypeOK /\ OneAtATime /\ PlansCurrent

LEMMA SerialInit == Init => SInv
BY TypesInit DEF Init, SInv, OneAtATime, PlansCurrent, NoPlan

LEMMA SerialStep == SInv /\ [SerialNext]_vars => SInv'
<1> SUFFICES ASSUME SInv, [SerialNext]_vars
             PROVE  PlansCurrent' /\ OneAtATime'
  BY TypesStep DEF SInv, SerialNext
<1>1. ASSUME NEW w \in WorkOrderIds, NEW r \in NewRows, Create(w, r)
      PROVE  PlansCurrent'
  BY <1>1, CreateRow DEF SInv, PlansCurrent, Decided
<1>2. ASSUME NEW s \in Sessions, Handler(s)
      PROVE  PlansCurrent'
  <2>1. PICK plan : Plan(s, plan) /\ IsPlan(plan) /\ \A w \in DOMAIN plan : Decided(w, plan[w])
    BY <1>2, HandlerDecides DEF SInv
  <2>2. /\ UNCHANGED <<wo, log, config>>
        /\ session' = [t \in Sessions |-> IF t = s THEN plan ELSE session[t]]
    BY <2>1, PlanStep DEF SInv
  <2> QED
    BY <2>1, <2>2 DEF SInv, PlansCurrent, Decided, Exists
<1>3. ASSUME NEW s \in Sessions, Commit(s)
      PROVE  PlansCurrent'
  <2> SUFFICES ASSUME NEW t \in Sessions, NEW w \in DOMAIN session'[t]
               PROVE  Decided(w, session[t][w])'
    BY DEF PlansCurrent
  <2>1. t # s /\ session'[t] = session[t]
    BY <1>3, CommitRows DEF SInv, NoPlan
  <2>2. w \notin DOMAIN session[s]
    BY <2>1 DEF SInv, OneAtATime
  <2>3. Decided(w, session[t][w])
    BY <2>1 DEF SInv, PlansCurrent
  <2>4. wo'[w] = wo[w] /\ Exists' = Exists
    BY <1>3, <2>2, <2>3, CommitRows DEF SInv, Decided
  <2> QED
    BY <2>1, <2>3, <2>4 DEF Decided, MayBecome
<1>4. ASSUME NEW s \in Sessions, Rollback(s)
      PROVE  PlansCurrent'
  BY <1>4, RollbackStep DEF SInv, PlansCurrent, Decided, Exists, NoPlan
<1>5. ASSUME (\E c \in ClientConfigs : SetConfig(c)) \/ UNCHANGED vars
      PROVE  PlansCurrent'
  BY <1>5 DEF SetConfig, vars, SInv, PlansCurrent, Decided, Exists, MayBecome
<1>6. OneAtATime'
  BY DEF SInv, SerialNext, vars, OneAtATime
<1> QED
  BY <1>1, <1>2, <1>3, <1>4, <1>5, <1>6 DEF SerialNext, Next

\* A step changes a status only as its row allows at that moment.
LEMMA StatusMoves ==
  ASSUME SInv, [SerialNext]_vars, NEW w \in Exists
  PROVE  MayBecome(wo[w], wo'[w].status)
<1>1. CASE \E x \in WorkOrderIds, r \in NewRows : Create(x, r)
  BY <1>1, CreateRow DEF SInv, MayBecome
<1>2. CASE \E s \in Sessions : Handler(s) \/ Rollback(s)
  BY <1>2, HandlerDecides, PlanStep, RollbackStep DEF SInv, MayBecome
<1>3. ASSUME NEW s \in Sessions, Commit(s)
      PROVE  MayBecome(wo[w], wo'[w].status)
  <2>1. CASE w \in DOMAIN session[s]
    <3>1. /\ Decided(w, session[s][w])
          /\ wo'[w].status = IF "status" \in session[s][w].cols
                             THEN session[s][w].val.status ELSE wo[w].status
      BY <1>3, <2>1, CommitRows DEF SInv, PlansCurrent
    <3> QED
      BY <3>1 DEF Decided, MayBecome
  <2>2. CASE w \notin DOMAIN session[s]
    BY <1>3, <2>2, CommitRows DEF SInv, MayBecome
  <2> QED
    BY <2>1, <2>2
<1>4. CASE (\E c \in ClientConfigs : SetConfig(c)) \/ UNCHANGED vars
  BY <1>4 DEF SetConfig, vars, MayBecome
<1> QED
  BY <1>1, <1>2, <1>3, <1>4 DEF SerialNext, Next

\* When requests do not overlap on an order, CLOSED, CANCELLED and REJECTED
\* are final, whatever the client's workflow and whatever history is lost.
THEOREM TerminalStaysFinal == SerialSpec => TerminalIsFinal
<1>1. SInv /\ [SerialNext]_vars =>
        [\A w \in Exists : wo[w].status \in Terminal => wo'[w].status = wo[w].status]_vars
  BY StatusMoves DEF MayBecome
<1> QED
  BY <1>1, SerialInit, SerialStep, PTL DEF SerialSpec, TerminalIsFinal

\* A quantity or an approval changes only by a commit that writes its column.
LEMMA GateColumns ==
  ASSUME SInv, [SerialNext]_vars, NEW w \in Exists
  PROVE  /\ wo'[w].qty = wo[w].qty \/ Writes(w, "qty")
         /\ wo'[w].qc = wo[w].qc \/ Writes(w, "qc")
<1>1. CASE \E x \in WorkOrderIds, r \in NewRows : Create(x, r)
  BY <1>1, CreateRow DEF SInv
<1>2. CASE \E s \in Sessions : Handler(s) \/ Rollback(s)
  BY <1>2, HandlerDecides, PlanStep, RollbackStep DEF SInv
<1>3. ASSUME NEW s \in Sessions, Commit(s)
      PROVE  /\ wo'[w].qty = wo[w].qty \/ Writes(w, "qty")
             /\ wo'[w].qc = wo[w].qc \/ Writes(w, "qc")
  <2>1. session'[s] # session[s]
    BY <1>3, CommitRows DEF SInv, Commit, Idle
  <2>2. CASE w \notin DOMAIN session[s]
    BY <1>3, <2>2, CommitRows DEF SInv
  <2>3. CASE w \in DOMAIN session[s]
    <3>1. wo'[w] = Overlay(wo[w], session[s][w].val, session[s][w].cols)
      BY <1>3, <2>3 DEF Commit, Exists
    <3> QED
      BY <2>1, <2>3, <3>1 DEF Overlay, Writes
  <2> QED
    BY <2>2, <2>3
<1>4. CASE (\E c \in ClientConfigs : SetConfig(c)) \/ UNCHANGED vars
  BY <1>4 DEF SetConfig, vars
<1> QED
  BY <1>1, <1>2, <1>3, <1>4 DEF SerialNext, Next

\* When requests do not overlap on an order, a gate is tested on the row as it
\* is: no order enters COMPLETED without having had a quantity or SHIPPED
\* without having had QC approval, and it has either still unless the request
\* that passed the gate writes that very column.
THEOREM GatesAlwaysHold == SerialSpec => GatesHold
<1>1. SInv /\ [SerialNext]_vars =>
        [\A w \in Exists : wo'[w].status # wo[w].status =>
           /\ wo'[w].status = "COMPLETED" => wo[w].qty /\ (wo'[w].qty \/ Writes(w, "qty"))
           /\ wo'[w].status = "SHIPPED" => wo[w].qc /\ (wo'[w].qc \/ Writes(w, "qc"))]_vars
  BY StatusMoves, GateColumns DEF MayBecome
<1> QED
  BY <1>1, SerialInit, SerialStep, PTL DEF SerialSpec, GatesHold

-----------------------------------------------------------------------------
(* GatedOnArrival under SerialSpec, when no edit takes back what a gate     *)
(* asks for.                                                               *)

\* No PUT sets, together with a status, the quantity to zero or QC approval
\* to false.
EditsSpare ==
  \A e \in Edits : "status" \in e.cols => /\ "qty" \in e.cols => e.val.qty
                                          /\ "qc" \in e.cols => e.val.qc

Spares(change) ==
  "status" \in change.cols => /\ "qty" \in change.cols => change.val.qty
                              /\ "qc" \in change.cols => change.val.qc

LEMMA HandlerSpares ==
  ASSUME TypeOK, EditsSpare, NEW s \in Sessions, Handler(s)
  PROVE  \A w \in DOMAIN session'[s] : Spares(session'[s][w])
<1> DEFINE Goal == \A w \in DOMAIN session'[s] : Spares(session'[s][w])
<1>1. ASSUME NEW plan, Plan(s, plan)
      PROVE  session'[s] = plan
  BY <1>1 DEF Plan, TypeOK
<1>2. ASSUME NEW w, NEW change, Plan(s, Only(w, change)), Spares(change)
      PROVE  Goal
  BY <1>1, <1>2 DEF Only
<1>3. \A r, to : /\ "qty" \notin TransitionChange(r, to).cols
                 /\ "qc" \notin TransitionChange(r, to).cols
  BY DEF TransitionChange, TransitionColumns, Stamped
<1>4. ASSUME NEW w \in WorkOrderIds, NEW to \in Statuses, Transition(s, w, to)
      PROVE  Goal
  BY <1>2, <1>3, <1>4 DEF Transition, Spares
<1>5. ASSUME NEW ids \in SUBSET WorkOrderIds, NEW to \in Statuses, BulkTransition(s, ids, to)
      PROVE  Goal
  <2> DEFINE valid == {w \in ids \cap Exists : ValidateTransition(config, wo[w], to)}
  <2>1. session'[s] = [w \in valid |-> TransitionChange(wo[w], to)]
    BY <1>1, <1>5 DEF BulkTransition
  <2> HIDE DEF valid
  <2> QED
    BY <1>3, <2>1 DEF Spares
<1>6. ASSUME NEW w \in WorkOrderIds, NEW e \in Edits, UpdateFields(s, w, e)
      PROVE  Goal
  <2> DEFINE after == Overlay(wo[w], e.val, e.cols)
             change == [cols |-> {c \in e.cols : after[c] # wo[w][c]}, val |-> after,
                        entry |-> NoEntry]
  <2>1. Plan(s, Only(w, change))
    BY <1>6 DEF UpdateFields
  <2>2. Spares(change)
    BY DEF EditsSpare, Spares, Overlay
  <2> HIDE DEF change
  <2> QED
    BY <1>2, <2>1, <2>2
<1>7. ASSUME NEW w \in WorkOrderIds, NEW e \in Edits, UpdateStatus(s, w, e)
      PROVE  Goal
  <2> DEFINE t == TransitionChange(wo[w], e.val.status)
             rest == e.cols \ {"status"}
             change == [t EXCEPT !.cols = @ \cup rest, !.val = Overlay(@, e.val, rest)]
  <2>1. Plan(s, Only(w, change)) /\ "status" \in e.cols
    BY <1>7 DEF UpdateStatus
  <2>2. change.cols = t.cols \cup rest /\ change.val = Overlay(t.val, e.val, rest)
    BY DEF TransitionChange
  <2>3. /\ "qty" \in rest => Overlay(t.val, e.val, rest).qty
        /\ "qc" \in rest => Overlay(t.val, e.val, rest).qc
    BY <2>1 DEF EditsSpare, Overlay
  <2>4. "qty" \notin t.cols /\ "qc" \notin t.cols
    BY <1>3
  <2> HIDE DEF change, t, rest
  <2>5. Spares(change)
    BY <2>2, <2>3, <2>4 DEF Spares
  <2> QED
    BY <1>2, <2>1, <2>5
<1>8. ASSUME NEW w \in WorkOrderIds, NEW e \in Edits, UpdateStatusUnlogged(s, w, e)
      PROVE  Goal
  <2> DEFINE change == [cols |-> {c \in e.cols : e.val[c] # wo[w][c]},
                        val |-> Overlay(wo[w], e.val, e.cols), entry |-> NoEntry]
  <2>1. Plan(s, Only(w, change))
    BY <1>8 DEF UpdateStatusUnlogged
  <2>2. Spares(change)
    BY DEF EditsSpare, Spares, Overlay
  <2> HIDE DEF change
  <2> QED
    BY <1>2, <2>1, <2>2
<1>9. ASSUME NEW w \in WorkOrderIds, ApproveQC(s, w)
      PROVE  Goal
  <2> DEFINE change == [cols |-> {"qc"}, val |-> [wo[w] EXCEPT !.qc = TRUE],
                        entry |-> [from |-> wo[w].status, to |-> wo[w].status]]
  <2>1. Plan(s, Only(w, change))
    BY <1>9 DEF ApproveQC
  <2>2. Spares(change)
    BY DEF Spares
  <2> HIDE DEF change
  <2> QED
    BY <1>2, <2>1, <2>2
<1> QED
  BY <1>4, <1>5, <1>6, <1>7, <1>8, <1>9 DEF Handler

PlansSpare == \A s \in Sessions : \A w \in DOMAIN session[s] : Spares(session[s][w])

\* The inductive invariant for gates.
GInv == SInv /\ PlansSpare

LEMMA SparesStep == EditsSpare /\ GInv /\ [SerialNext]_vars => GInv'
<1> SUFFICES ASSUME EditsSpare, GInv, [SerialNext]_vars
             PROVE  PlansSpare'
  BY SerialStep DEF GInv
<1>1. ASSUME NEW w \in WorkOrderIds, NEW r \in NewRows, Create(w, r)
      PROVE  PlansSpare'
  BY <1>1 DEF Create, GInv, PlansSpare, Spares
<1>2. ASSUME NEW s \in Sessions, Handler(s)
      PROVE  PlansSpare'
  <2>1. \A t \in Sessions \ {s} : session'[t] = session[t]
    BY <1>2, HandlerDecides, PlanStep DEF GInv, SInv
  <2>2. \A w \in DOMAIN session'[s] : Spares(session'[s][w])
    BY <1>2, HandlerSpares DEF GInv, SInv
  <2> QED
    BY <2>1, <2>2 DEF GInv, PlansSpare, Spares
<1>3. ASSUME NEW s \in Sessions, Commit(s) \/ Rollback(s)
      PROVE  PlansSpare'
  BY <1>3, CommitRows, RollbackStep DEF GInv, SInv, PlansSpare, Spares, NoPlan
<1>4. ASSUME (\E c \in ClientConfigs : SetConfig(c)) \/ UNCHANGED vars
      PROVE  PlansSpare'
  BY <1>4 DEF SetConfig, vars, GInv, PlansSpare, Spares
<1> QED
  BY <1>1, <1>2, <1>3, <1>4 DEF SerialNext, Next

\* Only a commit changes the status of an order.
LEMMA StatusCommitted ==
  ASSUME SInv, [SerialNext]_vars, NEW w \in Exists, wo'[w].status # wo[w].status
  PROVE  \E s \in Sessions : Commit(s)
<1>1. CASE \E x \in WorkOrderIds, r \in NewRows : Create(x, r)
  BY <1>1, CreateRow DEF SInv
<1>2. CASE \E t \in Sessions : Handler(t) \/ Rollback(t)
  BY <1>2, HandlerDecides, PlanStep, RollbackStep DEF SInv
<1>3. CASE (\E c \in ClientConfigs : SetConfig(c)) \/ UNCHANGED vars
  BY <1>3 DEF SetConfig, vars
<1> QED
  BY <1>1, <1>2, <1>3 DEF SerialNext, Next

\* An order that changes its status in a step has afterwards what the gate of
\* its new status asks for.
LEMMA ArrivesGated ==
  ASSUME GInv, [SerialNext]_vars, NEW w \in Exists, wo'[w].status # wo[w].status
  PROVE  /\ wo'[w].status = "COMPLETED" => wo'[w].qty
         /\ wo'[w].status = "SHIPPED" => wo'[w].qc
<1>1. PICK s \in Sessions : Commit(s)
  BY StatusCommitted DEF GInv
<1>2. w \in DOMAIN session[s]
  BY <1>1, CommitRows DEF GInv, SInv
<1>3. "status" \in session[s][w].cols
  BY <1>1, <1>2, CommitRows DEF GInv, SInv
<1>4. Spares(session[s][w])
  BY <1>2 DEF GInv, PlansSpare
<1>5. wo'[w] = Overlay(wo[w], session[s][w].val, session[s][w].cols)
  BY <1>1, <1>2 DEF Commit, Exists
<1>6. MayBecome(wo[w], wo'[w].status)
  BY StatusMoves DEF GInv
<1> QED
  BY <1>3, <1>4, <1>5, <1>6 DEF Spares, Overlay, MayBecome

\* The one way past a gate for requests that do not overlap on an order is a
\* PUT of the status together with a quantity of zero or an approval taken
\* back: without such a PUT, every order that enters COMPLETED has a quantity
\* and every order that enters SHIPPED has QC approval, when it gets there.
THEOREM AlwaysGatedOnArrival ==
  ASSUME EditsSpare
  PROVE  SerialSpec => GatedOnArrival
<1>1. Init => GInv
  BY SerialInit DEF Init, GInv, PlansSpare, NoPlan
<1>2. GInv /\ [SerialNext]_vars => GInv'
  BY SparesStep
<1>3. GInv /\ [SerialNext]_vars =>
        [\A w \in Exists : wo'[w].status # wo[w].status =>
           /\ wo'[w].status = "COMPLETED" => wo'[w].qty
           /\ wo'[w].status = "SHIPPED" => wo'[w].qc]_vars
  BY ArrivesGated
<1> QED
  BY <1>1, <1>2, <1>3, PTL DEF SerialSpec, GatedOnArrival

-----------------------------------------------------------------------------
(* HistoryChains under SerialSpec.                                         *)

Chain(h, status) ==
  /\ h # <<>> /\ h[1].from = NoStatus /\ h[Len(h)].to = status
  /\ \A i \in 2..Len(h) : h[i].from = h[i - 1].to

\* An entry that starts where a chain ends extends it to its own target.
LEMMA AppendChains ==
  ASSUME NEW h \in Seq(Entries), NEW entry \in Entries, NEW status,
         Chain(h, status), entry.from = status
  PROVE  Chain(Append(h, entry), entry.to)
<1> DEFINE g == Append(h, entry)
<1>1. /\ Len(h) \in Nat /\ Len(h) > 0 /\ Len(g) = Len(h) + 1 /\ g[Len(h) + 1] = entry
      /\ \A i \in 1..Len(h) : g[i] = h[i]
  BY DEF Chain
<1>2. \A i \in 2..Len(g) : g[i].from = g[i - 1].to
  BY <1>1 DEF Chain
<1>3. g # <<>> /\ g[1].from = NoStatus /\ g[Len(g)].to = entry.to
  BY <1>1 DEF Chain
<1> QED
  BY <1>2, <1>3 DEF Chain

Chained ==
  \A w \in Logged : IF w \in Exists THEN Chain(log[w], wo[w].status) ELSE log[w] = <<>>

\* The inductive invariant for histories.
CInv == SInv /\ PlansHonest /\ Chained

\* A commit of a current, honest plan extends the chain of each order it names.
LEMMA CommitChains ==
  ASSUME CInv, NEW s \in Sessions, Commit(s)
  PROVE  Chained'
<1> DEFINE plan == session[s]
<1>1. ASSUME NEW w \in Logged, w \notin DOMAIN plan
      PROVE  log'[w] = log[w] /\ (w \in Exists => wo'[w] = wo[w])
  BY <1>1, CommitRows DEF CInv, SInv, Logged
<1>2. ASSUME NEW w \in Logged, w \in DOMAIN plan
      PROVE  Chain(log'[w], wo'[w].status)
  <2>1. /\ w \in Exists /\ Honest(plan[w]) /\ Decided(w, plan[w])
        /\ Chain(log[w], wo[w].status) /\ log[w] \in Seq(Entries)
    BY <1>2 DEF CInv, SInv, TypeOK, PlansCurrent, PlansHonest, Chained
  <2>2. /\ wo'[w].status = IF "status" \in plan[w].cols THEN plan[w].val.status ELSE wo[w].status
        /\ log'[w] = IF plan[w].entry = NoEntry THEN log[w] ELSE Append(log[w], plan[w].entry)
        /\ plan[w].entry # NoEntry => plan[w].entry \in Entries
    BY <1>2, <2>1, CommitRows DEF CInv, SInv
  <2>3. CASE plan[w].entry = NoEntry
    BY <2>1, <2>2, <2>3 DEF Honest, IsNote, NoEntry
  <2>4. CASE plan[w].entry # NoEntry
    <3>1. wo'[w].status = plan[w].entry.to /\ plan[w].entry.from = wo[w].status
      BY <2>1, <2>2, <2>4 DEF Honest, IsNote, Decided
    <3> QED
      BY <2>1, <2>2, <2>4, <3>1, AppendChains
  <2> QED
    BY <2>3, <2>4
<1>3. Exists' = Exists /\ \A w \in DOMAIN plan : w \in Exists
  BY CommitRows DEF CInv, SInv, PlansHonest
<1> QED
  BY <1>1, <1>2, <1>3 DEF CInv, Chained

\* CInv holds throughout when requests do not overlap on an order.
LEMMA AlwaysChained == SerialSpec => []CInv
<1>1. Init => CInv
  BY SerialInit DEF Init, CInv, PlansHonest, Chained, Exists, NoPlan, Logged
<1>2. CInv /\ [SerialNext]_vars => CInv'
  <2> SUFFICES ASSUME CInv, [SerialNext]_vars
               PROVE  PlansHonest' /\ Chained'
    BY SerialStep DEF CInv
  <2>1. ASSUME NEW w \in WorkOrderIds, NEW r \in NewRows, Create(w, r)
        PROVE  PlansHonest' /\ Chained'
    <3>1. PlansHonest'
      BY <2>1, CreateRow DEF CInv, SInv, PlansHonest, Honest, IsNote
    <3>2. w \in Logged => log'[w] = <<Opening(r)>> /\ wo'[w].status = Opening(r).to /\ w \in Exists'
      BY <2>1, CreateRow DEF CInv, SInv, TypeOK, Chained, Opening
    <3>3. Chain(<<Opening(r)>>, Opening(r).to)
      BY DEF Chain, Opening
    <3>4. ASSUME NEW x \in WorkOrderIds \ {w}
          PROVE  /\ x \in Exists' <=> x \in Exists
                 /\ log'[x] = log[x] /\ (x \in Exists => wo'[x] = wo[x])
      BY <2>1, CreateRow DEF CInv, SInv
    <3> QED
      BY <3>1, <3>2, <3>3, <3>4 DEF CInv, Chained, Logged
  <2>2. ASSUME NEW s \in Sessions, Handler(s)
        PROVE  PlansHonest' /\ Chained'
    <3>1. PICK plan : /\ Plan(s, plan) /\ IsPlan(plan)
                      /\ \A w \in DOMAIN plan : Decided(w, plan[w]) /\ (w \in Logged => Honest(plan[w]))
      BY <2>2, HandlerDecides DEF CInv, SInv
    <3>2. /\ UNCHANGED <<wo, log, config>>
          /\ session' = [t \in Sessions |-> IF t = s THEN plan ELSE session[t]]
      BY <3>1, PlanStep DEF CInv, SInv
    <3> QED
      BY <3>1, <3>2 DEF CInv, PlansHonest, Chained, Exists, Decided, Honest, IsNote, Chain
  <2>3. ASSUME NEW s \in Sessions, Commit(s)
        PROVE  PlansHonest' /\ Chained'
    BY <2>3, CommitRows, CommitChains DEF CInv, SInv, PlansHonest, NoPlan, Honest, IsNote
  <2>4. ASSUME NEW s \in Sessions, Rollback(s)
        PROVE  PlansHonest' /\ Chained'
    BY <2>4, RollbackStep
       DEF CInv, SInv, PlansHonest, Chained, Chain, Exists, NoPlan, Honest, IsNote
  <2>5. ASSUME (\E c \in ClientConfigs : SetConfig(c)) \/ UNCHANGED vars
        PROVE  PlansHonest' /\ Chained'
    BY <2>5 DEF SetConfig, vars, CInv, PlansHonest, Chained, Chain, Exists, Honest, IsNote
  <2> QED
    BY <2>1, <2>2, <2>3, <2>4, <2>5 DEF SerialNext, Next
<1> QED
  BY <1>1, <1>2, PTL DEF SerialSpec

\* When requests do not overlap on an order, every history that loses no row
\* to a failed SELECT is one chain from creation to the present status.
THEOREM HistoryAlwaysChains == SerialSpec => []HistoryChains
<1>1. CInv => HistoryChains
  BY DEF CInv, SInv, TypeOK, Chained, Chain, HistoryChains, Logged
<1> QED
  BY <1>1, AlwaysChained, PTL

-----------------------------------------------------------------------------
(* Refinement: the serialized program implements Lifecycle.                *)

\* What a step does to one order, in the terms of Lifecycle.
Follows(w) ==
  \/ StatusOf(w)' = StatusOf(w) /\ log'[w] = log[w]
  \/ /\ StatusOf(w) # NoStatus /\ StatusOf(w)' = StatusOf(w)
     /\ log'[w] = Append(log[w], [from |-> StatusOf(w), to |-> StatusOf(w)])
  \/ /\ StatusOf(w)' \in Statuses /\ StatusOf(w)' # StatusOf(w)
     /\ StatusOf(w) \in (Statuses \cup {NoStatus}) \ Terminal
     /\ log'[w] = Append(log[w], [from |-> StatusOf(w), to |-> StatusOf(w)'])

\* A commit of current, honest plans follows the life cycle.
LEMMA CommitFollows ==
  ASSUME CInv, NEW s \in Sessions, Commit(s), NEW w \in Logged
  PROVE  Follows(w)
<1> DEFINE plan == session[s]
<1>1. /\ Exists' = Exists /\ (w \in Exists => wo[w] \in Rows)
  BY CommitRows DEF CInv, SInv, TypeOK
<1>2. CASE w \notin DOMAIN plan
  BY <1>1, <1>2, CommitRows DEF CInv, SInv, Follows, StatusOf, Logged
<1>3. CASE w \in DOMAIN plan
  <2>1. w \in Exists /\ Honest(plan[w]) /\ Decided(w, plan[w])
    BY <1>3 DEF CInv, SInv, PlansCurrent, PlansHonest, Decided
  <2>2. /\ wo'[w].status = IF "status" \in plan[w].cols THEN plan[w].val.status ELSE wo[w].status
        /\ log'[w] = IF plan[w].entry = NoEntry THEN log[w] ELSE Append(log[w], plan[w].entry)
        /\ plan[w].entry # NoEntry => plan[w].entry \in Entries
    BY <1>3, <2>1, CommitRows DEF CInv, SInv
  <2>3. StatusOf(w) = wo[w].status /\ StatusOf(w)' = wo'[w].status /\ wo[w].status \in Statuses
    BY <1>1, <2>1 DEF StatusOf, Rows
  <2>4. CASE plan[w].entry = NoEntry
    BY <2>1, <2>2, <2>3, <2>4 DEF Honest, IsNote, NoEntry, Follows
  <2>5. CASE plan[w].entry # NoEntry
    <3>1. wo'[w].status = plan[w].entry.to /\ plan[w].entry.from = wo[w].status
      BY <2>1, <2>2, <2>5 DEF Honest, IsNote, Decided
    <3>2. plan[w].entry = [from |-> StatusOf(w), to |-> StatusOf(w)'] /\ wo'[w].status \in Statuses
      BY <2>2, <2>3, <2>5, <3>1 DEF Entries
    <3>3. wo'[w].status # wo[w].status => wo[w].status \notin Terminal
      BY <2>1, <2>2 DEF Decided, MayBecome
    <3> QED
      BY <2>2, <2>3, <2>5, <3>2, <3>3 DEF Follows, Statuses, NoStatus
  <2> QED
    BY <2>4, <2>5
<1> QED
  BY <1>2, <1>3

LEMMA StepFollows ==
  ASSUME CInv, [SerialNext]_vars, NEW w \in Logged
  PROVE  Follows(w)
<1>1. ASSUME NEW x \in WorkOrderIds, NEW r \in NewRows, Create(x, r)
      PROVE  Follows(w)
  <2>1. CASE w = x
    <3>1. StatusOf(w) = NoStatus /\ StatusOf(w)' = r.status /\ r.status \in Statuses
      BY <1>1, <2>1, CreateRow DEF CInv, SInv, StatusOf, Rows
    <3>2. log'[w] = Append(log[w], [from |-> StatusOf(w), to |-> StatusOf(w)'])
      BY <1>1, <2>1, <3>1, CreateRow DEF CInv, SInv, Opening
    <3> QED
      BY <3>1, <3>2 DEF Follows, Statuses, Terminal, NoStatus
  <2>2. CASE w # x
    BY <1>1, <2>2, CreateRow DEF CInv, SInv, Follows, StatusOf, Logged
  <2> QED
    BY <2>1, <2>2
<1>2. ASSUME NEW s \in Sessions, Handler(s)
      PROVE  Follows(w)
  <2>1. PICK plan : Plan(s, plan)
    BY <1>2, HandlerDecides DEF CInv, SInv
  <2> QED
    BY <2>1 DEF Plan, Follows, StatusOf, Exists
<1>3. ASSUME NEW s \in Sessions, Commit(s)
      PROVE  Follows(w)
  BY <1>3, CommitFollows
<1>4. ASSUME NEW s \in Sessions, Rollback(s)
      PROVE  Follows(w)
  BY <1>4 DEF Rollback, Follows, StatusOf, Exists
<1>5. ASSUME (\E c \in ClientConfigs : SetConfig(c)) \/ UNCHANGED vars
      PROVE  Follows(w)
  BY <1>5 DEF SetConfig, vars, Follows, StatusOf, Exists
<1> QED
  BY <1>1, <1>2, <1>3, <1>4, <1>5 DEF SerialNext, Next

\* When requests do not overlap on an order, the program implements Lifecycle
\* for the orders that lose no history row: every step moves each of them
\* along an arrow with its entry, adds a remark, or leaves it alone.
THEOREM AlwaysFollowsLifecycle == SerialSpec => FollowsLifecycle
<1>1. Init => Life!Init
  BY DEF Init, Life!Init, Logged
<1>2. CInv /\ [SerialNext]_vars => Life!Next
  <2> SUFFICES ASSUME CInv, [SerialNext]_vars, NEW w \in Logged
               PROVE  Life!Rests(w) \/ Life!Remarks(w) \/ Life!Moves(w)
    BY DEF Life!Next
  <2>1. Follows(w)
    BY StepFollows
  <2> QED
    BY <2>1 DEF Follows, Life!Rests, Life!Remarks, Life!Moves, Life!Entry
<1> QED
  BY <1>1, <1>2, AlwaysChained, PTL DEF SerialSpec, FollowsLifecycle, Life!Spec

-----------------------------------------------------------------------------
(* HoldRemembers under SerialSpec, when no edit names previous_status.     *)

\* previous_status after a change to row r.
PrevAfter(r, change) == IF "prev" \in change.cols THEN change.val.prev ELSE r.prev

\* A change that enters ON_HOLD writes the status it leaves; any other change
\* that is not a move leaves previous_status alone, unless it names no status
\* an order can have been held from.
Keeps(r, change) ==
  IF IsNote(change.entry)
  THEN PrevAfter(r, change) = r.prev \/ r.prev \in {NoStatus, "ON_HOLD"}
  ELSE change.entry.to = "ON_HOLD" => PrevAfter(r, change) = change.entry.from

LEMMA TransitionKeeps ==
  ASSUME NEW r \in Rows, NEW to \in Statuses, ValidateTransition(config, r, to)
  PROVE  Keeps(r, TransitionChange(r, to))
<1> DEFINE prev == IF to = "ON_HOLD" THEN r.status ELSE r.prev
<1>1. Transitioned(config, r, to).prev = prev
  BY DEF Transitioned, Rows
<1>2. "prev" \in TransitionColumns(config, r, to) <=> prev # r.prev
  BY <1>1 DEF TransitionColumns, Stamped
<1>3. PrevAfter(r, TransitionChange(r, to)) = prev
  BY <1>1, <1>2 DEF PrevAfter, TransitionChange
<1>4. TransitionChange(r, to).entry = [from |-> r.status, to |-> to]
  BY DEF TransitionChange
<1>5. ASSUME r.status = to, to = "ON_HOLD"
      PROVE  r.prev \in {NoStatus, "ON_HOLD"}
  BY <1>5 DEF ValidateTransition
<1>. QED  BY <1>3, <1>4, <1>5 DEF Keeps, IsNote

\* What a handler plans keeps previous_status.
LEMMA HandlerKeeps ==
  ASSUME TypeOK, \A e \in Edits : "prev" \notin e.cols, NEW s \in Sessions, Handler(s)
  PROVE  \A w \in DOMAIN session'[s] : Keeps(wo[w], session'[s][w])
<1>. DEFINE Goal == \A w \in DOMAIN session'[s] : Keeps(wo[w], session'[s][w])
<1>. USE EditsAssumption
<1>0. \A w \in Exists : wo[w] \in Rows
  BY DEF TypeOK, Exists
<1>1. ASSUME NEW plan, Plan(s, plan)
      PROVE  session'[s] = plan
  BY <1>1 DEF Plan, TypeOK
<1>2. ASSUME NEW w, NEW change, Plan(s, Only(w, change)), Keeps(wo[w], change)
      PROVE  Goal
  BY <1>1, <1>2 DEF Only
<1>3. ASSUME NEW w, NEW change, Plan(s, Only(w, change)), change.entry = NoEntry,
             "prev" \notin change.cols
      PROVE  Goal
  BY <1>2, <1>3 DEF Keeps, IsNote, NoEntry, PrevAfter
<1>4. ASSUME NEW w \in WorkOrderIds, NEW to \in Statuses, Transition(s, w, to)
      PROVE  Goal
  BY <1>0, <1>2, <1>4, TransitionKeeps DEF Transition
<1>5. ASSUME NEW ids \in SUBSET WorkOrderIds, NEW to \in Statuses, BulkTransition(s, ids, to)
      PROVE  Goal
  <2>. DEFINE valid == {w \in ids \cap Exists : ValidateTransition(config, wo[w], to)}
              plan == [w \in valid |-> TransitionChange(wo[w], to)]
  <2>1. session'[s] = plan
    BY <1>1, <1>5 DEF BulkTransition
  <2>2. \A w \in valid : Keeps(wo[w], TransitionChange(wo[w], to))
    BY <1>0, TransitionKeeps
  <2>. QED  BY <2>1, <2>2
<1>6. ASSUME NEW w \in WorkOrderIds, NEW e \in Edits, UpdateFields(s, w, e)
      PROVE  Goal
  <2>. DEFINE after == Overlay(wo[w], e.val, e.cols)
              change == [cols |-> {c \in e.cols : after[c] # wo[w][c]}, val |-> after,
                         entry |-> NoEntry]
  <2>1. Plan(s, Only(w, change))
    BY <1>6 DEF UpdateFields
  <2>2. change.entry = NoEntry /\ "prev" \notin change.cols
    OBVIOUS
  <2>. HIDE DEF change
  <2>. QED  BY <1>3, <2>1, <2>2
<1>7. ASSUME NEW w \in WorkOrderIds, NEW e \in Edits, UpdateStatusUnlogged(s, w, e)
      PROVE  Goal
  <2>. DEFINE change == [cols |-> {c \in e.cols : e.val[c] # wo[w][c]},
                         val |-> Overlay(wo[w], e.val, e.cols), entry |-> NoEntry]
  <2>1. Plan(s, Only(w, change))
    BY <1>7 DEF UpdateStatusUnlogged
  <2>2. change.entry = NoEntry /\ "prev" \notin change.cols
    OBVIOUS
  <2>. HIDE DEF change
  <2>. QED  BY <1>3, <2>1, <2>2
<1>8. ASSUME NEW w \in WorkOrderIds, NEW e \in Edits, UpdateStatus(s, w, e)
      PROVE  Goal
  <2>. DEFINE t == TransitionChange(wo[w], e.val.status)
              rest == e.cols \ {"status"}
              change == [t EXCEPT !.cols = @ \cup rest, !.val = Overlay(@, e.val, rest)]
  <2>1. /\ wo[w] \in Rows /\ e.val.status \in Statuses
        /\ Plan(s, Only(w, change)) /\ ValidateTransition(config, wo[w], e.val.status)
    BY <1>0, <1>8 DEF UpdateStatus, Rows
  <2>2. Keeps(wo[w], t) /\ t \in Changes
    BY <2>1, TransitionKeeps, TransitionChangeHonest
  <2>3. /\ Overlay(t.val, e.val, rest).prev = t.val.prev
        /\ "prev" \notin rest
    BY DEF Overlay
  <2>. HIDE DEF t, rest
  <2>4. change.entry = t.entry /\ PrevAfter(wo[w], change) = PrevAfter(wo[w], t)
    BY <2>2, <2>3 DEF PrevAfter, Changes
  <2>5. Keeps(wo[w], change)
    BY <2>2, <2>4 DEF Keeps
  <2>. HIDE DEF change
  <2>. QED  BY <1>2, <2>1, <2>5
<1>9. ASSUME NEW w \in WorkOrderIds, ApproveQC(s, w)
      PROVE  Goal
  <2>. DEFINE change == [cols |-> {"qc"}, val |-> [wo[w] EXCEPT !.qc = TRUE],
                         entry |-> [from |-> wo[w].status, to |-> wo[w].status]]
  <2>1. Plan(s, Only(w, change))
    BY <1>9 DEF ApproveQC
  <2>2. Keeps(wo[w], change)
    BY DEF Keeps, IsNote, PrevAfter
  <2>. HIDE DEF change
  <2>. QED  BY <1>2, <2>1, <2>2
<1>. QED  BY <1>4, <1>5, <1>6, <1>7, <1>8, <1>9 DEF Handler

\* A history whose last move is to ON_HOLD tells where the order came from.
Remembered(h, prev) ==
  \A i \in 2..Len(h) :
    /\ h[i].from \in Statuses
    /\ (h[i].to = "ON_HOLD" /\ ~IsNote(h[i]) /\ \A j \in (i + 1)..Len(h) : IsNote(h[j]))
         => prev = h[i].from

LEMMA AppendRemembers ==
  ASSUME NEW h \in Seq(Entries), NEW entry \in Entries, NEW old, NEW new,
         Remembered(h, old), entry.from \in Statuses,
         IF IsNote(entry) THEN new = old \/ old \in {NoStatus, "ON_HOLD"}
         ELSE entry.to = "ON_HOLD" => new = entry.from
  PROVE  Remembered(Append(h, entry), new)
<1>. DEFINE g == Append(h, entry)
<1>1. /\ Len(h) \in Nat /\ Len(g) = Len(h) + 1 /\ g[Len(h) + 1] = entry
      /\ \A i \in 1..Len(h) : g[i] = h[i]
  OBVIOUS
<1>. SUFFICES ASSUME NEW i \in 2..Len(g)
              PROVE  /\ g[i].from \in Statuses
                     /\ (g[i].to = "ON_HOLD" /\ ~IsNote(g[i]) /\ \A j \in (i + 1)..Len(g) : IsNote(g[j]))
                          => new = g[i].from
  BY DEF Remembered
<1>2. CASE i = Len(h) + 1
  BY <1>1, <1>2
<1>3. CASE i # Len(h) + 1
  <2>1. i \in 2..Len(h) /\ g[i] = h[i] /\ h[i].from \in Statuses
    BY <1>1, <1>3 DEF Remembered
  <2>2. ASSUME g[i].to = "ON_HOLD", ~IsNote(g[i]), \A j \in (i + 1)..Len(g) : IsNote(g[j])
        PROVE  new = g[i].from
    <3>1. IsNote(entry) /\ \A j \in (i + 1)..Len(h) : IsNote(h[j])
      <4>1. Len(h) + 1 \in (i + 1)..Len(g) /\ \A j \in (i + 1)..Len(h) : j \in (i + 1)..Len(g) /\ g[j] = h[j]
        BY <1>1, <2>1
      <4>. QED  BY <1>1, <2>2, <4>1
    <3>2. old = h[i].from
      BY <2>1, <2>2, <3>1 DEF Remembered
    <3>3. old \notin {NoStatus, "ON_HOLD"}
      BY <2>1, <2>2, <3>2 DEF IsNote, Statuses, NoStatus
    <3>. QED  BY <2>1, <3>1, <3>2, <3>3
  <2>. QED  BY <2>1, <2>2
<1>. QED  BY <1>2, <1>3

\* The inductive invariant for holds.
HInv ==
  /\ SInv
  /\ \A s \in Sessions : \A w \in DOMAIN session[s] : Keeps(wo[w], session[s][w])
  /\ \A w \in WorkOrderIds : IF w \in Exists THEN Remembered(log[w], wo[w].prev) ELSE log[w] = <<>>

LEMMA CommitPrev ==
  ASSUME TypeOK, NEW s \in Sessions, Commit(s), NEW w \in Exists \cap DOMAIN session[s]
  PROVE  wo'[w].prev = PrevAfter(wo[w], session[s][w])
BY DEF Commit, Exists, Overlay, PrevAfter

LEMMA RemembersStep ==
  ASSUME \A e \in Edits : "prev" \notin e.cols, HInv, [SerialNext]_vars
  PROVE  HInv'
<1>. DEFINE Plans == \A s \in Sessions : \A w \in DOMAIN session[s] : Keeps(wo[w], session[s][w])
            Holds(w) == IF w \in Exists THEN Remembered(log[w], wo[w].prev) ELSE log[w] = <<>>
<1>0. SInv'
  BY SerialStep DEF HInv
<1>. SUFFICES ASSUME TRUE PROVE Plans' /\ (\A w \in WorkOrderIds : Holds(w))'
  BY <1>0 DEF HInv
<1>1. ASSUME NEW w \in WorkOrderIds, NEW r \in NewRows, Create(w, r)
      PROVE  Plans' /\ (\A x \in WorkOrderIds : Holds(x))'
  <2>1. Plans'
    BY <1>1, CreateRow DEF HInv, SInv, PlansCurrent, Decided
  <2>2. Len(log'[w]) = 1
    <3>1. log[w] = <<>> /\ log[w] \in Seq(Entries)
      BY <1>1, CreateRow DEF HInv, SInv, TypeOK
    <3>2. log'[w] = Append(log[w], Opening(r)) /\ Opening(r) \in Entries
      BY <1>1, CreateRow DEF HInv, SInv
    <3>3. Len(log'[w]) = Len(log[w]) + 1
      BY <3>1, <3>2
    <3>. QED  BY <3>1, <3>3
  <2>3. \A x \in WorkOrderIds \ {w} : /\ log'[x] = log[x] /\ (x \in Exists' <=> x \in Exists)
                                      /\ x \in Exists => wo'[x] = wo[x]
    BY <1>1, CreateRow DEF HInv, SInv
  <2>4. Remembered(log'[w], wo'[w].prev) /\ w \in Exists'
    BY <1>1, <2>2, CreateRow DEF HInv, SInv, Remembered
  <2>. QED  BY <2>1, <2>3, <2>4 DEF HInv
<1>2. ASSUME NEW s \in Sessions, Handler(s)
      PROVE  Plans' /\ (\A w \in WorkOrderIds : Holds(w))'
  <2>1. UNCHANGED <<wo, log>> /\ \A t \in Sessions \ {s} : session'[t] = session[t]
    BY <1>2, HandlerDecides, PlanStep DEF HInv, SInv
  <2>2. \A w \in DOMAIN session'[s] : Keeps(wo[w], session'[s][w])
    BY <1>2, HandlerKeeps DEF HInv, SInv
  <2>. QED  BY <2>1, <2>2 DEF HInv, Exists
<1>3. ASSUME NEW s \in Sessions, Commit(s)
      PROVE  Plans' /\ (\A w \in WorkOrderIds : Holds(w))'
  <2>1. Plans'
    <3>. SUFFICES ASSUME NEW t \in Sessions, NEW w \in DOMAIN session'[t]
                  PROVE  Keeps(wo'[w], session'[t][w])
      OBVIOUS
    <3>1. t # s /\ session'[t] = session[t]
      BY <1>3, CommitRows DEF HInv, SInv, NoPlan
    <3>2. w \in Exists /\ w \notin DOMAIN session[s]
      BY <3>1 DEF HInv, SInv, OneAtATime, PlansCurrent, Decided
    <3>. QED  BY <1>3, <3>1, <3>2, CommitRows DEF HInv, SInv
  <2>2. ASSUME NEW w \in WorkOrderIds, w \in DOMAIN session[s]
        PROVE  w \in Exists' /\ Remembered(log'[w], wo'[w].prev)
    <3>. DEFINE change == session[s][w]
    <3>1. /\ w \in Exists /\ w \in Exists' /\ Remembered(log[w], wo[w].prev)
          /\ log[w] \in Seq(Entries) /\ wo[w].status \in Statuses
          /\ change.entry # NoEntry => change.entry.from = wo[w].status
      BY <1>3, <2>2, CommitRows DEF HInv, SInv, PlansCurrent, Decided, TypeOK, Rows
    <3>2. /\ log'[w] = IF change.entry = NoEntry THEN log[w] ELSE Append(log[w], change.entry)
          /\ change.entry # NoEntry => change.entry \in Entries
      BY <1>3, <2>2, <3>1, CommitRows DEF HInv, SInv
    <3>3. wo'[w].prev = PrevAfter(wo[w], change) /\ Keeps(wo[w], change)
      BY <1>3, <2>2, <3>1, CommitPrev DEF HInv, SInv
    <3>. HIDE DEF change
    <3>4. CASE change.entry = NoEntry
      <4>1. wo'[w].prev = wo[w].prev \/ wo[w].prev \in {NoStatus, "ON_HOLD"}
        BY <3>3, <3>4 DEF Keeps, IsNote, NoEntry
      <4>2. \A i \in 2..Len(log[w]) : ~IsNote(log[w][i]) /\ log[w][i].to = "ON_HOLD"
              => log[w][i].from \notin {NoStatus, "ON_HOLD"}
        BY <3>1 DEF Remembered, IsNote, Statuses, NoStatus
      <4>. QED  BY <3>1, <3>2, <3>4, <4>1, <4>2 DEF Remembered
    <3>5. CASE change.entry # NoEntry
      <4>1. IF IsNote(change.entry) THEN wo'[w].prev = wo[w].prev \/ wo[w].prev \in {NoStatus, "ON_HOLD"}
            ELSE change.entry.to = "ON_HOLD" => wo'[w].prev = change.entry.from
        BY <3>3 DEF Keeps
      <4>. QED  BY <3>1, <3>2, <3>5, <4>1, AppendRemembers
    <3>. QED  BY <3>1, <3>4, <3>5
  <2>3. \A w \in WorkOrderIds \ DOMAIN session[s] :
           log'[w] = log[w] /\ (w \in Exists => wo'[w] = wo[w])
    BY <1>3, CommitRows DEF HInv, SInv
  <2>4. Exists' = Exists
    BY <1>3, CommitRows DEF HInv, SInv
  <2>. QED  BY <2>1, <2>2, <2>3, <2>4 DEF HInv
<1>4. ASSUME NEW s \in Sessions, Rollback(s)
      PROVE  Plans' /\ (\A w \in WorkOrderIds : Holds(w))'
  BY <1>4, RollbackStep DEF HInv, SInv, Exists, NoPlan
<1>5. ASSUME (\E c \in ClientConfigs : SetConfig(c)) \/ UNCHANGED vars
      PROVE  Plans' /\ (\A w \in WorkOrderIds : Holds(w))'
  BY <1>5 DEF SetConfig, vars, HInv, Exists
<1>. QED  BY <1>1, <1>2, <1>3, <1>4, <1>5 DEF SerialNext, Next

\* When requests do not overlap on an order and no PUT names previous_status,
\* every order that loses no history row remembers, as long as it is on hold,
\* the status it was held from, whatever workflow it follows.
THEOREM AlwaysHoldRemembers ==
  ASSUME \A e \in Edits : "prev" \notin e.cols
  PROVE  SerialSpec => []HoldRemembers
<1>1. Init => HInv
  BY SerialInit DEF Init, HInv, Exists, NoPlan
<1>2. HInv /\ [SerialNext]_vars => HInv'
  BY RemembersStep
<1>3. SerialSpec => []StatusExplained
  <2>1. [SerialNext]_vars => [Next]_vars
    BY DEF SerialNext
  <2>. QED  BY <2>1, StatusAlwaysExplained, PTL DEF SerialSpec, Spec
<1>4. HInv /\ StatusExplained => HoldRemembers
  <2>. SUFFICES ASSUME HInv, StatusExplained, NEW w \in Exists \cap Logged, wo[w].status = "ON_HOLD"
                PROVE  \E i \in 1..Len(log[w]) :
                         /\ log[w][i].to = "ON_HOLD" /\ ~IsNote(log[w][i])
                         /\ \A j \in (i + 1)..Len(log[w]) : IsNote(log[w][j])
                         /\ i > 1 => wo[w].prev = log[w][i].from
    BY DEF HoldRemembers
  <2>1. PICK i \in 1..Len(log[w]) : /\ ~IsNote(log[w][i]) /\ log[w][i].to = "ON_HOLD"
                                    /\ \A j \in (i + 1)..Len(log[w]) : IsNote(log[w][j])
    BY DEF StatusExplained
  <2>2. Remembered(log[w], wo[w].prev)
    BY DEF HInv, Logged
  <2>3. i > 1 => i \in 2..Len(log[w])
    OBVIOUS
  <2>. QED  BY <2>1, <2>2, <2>3 DEF Remembered
<1>. QED  BY <1>1, <1>2, <1>3, <1>4, PTL DEF SerialSpec

\* When requests do not overlap on an order, an order put on hold saves the
\* status it leaves, if no SELECT of execute_transition fails and no PUT names
\* previous_status: the error that update_work_order swallows is the only way a
\* hold forgets.
THEOREM AlwaysHoldSaves ==
  ASSUME \A e \in Edits : "prev" \notin e.cols, StatementFaults = {}
  PROVE  SerialSpec => HoldSavesStatus
<1>1. Init => HInv
  BY SerialInit DEF Init, HInv, Exists, NoPlan
<1>2. HInv /\ [SerialNext]_vars => HInv'
  BY RemembersStep
<1>3. ASSUME CInv, HInv, [SerialNext]_vars, NEW w \in Exists,
             wo'[w].status = "ON_HOLD", wo[w].status # "ON_HOLD"
      PROVE  wo'[w].prev = wo[w].status
  <2>1. PICK s \in Sessions : Commit(s)
    BY <1>3, StatusCommitted DEF CInv
  <2>2. w \in DOMAIN session[s] /\ "status" \in session[s][w].cols
        /\ session[s][w].val.status = "ON_HOLD"
    BY <1>3, <2>1, CommitRows DEF CInv, SInv
  <2>3. Honest(session[s][w]) /\ Decided(w, session[s][w]) /\ Keeps(wo[w], session[s][w])
    BY <1>3, <2>2 DEF CInv, SInv, TypeOK, PlansHonest, PlansCurrent, HInv, Logged
  <2>4. /\ session[s][w].entry.to = "ON_HOLD" /\ ~IsNote(session[s][w].entry)
        /\ session[s][w].entry.from = wo[w].status
    BY <2>2, <2>3 DEF Honest, Decided, IsNote, NoEntry
  <2>5. wo'[w].prev = PrevAfter(wo[w], session[s][w])
    BY <1>3, <2>1, <2>2, CommitPrev DEF CInv, SInv
  <2>. QED  BY <2>3, <2>4, <2>5 DEF Keeps
<1>4. CInv /\ HInv /\ [SerialNext]_vars =>
        [\A w \in Exists : wo'[w].status = "ON_HOLD" /\ wo[w].status # "ON_HOLD"
           => wo'[w].prev = wo[w].status]_vars
  BY <1>3
<1>. QED  BY <1>1, <1>2, <1>4, AlwaysChained, PTL DEF SerialSpec, HoldSavesStatus

=============================================================================
