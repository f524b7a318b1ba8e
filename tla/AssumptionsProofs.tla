-------------------------- MODULE AssumptionsProofs --------------------------
(***************************************************************************)
(* Theorems about Assumptions for every set of records, names, values,     *)
(* users and sessions and every number of dates.                           *)
(***************************************************************************)
EXTENDS Assumptions, TLAPS

-----------------------------------------------------------------------------
(* Steps.                                                                  *)

\* The shape of a plan that a session may hold.
IsPlan(plan) == DOMAIN plan \subseteq Exists /\ plan \in [DOMAIN plan -> Changes]

\* A change whose entry records exactly what it does to the status.
Honest(change) ==
  /\ "status" \in change.cols <=> change.entry.from # change.entry.to
  /\ "status" \in change.cols => change.val.status = change.entry.to

LEMMA StatusChangeIsHonest ==
  ASSUME TypeOK, NEW i \in Exists, NEW to \in AssumptionStatus, row[i].status # to
  PROVE  StatusChange(i, to) \in Changes /\ Honest(StatusChange(i, to))
BY DEF TypeOK, StatusChange, Changes, Rows, Entries, Columns, Honest

LEMMA EditChangeIsHonest ==
  ASSUME TypeOK, NEW i \in Exists, NEW v \in Values, NEW f \in Bounds, NEW n \in Bounds
  PROVE  /\ EditChange(i, v, f, n) \in Changes /\ Honest(EditChange(i, v, f, n))
         /\ "status" \notin EditChange(i, v, f, n).cols
<1>1. row[i] \in Rows
  BY DEF TypeOK
<1>2. Edited(row[i], v, f, n) \in Rows /\ Edited(row[i], v, f, n).status = row[i].status
  BY <1>1 DEF Edited, Rows
<1> QED
  BY <1>1, <1>2 DEF EditChange, Changes, Entries, AssumptionStatus, Honest

\* What every handler does: it plans honest changes of rows that exist.
LEMMA PlanStep ==
  ASSUME TypeOK, NEW s \in Sessions, NEW plan, Plan(s, plan)
  PROVE  /\ UNCHANGED <<row, log>> /\ session[s] = NoPlan
         /\ session' = [t \in Sessions |-> IF t = s THEN plan ELSE session[t]]
BY DEF Plan, TypeOK, Idle

Handler(s) ==
  \E u \in Users, i \in Ids :
    \/ \E v \in Values, f \in Bounds, n \in Bounds : UpdateProposal(s, u, i, v, f, n)
    \/ Approve(s, u, i)
    \/ Retire(s, u, i)

LEMMA HandlerPlans ==
  ASSUME TypeOK, NEW s \in Sessions, Handler(s)
  PROVE  \E plan : Plan(s, plan) /\ IsPlan(plan) /\ \A i \in DOMAIN plan : Honest(plan[i])
<1>1. ASSUME NEW u \in Users, NEW i \in Ids, NEW v \in Values, NEW f \in Bounds, NEW n \in Bounds,
             UpdateProposal(s, u, i, v, f, n)
      PROVE  \E plan : Plan(s, plan) /\ IsPlan(plan) /\ \A x \in DOMAIN plan : Honest(plan[x])
  <2> DEFINE plan == [x \in {i} |-> EditChange(i, v, f, n)]
  <2>1. Plan(s, plan) /\ i \in Exists
    BY <1>1 DEF UpdateProposal
  <2>2. IsPlan(plan) /\ \A x \in DOMAIN plan : Honest(plan[x])
    BY <2>1, EditChangeIsHonest DEF IsPlan
  <2> QED
    BY <2>1, <2>2
<1>2. ASSUME NEW u \in Users, NEW i \in Ids, Approve(s, u, i)
      PROVE  \E plan : Plan(s, plan) /\ IsPlan(plan) /\ \A x \in DOMAIN plan : Honest(plan[x])
  <2> DEFINE D == Overlapping(i) \cup {i}
             To(x) == IF x = i THEN "active" ELSE "retired"
             plan == [x \in D |-> StatusChange(x, To(x))]
  <2>1. Plan(s, plan) /\ i \in Exists /\ row[i].status = "proposed"
    BY <1>2 DEF Approve
  <2>2. \A x \in D : x \in Exists /\ To(x) \in AssumptionStatus /\ row[x].status # To(x)
    BY <2>1 DEF Overlapping, AssumptionStatus
  <2>3. \A x \in D : StatusChange(x, To(x)) \in Changes /\ Honest(StatusChange(x, To(x)))
    BY <2>2, StatusChangeIsHonest
  <2>4. DOMAIN plan = D /\ D \subseteq Exists /\ \A x \in D : plan[x] = StatusChange(x, To(x))
    BY <2>2
  <2>5. IsPlan(plan) /\ \A x \in DOMAIN plan : Honest(plan[x])
    BY <2>3, <2>4 DEF IsPlan
  <2> QED
    BY <2>1, <2>5
<1>3. ASSUME NEW u \in Users, NEW i \in Ids, Retire(s, u, i)
      PROVE  \E plan : Plan(s, plan) /\ IsPlan(plan) /\ \A x \in DOMAIN plan : Honest(plan[x])
  <2> DEFINE plan == [x \in {i} |-> StatusChange(i, "retired")]
  <2>1. Plan(s, plan) /\ i \in Exists /\ row[i].status = "active"
    BY <1>3 DEF Retire
  <2>2. IsPlan(plan) /\ \A x \in DOMAIN plan : Honest(plan[x])
    BY <2>1, StatusChangeIsHonest DEF IsPlan, AssumptionStatus
  <2> QED
    BY <2>1, <2>2
<1> QED
  BY <1>1, <1>2, <1>3 DEF Handler

LEMMA ProposeRow ==
  ASSUME TypeOK, NEW i \in Ids, NEW r \in Rows, Propose(i, r)
  PROVE  /\ TypeOK' /\ UNCHANGED session
         /\ i \notin Exists /\ Exists' = Exists \cup {i} /\ r.status = "proposed"
         /\ row'[i] = r /\ \A x \in Exists : x # i /\ row'[x] = row[x]
         /\ log'[i] = Append(log[i], [from |-> NoStatus, to |-> r.status, value |-> r.value])
         /\ \A x \in Exists : log'[x] = log[x]
<1>1. [from |-> NoStatus, to |-> r.status, value |-> r.value] \in Entries
  BY DEF Entries, Rows
<1>2. row' = [x \in Exists \cup {i} |-> IF x = i THEN r ELSE row[x]] /\ i \notin Exists
  BY DEF Propose
<1>3. Exists' = Exists \cup {i}
  BY <1>2 DEF Exists
<1>4. log' = [log EXCEPT ![i] = Append(@, [from |-> NoStatus, to |-> r.status, value |-> r.value])]
  BY DEF Propose
<1>5. log' \in [Ids -> Seq(Entries)] /\ row' \in [Exists' -> Rows] /\ Exists' \subseteq Ids
  BY <1>1, <1>2, <1>3, <1>4 DEF TypeOK
<1>6. session' = session
  BY DEF Propose
<1>7. TypeOK'
  BY <1>3, <1>5, <1>6 DEF TypeOK
<1> QED
  BY <1>2, <1>3, <1>4, <1>6, <1>7 DEF TypeOK, Propose

LEMMA CommitRows ==
  ASSUME TypeOK, NEW s \in Sessions, Commit(s)
  PROVE  /\ TypeOK' /\ Exists' = Exists /\ IsPlan(session[s])
         /\ \A i \in Exists :
              /\ row'[i] = IF i \in DOMAIN session[s]
                           THEN Overlay(row[i], session[s][i].val, session[s][i].cols)
                           ELSE row[i]
              /\ log'[i] = IF i \in DOMAIN session[s]
                           THEN Append(log[i], session[s][i].entry) ELSE log[i]
         /\ session' = [t \in Sessions |-> IF t = s THEN NoPlan ELSE session[t]]
<1> DEFINE plan == session[s]
<1>1. IsPlan(plan)
  BY DEF TypeOK, IsPlan
<1>2. row' = [i \in Exists |-> IF i \in DOMAIN plan
                               THEN Overlay(row[i], plan[i].val, plan[i].cols) ELSE row[i]]
  BY DEF Commit
<1>3. log' = [i \in Ids |-> IF i \in DOMAIN plan THEN Append(log[i], plan[i].entry) ELSE log[i]]
  BY DEF Commit
<1>4. session' = [t \in Sessions |-> IF t = s THEN NoPlan ELSE session[t]]
  BY DEF Commit, TypeOK
<1>5. Exists' = Exists
  BY <1>2 DEF Exists
<1>6. \A i \in DOMAIN plan : plan[i].val \in Rows /\ plan[i].entry \in Entries
  BY <1>1 DEF IsPlan, Changes
<1>7. row' \in [Exists -> Rows]
  <2>1. \A i \in Exists : i \in DOMAIN plan => Overlay(row[i], plan[i].val, plan[i].cols) \in Rows
    BY <1>6 DEF Overlay, Rows, TypeOK
  <2> QED
    BY <1>2, <2>1 DEF TypeOK
<1>8. log' \in [Ids -> Seq(Entries)]
  BY <1>3, <1>6 DEF TypeOK
<1>9. TypeOK'
  BY <1>4, <1>5, <1>7, <1>8 DEF TypeOK, NoPlan
<1> QED
  BY <1>1, <1>2, <1>3, <1>4, <1>5, <1>9 DEF TypeOK

LEMMA RollbackStep ==
  ASSUME TypeOK, NEW s \in Sessions, Rollback(s)
  PROVE  /\ TypeOK' /\ UNCHANGED <<row, log>>
         /\ session' = [t \in Sessions |-> IF t = s THEN NoPlan ELSE session[t]]
<1>1. session' = [t \in Sessions |-> IF t = s THEN NoPlan ELSE session[t]]
  BY DEF Rollback, TypeOK
<1>2. row' = row /\ log' = log
  BY DEF Rollback
<1> QED
  BY <1>1, <1>2 DEF TypeOK, Exists, NoPlan

LEMMA TypesInit == Init => TypeOK
BY DEF Init, TypeOK, NoPlan, Exists

LEMMA TypesStep == TypeOK /\ [Next]_vars => TypeOK'
<1> SUFFICES ASSUME TypeOK, [Next]_vars PROVE TypeOK'
  OBVIOUS
<1>1. ASSUME NEW i \in Ids, NEW r \in Rows, Propose(i, r) PROVE TypeOK'
  BY <1>1, ProposeRow
<1>2. ASSUME NEW s \in Sessions, Handler(s) PROVE TypeOK'
  <2>1. PICK plan : Plan(s, plan) /\ IsPlan(plan)
    BY <1>2, HandlerPlans
  <2>2. /\ UNCHANGED <<row, log>>
        /\ session' = [t \in Sessions |-> IF t = s THEN plan ELSE session[t]]
    BY <2>1, PlanStep
  <2> QED
    BY <2>1, <2>2 DEF TypeOK, IsPlan, Exists
<1>3. ASSUME NEW s \in Sessions, Commit(s) \/ Rollback(s) PROVE TypeOK'
  BY <1>3, CommitRows, RollbackStep
<1>4. CASE UNCHANGED vars
  BY <1>4 DEF vars, TypeOK, Exists
<1> QED
  BY <1>1, <1>2, <1>3, <1>4 DEF Next, Handler

\* Rows, change histories and plans keep their types under every interleaving
\* of requests (backend/services/assumption_service.py).
THEOREM TypeCorrect == Spec => []TypeOK
BY TypesInit, TypesStep, PTL DEF Spec

-----------------------------------------------------------------------------
(* StatusLogged: requests interleave freely.                               *)

\* The last entry of h that changes the status changes it to status.
Logged(status, h) ==
  \E n \in 1..Len(h) :
    /\ h[n].from # h[n].to /\ h[n].to = status
    /\ \A m \in (n + 1)..Len(h) : h[m].from = h[m].to

LEMMA AppendLogged ==
  ASSUME NEW h \in Seq(Entries), NEW e \in Entries, NEW old, NEW new,
         IF e.from = e.to THEN new = old /\ Logged(old, h) ELSE new = e.to
  PROVE  Logged(new, Append(h, e))
<1> DEFINE g == Append(h, e)
<1>1. /\ Len(h) \in Nat /\ Len(g) = Len(h) + 1 /\ g[Len(h) + 1] = e
      /\ \A n \in 1..Len(h) : g[n] = h[n]
  OBVIOUS
<1>2. CASE e.from = e.to
  <2>1. PICK n \in 1..Len(h) : /\ h[n].from # h[n].to /\ h[n].to = old
                               /\ \A m \in (n + 1)..Len(h) : h[m].from = h[m].to
    BY <1>2 DEF Logged
  <2>2. \A m \in (n + 1)..Len(g) : g[m].from = g[m].to
    BY <1>1, <1>2, <2>1
  <2> QED
    BY <1>1, <1>2, <2>1, <2>2 DEF Logged
<1>3. CASE e.from # e.to
  BY <1>1, <1>3 DEF Logged
<1> QED
  BY <1>2, <1>3

PlansHonest ==
  \A s \in Sessions : \A i \in DOMAIN session[s] : Honest(session[s][i])

AllLogged == \A i \in Exists : Logged(row[i].status, log[i])

\* The inductive invariant of Spec.
IInv == TypeOK /\ PlansHonest /\ AllLogged

LEMMA CommitLogs ==
  ASSUME IInv, NEW s \in Sessions, Commit(s)
  PROVE  AllLogged'
<1> DEFINE plan == session[s]
<1> SUFFICES ASSUME NEW i \in Exists
             PROVE  Logged(row'[i].status, log'[i])
  BY CommitRows DEF IInv, AllLogged, Logged
<1>1. Logged(row[i].status, log[i]) /\ log[i] \in Seq(Entries)
  BY DEF IInv, TypeOK, AllLogged
<1>2. CASE i \notin DOMAIN plan
  BY <1>1, <1>2, CommitRows DEF IInv
<1>3. CASE i \in DOMAIN plan
  <2>1. /\ Honest(plan[i]) /\ plan[i].entry \in Entries
        /\ row'[i].status = IF "status" \in plan[i].cols THEN plan[i].val.status ELSE row[i].status
        /\ log'[i] = Append(log[i], plan[i].entry)
    <3>1. IsPlan(plan) /\ Honest(plan[i])
      BY <1>3, CommitRows DEF IInv, PlansHonest
    <3>2. plan[i].entry \in Entries
      BY <1>3, <3>1 DEF IsPlan, Changes
    <3>3. /\ row'[i] = Overlay(row[i], plan[i].val, plan[i].cols)
          /\ log'[i] = Append(log[i], plan[i].entry)
      BY <1>3, CommitRows DEF IInv
    <3> QED
      BY <3>1, <3>2, <3>3 DEF Overlay
  <2> QED
    BY <1>1, <2>1, AppendLogged DEF Honest
<1> QED
  BY <1>2, <1>3

LEMMA HonestStep == TypeOK /\ PlansHonest /\ [Next]_vars => PlansHonest'
<1> SUFFICES ASSUME TypeOK, PlansHonest, [Next]_vars PROVE PlansHonest'
  OBVIOUS
<1>1. ASSUME NEW i \in Ids, NEW r \in Rows, Propose(i, r) PROVE PlansHonest'
  <2>1. session' = session
    BY <1>1 DEF Propose
  <2> QED
    BY <2>1 DEF PlansHonest, Honest
<1>2. ASSUME NEW s \in Sessions, Handler(s) PROVE PlansHonest'
  <2>1. PICK plan : Plan(s, plan) /\ \A i \in DOMAIN plan : Honest(plan[i])
    BY <1>2, HandlerPlans
  <2>2. session' = [t \in Sessions |-> IF t = s THEN plan ELSE session[t]]
    BY <2>1, PlanStep
  <2> QED
    BY <2>1, <2>2 DEF PlansHonest, Honest
<1>3. ASSUME NEW s \in Sessions, Commit(s) \/ Rollback(s) PROVE PlansHonest'
  <2>1. session' = [t \in Sessions |-> IF t = s THEN NoPlan ELSE session[t]]
    BY <1>3, CommitRows, RollbackStep
  <2> QED
    BY <2>1 DEF PlansHonest, NoPlan, Honest
<1>4. CASE UNCHANGED vars
  BY <1>4 DEF vars, PlansHonest, Honest
<1> QED
  BY <1>1, <1>2, <1>3, <1>4 DEF Next, Handler

\* However requests interleave, the last change of status in the log is to the
\* status of the row (backend/services/assumption_service.py _write_change).
THEOREM StatusAlwaysLogged == Spec => []StatusLogged
<1>1. Init => IInv
  BY TypesInit DEF Init, IInv, PlansHonest, AllLogged, Exists, NoPlan
<1>2. IInv /\ [Next]_vars => IInv'
  <2> SUFFICES ASSUME IInv, [Next]_vars PROVE AllLogged'
    BY TypesStep, HonestStep DEF IInv
  <2>1. ASSUME NEW i \in Ids, NEW r \in Rows, Propose(i, r) PROVE AllLogged'
    <3> DEFINE e == [from |-> NoStatus, to |-> r.status, value |-> r.value]
    <3>1. /\ Exists' = Exists \cup {i} /\ row'[i].status = e.to /\ log'[i] = Append(log[i], e)
          /\ \A x \in Exists : x # i /\ row'[x] = row[x] /\ log'[x] = log[x]
      BY <2>1, ProposeRow DEF IInv
    <3>2. e \in Entries /\ e.from # e.to /\ log[i] \in Seq(Entries)
      BY <2>1 DEF Entries, Rows, NoStatus, AssumptionStatus, IInv, TypeOK
    <3>3. Logged(e.to, Append(log[i], e))
      BY <3>2, AppendLogged
    <3>4. ASSUME NEW x \in Exists' PROVE Logged(row'[x].status, log'[x])
      <4> HIDE DEF e
      <4> QED
        BY <3>1, <3>3 DEF IInv, AllLogged
    <3> QED
      BY <3>4 DEF AllLogged, Logged
  <2>2. ASSUME NEW s \in Sessions, Handler(s) \/ Rollback(s) PROVE AllLogged'
    <3>1. UNCHANGED <<row, log>>
      BY <2>2, HandlerPlans, PlanStep, RollbackStep DEF IInv
    <3> QED
      BY <3>1 DEF IInv, AllLogged, Logged, Exists
  <2>3. ASSUME NEW s \in Sessions, Commit(s) PROVE AllLogged'
    BY <2>3, CommitLogs
  <2>4. CASE UNCHANGED vars
    BY <2>4 DEF vars, IInv, AllLogged, Logged, Exists
  <2> QED
    BY <2>1, <2>2, <2>3, <2>4 DEF Next, Handler
<1>3. IInv => StatusLogged
  BY DEF IInv, AllLogged, Logged, StatusLogged
<1> QED
  BY <1>1, <1>2, <1>3, PTL DEF Spec

-----------------------------------------------------------------------------
(* Requests about one name do not overlap.                                 *)

\* Two records that can be in force together are never in effect together.
Disjoint(a, b) ==
  a.name = b.name /\ a.status = "active" /\ b.status = "active" => ~WindowsOverlap(a, b)

NoOverlap == \A i, j \in Exists : i # j => Disjoint(row[i], row[j])

\* Record i as plan will leave it.
After(plan, i) ==
  IF i \in DOMAIN plan THEN Overlay(row[i], plan[i].val, plan[i].cols) ELSE row[i]

Touched(plan) == {row[i].name : i \in DOMAIN plan}

\* A change decided on the present row r.
Fits(r, change) ==
  /\ change.entry.from = r.status
  /\ change.entry.value = Overlay(r, change.val, change.cols).value
  /\ r.status = "proposed" => change.entry.to \in {"proposed", "active"}
  /\ r.status = "active" => change.entry.to = "retired"
  /\ r.status # "retired"
  /\ r.status # "proposed" => change.cols = {"status"}

\* A plan decided on the present rows, which leaves the names it touches
\* without overlaps.
PlanFits(plan) ==
  /\ \A i \in DOMAIN plan : Fits(row[i], plan[i])
  /\ \A i, j \in Exists :
       i # j /\ row[i].name \in Touched(plan) => Disjoint(After(plan, i), After(plan, j))

\* The same of rows given as a parameter: nothing else of the state matters.
PlanFitsOn(rows, plan) ==
  /\ \A i \in DOMAIN plan : Fits(rows[i], plan[i])
  /\ \A i, j \in DOMAIN rows :
       i # j /\ rows[i].name \in {rows[x].name : x \in DOMAIN plan} =>
         Disjoint(IF i \in DOMAIN plan THEN Overlay(rows[i], plan[i].val, plan[i].cols) ELSE rows[i],
                  IF j \in DOMAIN plan THEN Overlay(rows[j], plan[j].val, plan[j].cols) ELSE rows[j])

PlansFit == \A s \in Sessions : PlanFits(session[s])

\* A history that chains up to the row it describes.
Chained(r, h) ==
  /\ \A n \in 2..Len(h) : h[n].from = h[n - 1].to
  /\ h # <<>> /\ h[Len(h)].value = r.value /\ h[Len(h)].to = r.status

AllChained == \A i \in Exists : Chained(row[i], log[i])
NoOrphans == \A i \in Ids \ Exists : log[i] = <<>>

\* The inductive invariant of SerialSpec.
SerialInv ==
  /\ TypeOK /\ PlansHonest /\ OneAtATime
  /\ NoOverlap /\ PlansFit /\ AllChained /\ NoOrphans

LEMMA OverlayStatus ==
  ASSUME NEW r \in Rows, NEW val
  PROVE  LET o == Overlay(r, val, {"status"})
         IN /\ o.name = r.name /\ o.value = r.value /\ o.from = r.from /\ o.until = r.until
            /\ o.status = val.status
BY DEF Overlay

LEMMA UpdateFits ==
  ASSUME TypeOK, NoOverlap, NEW s \in Sessions, NEW u \in Users, NEW i \in Ids,
         NEW v \in Values, NEW f \in Bounds, NEW n \in Bounds,
         UpdateProposal(s, u, i, v, f, n)
  PROVE  PlanFits([x \in {i} |-> EditChange(i, v, f, n)])
<1> DEFINE c == EditChange(i, v, f, n)
           plan == [x \in {i} |-> c]
<1>1. i \in Exists /\ row[i] \in Rows /\ row[i].status = "proposed"
  BY DEF UpdateProposal, TypeOK
<1>2. Edited(row[i], v, f, n) \in Rows /\ Edited(row[i], v, f, n).value = v
  BY <1>1 DEF Edited, Rows
<1>3. /\ "status" \notin c.cols /\ c.entry = [from |-> "proposed", to |-> "proposed", value |-> v]
      /\ c.val = Edited(row[i], v, f, n)
      /\ "value" \notin c.cols => row[i].value = v
  <2>1. "status" \notin c.cols
    BY <1>1, EditChangeIsHonest
  <2>2. /\ c.entry = [from |-> "proposed", to |-> "proposed", value |-> v]
        /\ c.val = Edited(row[i], v, f, n)
        /\ c.cols = {k \in Columns : Edited(row[i], v, f, n)[k] # row[i][k]}
    BY DEF EditChange
  <2>3. "value" \notin c.cols => Edited(row[i], v, f, n)["value"] = row[i]["value"]
    BY <2>2 DEF Columns
  <2> QED
    BY <1>2, <2>1, <2>2, <2>3
<1>4. Overlay(row[i], c.val, c.cols).value = v /\ Overlay(row[i], c.val, c.cols).status = "proposed"
  BY <1>1, <1>2, <1>3 DEF Overlay
<1> HIDE DEF c
<1>5. Fits(row[i], plan[i])
  BY <1>1, <1>3, <1>4 DEF Fits
<1>6. After(plan, i).status = "proposed" /\ \A x \in Exists : x # i => After(plan, x) = row[x]
  BY <1>4 DEF After
<1>7. \A x, y \in Exists : x # y => Disjoint(After(plan, x), After(plan, y))
  BY <1>1, <1>6 DEF NoOverlap, Disjoint
<1>8. PlanFits(plan)
  BY <1>5, <1>7 DEF PlanFits
<1> QED
  BY <1>8 DEF c

LEMMA ApproveFits ==
  ASSUME TypeOK, NoOverlap, NEW s \in Sessions, NEW u \in Users, NEW i \in Ids, Approve(s, u, i)
  PROVE  PlanFits([x \in Overlapping(i) \cup {i} |->
                     StatusChange(x, IF x = i THEN "active" ELSE "retired")])
<1> DEFINE D == Overlapping(i) \cup {i}
           To(x) == IF x = i THEN "active" ELSE "retired"
           plan == [x \in D |-> StatusChange(x, To(x))]
<1>1. i \in Exists /\ row[i].status = "proposed" /\ D \subseteq Exists
  BY DEF Approve, Overlapping
<1>2. \A x \in D : /\ x # i => row[x].status = "active"
                   /\ row[x].name = row[i].name /\ row[x] \in Rows
  BY <1>1 DEF Overlapping, TypeOK
<1>3. \A x \in D :
        /\ plan[x].cols = {"status"} /\ plan[x].val.status = To(x)
        /\ plan[x].entry = [from |-> row[x].status, to |-> To(x), value |-> row[x].value]
  BY <1>2 DEF StatusChange, Rows
<1>4. DOMAIN plan = D
  OBVIOUS
<1> HIDE DEF plan
<1>5. \A x \in D : Fits(row[x], plan[x])
  <2> SUFFICES ASSUME NEW x \in D PROVE Fits(row[x], plan[x])
    OBVIOUS
  <2>1. /\ plan[x].cols = {"status"} /\ row[x] \in Rows
        /\ plan[x].entry = [from |-> row[x].status, to |-> To(x), value |-> row[x].value]
    BY <1>2, <1>3
  <2>2. Overlay(row[x], plan[x].val, plan[x].cols).value = row[x].value
    BY <2>1, OverlayStatus
  <2>3. \/ row[x].status = "proposed" /\ To(x) = "active"
        \/ row[x].status = "active" /\ To(x) = "retired"
    BY <1>1, <1>2
  <2> HIDE DEF To
  <2> QED
    BY <2>1, <2>2, <2>3 DEF Fits
<1>6. \A x \in Exists :
        /\ After(plan, x).name = row[x].name
        /\ After(plan, x).from = row[x].from /\ After(plan, x).until = row[x].until
        /\ After(plan, x).status = IF x \in D THEN To(x) ELSE row[x].status
  <2> SUFFICES ASSUME NEW x \in Exists
               PROVE  /\ After(plan, x).name = row[x].name
                      /\ After(plan, x).from = row[x].from /\ After(plan, x).until = row[x].until
                      /\ After(plan, x).status = IF x \in D THEN To(x) ELSE row[x].status
    OBVIOUS
  <2>1. CASE x \in D
    <3>1. plan[x].cols = {"status"} /\ row[x] \in Rows /\ plan[x].val.status = To(x)
      BY <1>2, <1>3, <2>1
    <3>2. After(plan, x) = Overlay(row[x], plan[x].val, {"status"})
      BY <1>4, <2>1, <3>1 DEF After
    <3> HIDE DEF To, D
    <3> QED
      BY <2>1, <3>1, <3>2, OverlayStatus
  <2>2. CASE x \notin D
    BY <1>4, <2>2 DEF After
  <2> QED
    BY <2>1, <2>2
<1>7. ASSUME NEW x \in Exists, NEW y \in Exists, x # y,
             row[x].name = row[y].name, WindowsOverlap(row[x], row[y]),
             After(plan, x).status = "active", After(plan, y).status = "active"
      PROVE  FALSE
  <2>1. \A z \in {x, y} : z = i \/ (z \notin D /\ row[z].status = "active")
    BY <1>6, <1>7
  <2>2. CASE x = i
    BY <1>7, <2>1, <2>2 DEF Overlapping, WindowsOverlap
  <2>3. CASE y = i
    BY <1>7, <2>1, <2>3 DEF Overlapping, WindowsOverlap
  <2>4. CASE x # i /\ y # i
    BY <1>7, <2>1, <2>4 DEF NoOverlap, Disjoint
  <2> QED
    BY <2>2, <2>3, <2>4
<1>8. \A x, y \in Exists : x # y => Disjoint(After(plan, x), After(plan, y))
  BY <1>6, <1>7 DEF Disjoint, WindowsOverlap
<1>9. PlanFits(plan)
  BY <1>4, <1>5, <1>8 DEF PlanFits
<1> QED
  BY <1>9 DEF plan

LEMMA RetireFits ==
  ASSUME TypeOK, NoOverlap, NEW s \in Sessions, NEW u \in Users, NEW i \in Ids, Retire(s, u, i)
  PROVE  PlanFits([x \in {i} |-> StatusChange(i, "retired")])
<1> DEFINE plan == [x \in {i} |-> StatusChange(i, "retired")]
<1>1. i \in Exists /\ row[i].status = "active" /\ row[i] \in Rows
  BY DEF Retire, TypeOK
<1>2. /\ DOMAIN plan = {i} /\ plan[i].cols = {"status"} /\ plan[i].val.status = "retired"
      /\ plan[i].entry = [from |-> "active", to |-> "retired", value |-> row[i].value]
  BY <1>1 DEF StatusChange, Rows
<1> HIDE DEF plan
<1>3. Fits(row[i], plan[i])
  BY <1>1, <1>2 DEF Fits, Overlay
<1>4. After(plan, i).status = "retired" /\ \A x \in Exists : x # i => After(plan, x) = row[x]
  BY <1>2 DEF After, Overlay
<1>5. \A x, y \in Exists : x # y => Disjoint(After(plan, x), After(plan, y))
  BY <1>4 DEF NoOverlap, Disjoint
<1>6. PlanFits(plan)
  BY <1>2, <1>3, <1>5 DEF PlanFits
<1> QED
  BY <1>6 DEF plan

LEMMA HandlerFits ==
  ASSUME TypeOK, NoOverlap, NEW s \in Sessions, Handler(s)
  PROVE  \E plan : Plan(s, plan) /\ PlanFits(plan)
<1>1. ASSUME NEW u \in Users, NEW i \in Ids, NEW v \in Values, NEW f \in Bounds, NEW n \in Bounds,
             UpdateProposal(s, u, i, v, f, n)
      PROVE  \E plan : Plan(s, plan) /\ PlanFits(plan)
  <2> DEFINE plan == [x \in {i} |-> EditChange(i, v, f, n)]
  <2>1. Plan(s, plan)
    BY <1>1 DEF UpdateProposal
  <2>2. PlanFits(plan)
    BY <1>1, UpdateFits
  <2> QED
    BY <2>1, <2>2
<1>2. ASSUME NEW u \in Users, NEW i \in Ids, Approve(s, u, i)
      PROVE  \E plan : Plan(s, plan) /\ PlanFits(plan)
  BY <1>2, ApproveFits DEF Approve
<1>3. ASSUME NEW u \in Users, NEW i \in Ids, Retire(s, u, i)
      PROVE  \E plan : Plan(s, plan) /\ PlanFits(plan)
  BY <1>3, RetireFits DEF Retire
<1> QED
  BY <1>1, <1>2, <1>3 DEF Handler

\* A history grows by an entry decided on the row it describes.
LEMMA AppendChained ==
  ASSUME NEW r \in Rows, NEW h \in Seq(Entries), Chained(r, h),
         NEW c \in Changes, Fits(r, c), Honest(c)
  PROVE  Chained(Overlay(r, c.val, c.cols), Append(h, c.entry))
<1> DEFINE g == Append(h, c.entry)
<1>1. /\ Len(h) \in Nat /\ Len(h) > 0 /\ Len(g) = Len(h) + 1 /\ g[Len(h) + 1] = c.entry
      /\ \A n \in 1..Len(h) : g[n] = h[n]
  BY DEF Chained, Changes
<1>2. \A n \in 2..Len(g) : g[n].from = g[n - 1].to
  <2> SUFFICES ASSUME NEW n \in 2..Len(g) PROVE g[n].from = g[n - 1].to
    OBVIOUS
  <2>1. CASE n = Len(h) + 1
    BY <1>1, <2>1 DEF Chained, Fits
  <2>2. CASE n \in 2..Len(h)
    BY <1>1, <2>2 DEF Chained
  <2> QED
    BY <1>1, <2>1, <2>2
<1>3. Overlay(r, c.val, c.cols).status = c.entry.to
  BY DEF Overlay, Honest, Fits
<1>4. Overlay(r, c.val, c.cols).value = c.entry.value
  BY DEF Fits
<1>5. g # <<>> /\ g[Len(g)] = c.entry
  BY <1>1
<1> HIDE DEF g
<1>6. Chained(Overlay(r, c.val, c.cols), g)
  BY <1>2, <1>3, <1>4, <1>5 DEF Chained
<1> QED
  BY <1>6 DEF g

LEMMA ProposeKeeps ==
  ASSUME SerialInv, NEW i \in Ids, NEW r \in Rows, Propose(i, r)
  PROVE  NoOverlap' /\ PlansFit' /\ AllChained' /\ NoOrphans'
<1> DEFINE e == [from |-> NoStatus, to |-> r.status, value |-> r.value]
<1>1. /\ session' = session /\ i \notin Exists /\ Exists' = Exists \cup {i}
      /\ row'[i] = r /\ r.status = "proposed" /\ log'[i] = Append(log[i], e)
      /\ \A x \in Exists : x # i /\ row'[x] = row[x] /\ log'[x] = log[x]
  BY ProposeRow DEF SerialInv
<1>2. NoOverlap'
  BY <1>1 DEF SerialInv, NoOverlap, Disjoint, WindowsOverlap
<1>3. ASSUME NEW s \in Sessions PROVE PlanFits(session[s])'
  <2> DEFINE plan == session[s]
  <2>1. PlanFits(plan) /\ DOMAIN plan \subseteq Exists
    BY DEF SerialInv, PlansFit, TypeOK
  <2>2. /\ session'[s] = plan /\ Touched(plan)' = Touched(plan)
        /\ \A x \in Exists : After(plan, x)' = After(plan, x)
        /\ After(plan, i)' = r
    BY <1>1, <2>1 DEF Touched, After
  <2>3. \A x \in DOMAIN plan : Fits(row'[x], plan[x])
    BY <1>1, <2>1 DEF PlanFits
  <2>4. ASSUME NEW x \in Exists', NEW y \in Exists', x # y, row'[x].name \in Touched(plan)
        PROVE  Disjoint(After(plan, x)', After(plan, y)')
    <3>1. CASE x = i \/ y = i
      BY <1>1, <2>2, <3>1 DEF Disjoint
    <3>2. CASE x # i /\ y # i
      BY <1>1, <2>1, <2>2, <2>4, <3>2 DEF PlanFits
    <3> QED
      BY <3>1, <3>2
  <2> QED
    BY <1>1, <2>2, <2>3, <2>4 DEF PlanFits
<1>4. AllChained'
  <2>1. log[i] = <<>> /\ e \in Entries
    BY <1>1 DEF SerialInv, NoOrphans, Entries, Rows
  <2>2. log'[i] = <<e>>
    BY <1>1, <2>1
  <2>3. Chained(row'[i], log'[i])
    <3>1. Len(<<e>>) = 1 /\ <<e>>[1] = e /\ <<e>> # <<>> /\ 2..1 = {}
      OBVIOUS
    <3>2. e.value = r.value /\ e.to = r.status
      OBVIOUS
    <3> HIDE DEF e
    <3>3. Chained(r, <<e>>)
      BY <3>1, <3>2 DEF Chained
    <3> QED
      BY <1>1, <2>2, <3>3
  <2>4. \A x \in Exists : Chained(row'[x], log'[x])
    BY <1>1 DEF SerialInv, AllChained
  <2> QED
    BY <1>1, <2>3, <2>4 DEF AllChained, Chained
<1>5. NoOrphans'
  BY <1>1 DEF SerialInv, NoOrphans, Propose, TypeOK
<1> QED
  BY <1>2, <1>3, <1>4, <1>5 DEF PlansFit

LEMMA CommitKeeps ==
  ASSUME SerialInv, NEW s \in Sessions, Commit(s)
  PROVE  NoOverlap' /\ PlansFit' /\ AllChained' /\ NoOrphans'
<1> DEFINE plan == session[s]
<1>1. /\ Exists' = Exists /\ IsPlan(plan)
      /\ session' = [t \in Sessions |-> IF t = s THEN NoPlan ELSE session[t]]
      /\ \A i \in Exists : row'[i] = After(plan, i)
      /\ \A i \in Exists : log'[i] = IF i \in DOMAIN plan THEN Append(log[i], plan[i].entry)
                                     ELSE log[i]
  BY CommitRows DEF SerialInv, After
<1>2. \A i \in Exists : /\ row'[i].name = row[i].name
                        /\ row[i].name \notin Touched(plan) => row'[i] = row[i]
  <2> SUFFICES ASSUME NEW i \in Exists
               PROVE  /\ row'[i].name = row[i].name
                      /\ row[i].name \notin Touched(plan) => row'[i] = row[i]
    OBVIOUS
  <2>1. CASE i \in DOMAIN plan
    <3>1. row'[i] = Overlay(row[i], plan[i].val, plan[i].cols)
      BY <1>1, <2>1 DEF After
    <3>2. row'[i].name = row[i].name
      BY <3>1 DEF Overlay
    <3> QED
      BY <2>1, <3>2 DEF Touched
  <2>2. CASE i \notin DOMAIN plan
    BY <1>1, <2>2 DEF After
  <2> QED
    BY <2>1, <2>2
<1>3. PlanFits(plan)
  BY DEF SerialInv, PlansFit
<1>4. NoOverlap'
  <2> SUFFICES ASSUME NEW i \in Exists, NEW j \in Exists, i # j
               PROVE  Disjoint(row'[i], row'[j])
    BY <1>1 DEF NoOverlap, Disjoint, WindowsOverlap
  <2>1. CASE row[i].name \in Touched(plan)
    BY <1>1, <1>3, <2>1 DEF PlanFits
  <2>2. CASE row[i].name \notin Touched(plan) /\ row[j].name = row[i].name
    BY <1>2, <2>2 DEF SerialInv, NoOverlap
  <2>3. CASE row[j].name # row[i].name
    BY <1>2, <2>3 DEF Disjoint
  <2> QED
    BY <2>1, <2>2, <2>3
<1>5. ASSUME NEW t \in Sessions PROVE PlanFits(session[t])'
  <2>1. CASE t = s
    <3>1. session'[t] = NoPlan
      BY <1>1, <2>1
    <3> QED
      BY <3>1 DEF PlanFits, Touched, NoPlan
  <2>2. CASE t # s
    <3> DEFINE q == session[t]
    <3>1. session'[t] = q /\ PlanFits(q) /\ IsPlan(q)
      BY <1>1, <2>2 DEF SerialInv, PlansFit, TypeOK, IsPlan
    <3>2. Touched(q) \cap Touched(plan) = {}
      BY <2>2 DEF SerialInv, OneAtATime, NamesOf, Touched
    <3>3. \A i \in Exists : row[i].name \in Touched(q) =>
                              row'[i] = row[i] /\ After(q, i)' = After(q, i)
      <4>1. \A i \in Exists : row[i].name \in Touched(q) => row'[i] = row[i]
        BY <1>2, <3>2
      <4> QED
        BY <3>1, <4>1 DEF After
    <3>4. \A i \in DOMAIN q : row[i].name \in Touched(q) /\ i \in Exists
      BY <3>1 DEF Touched, IsPlan
    <3>5. Touched(q)' = Touched(q)
      BY <3>1, <3>3, <3>4 DEF Touched
    <3>6. \A i \in Exists : After(q, i)'.name = row[i].name
      BY <1>2, <3>1 DEF After, Overlay
    <3>7. ASSUME NEW i \in Exists, NEW j \in Exists, i # j, row'[i].name \in Touched(q)
          PROVE  Disjoint(After(q, i)', After(q, j)')
      <4>1. CASE row[j].name = row[i].name
        BY <1>2, <3>1, <3>3, <3>7, <4>1 DEF PlanFits
      <4>2. CASE row[j].name # row[i].name
        BY <3>6, <4>2 DEF Disjoint
      <4> QED
        BY <4>1, <4>2
    <3>8. \A i \in DOMAIN q : Fits(row'[i], q[i])
      BY <3>1, <3>3, <3>4 DEF PlanFits
    <3> QED
      BY <1>1, <3>1, <3>5, <3>7, <3>8 DEF PlanFits
  <2> QED
    BY <2>1, <2>2
<1>6. ASSUME NEW i \in Exists PROVE Chained(row'[i], log'[i])
  <2>1. Chained(row[i], log[i]) /\ row[i] \in Rows /\ log[i] \in Seq(Entries)
    BY DEF SerialInv, AllChained, TypeOK
  <2>2. CASE i \in DOMAIN plan
    <3>1. plan[i] \in Changes /\ Fits(row[i], plan[i]) /\ Honest(plan[i])
      BY <1>1, <1>3, <2>2 DEF IsPlan, PlanFits, SerialInv, PlansHonest
    <3>2. row'[i] = Overlay(row[i], plan[i].val, plan[i].cols) /\ log'[i] = Append(log[i], plan[i].entry)
      BY <1>1, <2>2 DEF After
    <3> QED
      BY <2>1, <3>1, <3>2, AppendChained
  <2>3. CASE i \notin DOMAIN plan
    BY <1>1, <2>1, <2>3 DEF After
  <2> QED
    BY <2>2, <2>3
<1>7. NoOrphans'
  BY <1>1 DEF SerialInv, NoOrphans, Commit, IsPlan
<1> QED
  BY <1>1, <1>4, <1>5, <1>6, <1>7 DEF PlansFit, AllChained, Chained

LEMMA SerialStep == SerialInv /\ [SerialNext]_vars => SerialInv'
<1> SUFFICES ASSUME SerialInv, [SerialNext]_vars PROVE SerialInv'
  OBVIOUS
<1>1. TypeOK' /\ PlansHonest'
  BY TypesStep, HonestStep DEF SerialInv, SerialNext
<1>2. OneAtATime'
  <2>1. CASE SerialNext
    BY <2>1 DEF SerialNext
  <2>2. CASE UNCHANGED vars
    <3>1. row' = row /\ session' = session
      BY <2>2 DEF vars
    <3> QED
      BY <3>1, SMTT(30) DEF SerialInv, OneAtATime, NamesOf
  <2> QED
    BY <2>1, <2>2
<1> DEFINE Rest == NoOverlap /\ PlansFit /\ AllChained /\ NoOrphans
<1>3. ASSUME NEW i \in Ids, NEW r \in Rows, Propose(i, r) PROVE Rest'
  BY <1>3, ProposeKeeps
<1>4. ASSUME NEW s \in Sessions, Handler(s) PROVE Rest'
  <2>1. PICK plan : Plan(s, plan) /\ PlanFits(plan)
    BY <1>4, HandlerFits DEF SerialInv
  <2>2. /\ row' = row /\ log' = log
        /\ session' = [t \in Sessions |-> IF t = s THEN plan ELSE session[t]]
    BY <2>1, PlanStep DEF SerialInv
  <2>3. NoOverlap' /\ AllChained' /\ NoOrphans'
    BY <2>2 DEF SerialInv, NoOverlap, Disjoint, WindowsOverlap, AllChained, Chained, NoOrphans, Exists
  <2>4. ASSUME NEW t \in Sessions PROVE PlanFits(session[t])'
    <3>1. PlanFits(session'[t])
      BY <2>1, <2>2 DEF SerialInv, PlansFit
    <3>2. PlanFitsOn(row, session'[t])
      BY <3>1 DEF PlanFits, PlanFitsOn, After, Touched, Exists
    <3>3. PlanFitsOn(row', session'[t])
      BY <2>2, <3>2
    <3> QED
      BY <3>3, Zenon DEF PlanFits, PlanFitsOn, After, Touched, Exists, Fits, Disjoint, Overlay, WindowsOverlap
  <2> QED
    BY <2>3, <2>4 DEF PlansFit
<1>5. ASSUME NEW s \in Sessions, Commit(s) PROVE Rest'
  BY <1>5, CommitKeeps
<1>6. ASSUME NEW s \in Sessions, Rollback(s) PROVE Rest'
  <2>1. /\ row' = row /\ log' = log
        /\ session' = [t \in Sessions |-> IF t = s THEN NoPlan ELSE session[t]]
    BY <1>6, RollbackStep DEF SerialInv
  <2>2. NoOverlap' /\ AllChained' /\ NoOrphans'
    BY <2>1 DEF SerialInv, NoOverlap, Disjoint, WindowsOverlap, AllChained, Chained, NoOrphans, Exists
  <2>3. ASSUME NEW t \in Sessions PROVE PlanFits(session[t])'
    <3>1. PlanFits(session'[t])
      BY <2>1 DEF SerialInv, PlansFit, PlanFits, Touched, NoPlan
    <3>2. PlanFitsOn(row, session'[t])
      BY <3>1 DEF PlanFits, PlanFitsOn, After, Touched, Exists
    <3>3. PlanFitsOn(row', session'[t])
      BY <2>1, <3>2
    <3> QED
      BY <3>3, Zenon DEF PlanFits, PlanFitsOn, After, Touched, Exists, Fits, Disjoint, Overlay, WindowsOverlap
  <2> QED
    BY <2>2, <2>3 DEF PlansFit
<1>7. ASSUME UNCHANGED vars PROVE Rest'
  <2>1. row' = row /\ log' = log /\ session' = session
    BY <1>7 DEF vars
  <2>2. NoOverlap' /\ AllChained' /\ NoOrphans'
    BY <2>1 DEF SerialInv, NoOverlap, Disjoint, WindowsOverlap, AllChained, Chained, NoOrphans, Exists
  <2>3. ASSUME NEW t \in Sessions PROVE PlanFits(session[t])'
    <3>1. PlanFits(session'[t])
      BY <2>1 DEF SerialInv, PlansFit
    <3>2. PlanFitsOn(row, session'[t])
      BY <3>1 DEF PlanFits, PlanFitsOn, After, Touched, Exists
    <3>3. PlanFitsOn(row', session'[t])
      BY <2>1, <3>2
    <3> QED
      BY <3>3, Zenon DEF PlanFits, PlanFitsOn, After, Touched, Exists, Fits, Disjoint, Overlay, WindowsOverlap
  <2> QED
    BY <2>2, <2>3 DEF PlansFit
<1> HIDE DEF Rest
<1>8. Rest'
  <2>1. Next \/ UNCHANGED vars
    BY DEF SerialNext
  <2> QED
    BY <2>1, <1>3, <1>4, <1>5, <1>6, <1>7 DEF Next, Handler
<1> QED
  BY <1>1, <1>2, <1>8 DEF SerialInv, Rest

LEMMA SerialAlways == SerialSpec => []SerialInv
<1>1. Init => SerialInv
  <2> SUFFICES ASSUME Init PROVE SerialInv
    OBVIOUS
  <2>1. Exists = {} /\ \A s \in Sessions : DOMAIN session[s] = {}
    BY DEF Init, Exists, NoPlan
  <2>2. OneAtATime
    BY <2>1 DEF OneAtATime, NamesOf
  <2>3. PlansFit
    BY <2>1 DEF PlansFit, PlanFits, Touched
  <2> QED
    BY <2>1, <2>2, <2>3, TypesInit DEF Init, SerialInv, PlansHonest, NoOverlap, AllChained, NoOrphans
<1> QED
  BY <1>1, SerialStep, PTL DEF SerialSpec

\* "At most one row per (client_id, assumption_name) should be ACTIVE on any
\* given date" (backend/orm/calculation_assumption.py), when requests about one
\* name do not overlap: the retirements of an approval are enough.
THEOREM AtMostOneAlwaysInEffect == SerialSpec => []AtMostOneInEffect
<1>1. SerialInv => AtMostOneInEffect
  <2> SUFFICES ASSUME SerialInv, NEW i \in Exists, NEW j \in Exists, NEW d \in Dates,
                      i # j, row[i].name = row[j].name, InEffect(i, d), InEffect(j, d)
               PROVE  FALSE
    BY DEF AtMostOneInEffect
  <2>1. row[i] \in Rows /\ row[j] \in Rows
    BY DEF SerialInv, TypeOK
  <2>2. WindowsOverlap(row[i], row[j])
    BY <2>1, MaxDateAssumption DEF InEffect, WindowsOverlap, Rows, Bounds, Dates, Null
  <2> QED
    BY <2>2 DEF SerialInv, NoOverlap, Disjoint, InEffect
<1> QED
  BY <1>1, SerialAlways, PTL

\* When requests about one name do not overlap, the change log of a record is
\* a chain and ends in its present value and status.
THEOREM HistoryAlwaysChains == SerialSpec => []HistoryChains
<1>1. SerialInv /\ StatusLogged => HistoryChains
  BY DEF SerialInv, AllChained, Chained, HistoryChains
<1>2. SerialSpec => Spec
  <2>1. [SerialNext]_vars => [Next]_vars
    BY DEF SerialNext
  <2> QED
    BY <2>1, PTL DEF SerialSpec, Spec
<1> QED
  BY <1>1, <1>2, SerialAlways, StatusAlwaysLogged, PTL

\* What a step of SerialSpec may do to a record.
LEMMA SerialRows ==
  ASSUME SerialInv, [SerialNext]_vars, NEW i \in Exists
  PROVE  \/ row'[i] = row[i]
         \/ \E c \in Changes : row'[i] = Overlay(row[i], c.val, c.cols) /\ Fits(row[i], c) /\ Honest(c)
<1>1. ASSUME NEW x \in Ids, NEW r \in Rows, Propose(x, r) PROVE row'[i] = row[i]
  BY <1>1, ProposeRow DEF SerialInv
<1>2. ASSUME NEW s \in Sessions, Handler(s) PROVE row'[i] = row[i]
  BY <1>2, HandlerPlans, PlanStep DEF SerialInv
<1>3. ASSUME NEW s \in Sessions, Commit(s), row'[i] # row[i]
      PROVE  \E c \in Changes : row'[i] = Overlay(row[i], c.val, c.cols) /\ Fits(row[i], c) /\ Honest(c)
  <2> DEFINE plan == session[s]
  <2>1. i \in DOMAIN plan /\ row'[i] = Overlay(row[i], plan[i].val, plan[i].cols) /\ IsPlan(plan)
    BY <1>3, CommitRows DEF SerialInv
  <2>2. plan[i] \in Changes /\ Fits(row[i], plan[i]) /\ Honest(plan[i])
    BY <2>1 DEF IsPlan, SerialInv, PlansFit, PlanFits, PlansHonest
  <2> QED
    BY <2>1, <2>2
<1>4. ASSUME NEW s \in Sessions, Rollback(s) PROVE row'[i] = row[i]
  BY <1>4 DEF Rollback
<1> QED
  BY <1>1, <1>2, <1>3, <1>4 DEF SerialNext, Next, Handler, vars

\* The value and the window an admin approved never change afterwards.
THEOREM ReviewedStaysFrozen == SerialSpec => ReviewedIsFrozen
<1> DEFINE Frozen(i) ==
      row[i].status # "proposed" =>
        /\ row'[i].value = row[i].value
        /\ row'[i].from = row[i].from /\ row'[i].until = row[i].until
<1>1. ASSUME SerialInv, [SerialNext]_vars, NEW i \in Exists PROVE Frozen(i)
  <2>1. CASE row'[i] = row[i]
    BY <2>1
  <2>2. ASSUME NEW c \in Changes, row'[i] = Overlay(row[i], c.val, c.cols), Fits(row[i], c)
        PROVE  Frozen(i)
    BY <2>2 DEF Fits, Overlay
  <2> QED
    BY <1>1, <2>1, <2>2, SerialRows
<1>2. SerialInv /\ [SerialNext]_vars => [\A i \in Exists : Frozen(i)]_vars
  BY <1>1
<1> QED
  BY <1>2, SerialAlways, PTL DEF SerialSpec, ReviewedIsFrozen

-----------------------------------------------------------------------------
(* Refinement: the serialized program implements Lifecycle.                *)

LEMMA MovesOfEmpty == MovesOf(<<>>) = <<>>
BY DEF MovesOf

LEMMA MovesOfAppend ==
  ASSUME NEW l \in Seq(Entries), NEW e \in Entries
  PROVE  MovesOf(Append(l, e)) = Append(MovesOf(l), [from |-> e.from, to |-> e.to])
<1> DEFINE m == [from |-> e.from, to |-> e.to]
           g == Append(l, e)
<1>1. Len(l) \in Nat /\ Len(g) = Len(l) + 1 /\ g[Len(l) + 1] = e /\ \A n \in 1..Len(l) : g[n] = l[n]
  OBVIOUS
<1>2. /\ MovesOf(l) \in Seq(Entries \cup {[from |-> x.from, to |-> x.to] : x \in Entries})
      /\ Len(MovesOf(l)) = Len(l)
  BY DEF MovesOf
<1>3. /\ Len(Append(MovesOf(l), m)) = Len(l) + 1
      /\ DOMAIN Append(MovesOf(l), m) = 1..(Len(l) + 1)
      /\ Append(MovesOf(l), m) = [n \in 1..(Len(l) + 1) |-> Append(MovesOf(l), m)[n]]
      /\ Append(MovesOf(l), m)[Len(l) + 1] = m
      /\ \A n \in 1..Len(l) : Append(MovesOf(l), m)[n] = MovesOf(l)[n]
  BY <1>1, <1>2
<1>4. \A n \in 1..(Len(l) + 1) : MovesOf(g)[n] = Append(MovesOf(l), m)[n]
  BY <1>1, <1>3 DEF MovesOf
<1>5. MovesOf(g) = [n \in 1..(Len(l) + 1) |-> MovesOf(g)[n]]
  BY <1>1 DEF MovesOf
<1> QED
  BY <1>3, <1>4, <1>5

\* What a step does to one record, in the terms of Lifecycle.
Follows(i) ==
  \/ StatusOf(i)' = StatusOf(i) /\ log'[i] = log[i]
  \/ \E e \in Entries :
       /\ e.from = StatusOf(i) /\ e.to = StatusOf(i)'
       /\ \/ e.from = e.to /\ e.from # NoStatus
          \/ <<e.from, e.to>> \in {<<NoStatus, "proposed">>, <<"proposed", "active">>,
                                   <<"active", "retired">>}
       /\ log'[i] = Append(log[i], e)

LEMMA StepFollows ==
  ASSUME SerialInv, [SerialNext]_vars, NEW i \in Ids
  PROVE  Follows(i)
<1>1. ASSUME NEW x \in Ids, NEW r \in Rows, Propose(x, r) PROVE Follows(i)
  <2>1. CASE i = x
    <3> DEFINE e == [from |-> NoStatus, to |-> r.status, value |-> r.value]
    <3>1. e \in Entries
      BY DEF Entries, Rows
    <3>2. StatusOf(i) = NoStatus /\ StatusOf(i)' = "proposed" /\ log'[i] = Append(log[i], e)
          /\ e.from = NoStatus /\ e.to = "proposed"
      BY <1>1, <2>1, ProposeRow DEF SerialInv, StatusOf
    <3> QED
      BY <3>1, <3>2 DEF Follows
  <2>2. CASE i # x
    <3>1. log'[i] = log[i]
      BY <1>1, <2>2 DEF SerialInv, TypeOK, Propose
    <3> QED
      BY <1>1, <2>2, <3>1, ProposeRow DEF SerialInv, StatusOf, Follows
  <2> QED
    BY <2>1, <2>2
<1>2. ASSUME NEW s \in Sessions, Handler(s) PROVE Follows(i)
  BY <1>2, HandlerPlans, PlanStep DEF SerialInv, Follows, StatusOf, Exists
<1>3. ASSUME NEW s \in Sessions, Commit(s) PROVE Follows(i)
  <2> DEFINE plan == session[s]
  <2>1. CASE i \in DOMAIN plan
    <3>1. /\ i \in Exists /\ row'[i] = Overlay(row[i], plan[i].val, plan[i].cols)
          /\ log'[i] = Append(log[i], plan[i].entry) /\ Exists' = Exists
          /\ plan[i].entry \in Entries
      BY <1>3, <2>1, CommitRows DEF SerialInv, IsPlan, Changes
    <3>2. /\ Fits(row[i], plan[i]) /\ Honest(plan[i]) /\ row[i] \in Rows
      BY <2>1, <3>1 DEF SerialInv, PlansFit, PlanFits, PlansHonest, TypeOK
    <3>3. /\ row'[i].status = plan[i].entry.to /\ plan[i].entry.from = row[i].status
          /\ row[i].status = "proposed" \/ row[i].status = "active"
      BY <3>1, <3>2 DEF Fits, Honest, Overlay, Rows, AssumptionStatus
    <3>4. StatusOf(i) = row[i].status /\ StatusOf(i)' = row'[i].status
      BY <3>1 DEF StatusOf
    <3> QED
      BY <3>1, <3>2, <3>3, <3>4 DEF Follows, Fits, NoStatus
  <2>2. CASE i \notin DOMAIN plan
    <3>1. log'[i] = log[i]
      BY <1>3, <2>2 DEF Commit
    <3> QED
      BY <1>3, <2>2, <3>1, CommitRows DEF SerialInv, StatusOf, Follows
  <2> QED
    BY <2>1, <2>2
<1>4. ASSUME NEW s \in Sessions, Rollback(s) PROVE Follows(i)
  BY <1>4 DEF Rollback, Follows, StatusOf, Exists
<1>5. ASSUME UNCHANGED vars PROVE Follows(i)
  BY <1>5 DEF vars, Follows, StatusOf, Exists
<1> QED
  BY <1>1, <1>2, <1>3, <1>4, <1>5 DEF SerialNext, Next, Handler

\* When requests about one name do not overlap, the program implements
\* Lifecycle: proposed, active, retired, each step with its entry.
THEOREM AlwaysFollowsLifecycle == SerialSpec => FollowsLifecycle
<1>1. Init => Life!Init
  BY MovesOfEmpty DEF Init, Life!Init
<1>2. SerialInv /\ [SerialNext]_vars => Life!Next
  <2> SUFFICES ASSUME SerialInv, [SerialNext]_vars, NEW i \in Ids
               PROVE  Life!Rests(i) \/ Life!Remarks(i) \/ Life!Moves(i)
    BY DEF Life!Next
  <2>1. CASE StatusOf(i)' = StatusOf(i) /\ log'[i] = log[i]
    BY <2>1 DEF Life!Rests, MovesOf
  <2>2. ASSUME NEW e \in Entries, e.from = StatusOf(i), e.to = StatusOf(i)',
               log'[i] = Append(log[i], e)
        PROVE  MovesOf(log'[i]) = Append(MovesOf(log[i]), [from |-> StatusOf(i), to |-> StatusOf(i)'])
    BY <2>2, MovesOfAppend DEF SerialInv, TypeOK
  <2> QED
    BY <2>1, <2>2, StepFollows DEF Follows, Life!Remarks, Life!Moves, Life!Entry
<1> QED
  BY <1>1, <1>2, SerialAlways, PTL DEF SerialSpec, FollowsLifecycle, Life!Spec
=============================================================================
