------------------------- MODULE HoldApprovalProofs -------------------------
(***************************************************************************)
(* Theorems about HoldApproval for every set of holds and sessions and     *)
(* every number of days.                                                   *)
(***************************************************************************)
EXTENDS HoldApproval, TLAPS

\* A session without a plan is told from one with a plan by the plan's columns.
LEMMA NoPlanIsNoPlan == NoPlan \notin Plans
BY DEF NoPlan, Plans

-----------------------------------------------------------------------------
(* Types.                                                                  *)

LEMMA TypeInitially == Init => TypeOK
BY MaxDayAssumption DEF Init, TypeOK, LegacyRows, Rows, Days, Exists

\* A created row and its opening transition are well typed.
LEMMA CreateTypes ==
  ASSUME TypeOK, NEW h \in Holds, NEW b \in BOOLEAN, NEW d \in Days, Create(h, b, d)
  PROVE  TypeOK'
<1> DEFINE status == IF b THEN "ON_HOLD" ELSE "PENDING_HOLD_APPROVAL"
<1>1. [status |-> status, date |-> d, resume |-> NoDay] \in Rows
  BY DEF Rows, HoldStatus
<1>2. [from |-> NoStatus, to |-> status, day |-> d] \in Transitions
  BY DEF Transitions, HoldStatus
<1>3. hold' \in [Exists \cup {h} -> Rows] /\ Exists' = Exists \cup {h}
  BY <1>1 DEF Create, TypeOK, Exists
<1>4. log' \in [Holds -> Seq(Transitions)]
  BY <1>2 DEF Create, TypeOK
<1> QED
  BY <1>3, <1>4 DEF Create, TypeOK, Exists

\* What a request decides is a plan about a row that exists.
LEMMA HandleTypes ==
  ASSUME TypeOK, NEW s \in Sessions, NEW h \in Holds,
         NEW from \in HoldStatus, NEW to \in HoldStatus, NEW resume \in Days \cup {NoDay},
         Handle(s, h, from, to, resume)
  PROVE  TypeOK' /\ session'[s] \in Plans
<1>1. hold[h] \in Rows
  BY DEF TypeOK, Handle
<1>2. Recorded(h, to, resume) \in Plans
  BY <1>1 DEF Recorded, Plans, Transitions, Rows, TypeOK
<1> QED
  BY <1>2 DEF Handle, TypeOK, Exists

\* The three requests, seen as one.
LEMMA HandlersHandle ==
  ASSUME TypeOK, NEW s \in Sessions, NEW h \in Holds,
         ApproveHold(s, h) \/ RequestResume(s, h) \/ ApproveResume(s, h)
  PROVE  \E from \in HoldStatus, to \in HoldStatus, resume \in Days \cup {NoDay} :
           /\ Handle(s, h, from, to, resume)
           /\ from # to /\ from # "RESUMED"
           /\ resume # NoDay <=> to = "RESUMED"
           /\ resume # NoDay => resume = today
<1>1. today # NoDay /\ today \in Days
  BY MaxDayAssumption DEF TypeOK, Days, NoDay
<1> QED
  BY <1>1 DEF ApproveHold, RequestResume, ApproveResume, HoldStatus

\* A commit writes a row of the same hold and appends one transition.
LEMMA CommitTypes ==
  ASSUME TypeOK, NEW s \in Sessions, Commit(s), session[s].hold \in Exists
  PROVE  TypeOK'
<1> DEFINE p == session[s]
<1>1. p \in Plans
  BY DEF TypeOK, Commit, Idle
<1>2. hold' \in [Exists -> Rows]
  BY <1>1 DEF Commit, TypeOK, Plans, Rows, Written
<1>3. log' \in [Holds -> Seq(Transitions)]
  BY <1>1 DEF Commit, TypeOK, Plans
<1>4. session' \in [Sessions -> Plans \cup {NoPlan}]
  BY DEF Commit, TypeOK
<1> QED
  BY <1>2, <1>3, <1>4 DEF Commit, TypeOK, Exists

\* Plans are about holds that exist: rows are never deleted.
PlansExist == \A s \in Sessions : ~Idle(s) => session[s].hold \in Exists

LEMMA TypedStep ==
  ASSUME TypeOK, PlansExist, [Next]_vars
  PROVE  TypeOK' /\ PlansExist'
<1>1. ASSUME NEW h \in Holds, NEW b \in BOOLEAN, NEW d \in Days, Create(h, b, d)
      PROVE  TypeOK' /\ PlansExist'
  <2>1. TypeOK'
    BY <1>1, CreateTypes
  <2>2. PlansExist'
    BY <1>1 DEF Create, PlansExist, Exists, Idle, NoPlan
  <2> QED BY <2>1, <2>2
<1>2. ASSUME NEW s \in Sessions, NEW h \in Holds,
             ApproveHold(s, h) \/ RequestResume(s, h) \/ ApproveResume(s, h)
      PROVE  TypeOK' /\ PlansExist'
  <2>1. PICK from \in HoldStatus, to \in HoldStatus, resume \in Days \cup {NoDay} :
          Handle(s, h, from, to, resume)
    BY <1>2, HandlersHandle
  <2>2. TypeOK'
    BY <2>1, HandleTypes
  <2>3. \A t \in Sessions : session'[t] = IF t = s THEN Recorded(h, to, resume) ELSE session[t]
    BY <2>1 DEF Handle, TypeOK
  <2>4. PlansExist'
    BY <2>1, <2>3 DEF Handle, Recorded, PlansExist, Exists, Idle
  <2> QED BY <2>2, <2>4
<1>3. ASSUME NEW s \in Sessions, Commit(s)
      PROVE  TypeOK' /\ PlansExist'
  <2>1. session[s].hold \in Exists
    BY <1>3 DEF Commit, PlansExist
  <2>2. TypeOK'
    BY <1>3, <2>1, CommitTypes
  <2>3. \A t \in Sessions : session'[t] = IF t = s THEN NoPlan ELSE session[t]
    BY <1>3 DEF Commit, TypeOK
  <2>4. Exists' = Exists
    BY <1>3 DEF Commit, Exists
  <2>5. PlansExist'
    BY <2>3, <2>4 DEF PlansExist, Idle
  <2> QED BY <2>2, <2>5
<1>4. ASSUME NEW s \in Sessions, Rollback(s)
      PROVE  TypeOK' /\ PlansExist'
  <2>1. \A t \in Sessions : session'[t] = IF t = s THEN NoPlan ELSE session[t]
    BY <1>4 DEF Rollback, TypeOK
  <2> QED
    BY <1>4, <2>1 DEF Rollback, TypeOK, PlansExist, Exists, Idle
<1>5. CASE NewDay
  BY <1>5, MaxDayAssumption DEF NewDay, TypeOK, PlansExist, Exists, Idle, Days
<1>6. CASE UNCHANGED vars
  BY <1>6 DEF vars, TypeOK, PlansExist, Exists, Idle
<1> QED
  BY <1>1, <1>2, <1>3, <1>4, <1>5, <1>6 DEF Next

LEMMA TypedInitially == Init => TypeOK /\ PlansExist
BY TypeInitially DEF Init, PlansExist, Idle

LEMMA AlwaysTyped == Spec => [](TypeOK /\ PlansExist)
<1>1. TypeOK /\ PlansExist /\ [Next]_vars => (TypeOK /\ PlansExist)'
  BY TypedStep
<1> QED
  BY TypedInitially, <1>1, PTL DEF Spec

\* Rows, histories, clock and plans keep their types under every interleaving
\* of requests (backend/routes/holds.py, backend/crud/hold/core.py).
THEOREM TypeCorrect == Spec => []TypeOK
BY AlwaysTyped, PTL

-----------------------------------------------------------------------------
(* The last transition recorded names the status of the row.               *)

\* The transition of a plan goes to the status the plan writes.
PlansHonest == \A s \in Sessions : ~Idle(s) => session[s].entry.to = session[s].status

LEMMA HonestStep ==
  ASSUME TypeOK, PlansExist, PlansHonest, RowMatchesHistory, [Next]_vars
  PROVE  PlansHonest' /\ RowMatchesHistory'
<1>1. ASSUME NEW h \in Holds, NEW b \in BOOLEAN, NEW d \in Days, Create(h, b, d)
      PROVE  PlansHonest' /\ RowMatchesHistory'
  <2>1. \A x \in Exists' : x # h => x \in Exists /\ hold'[x] = hold[x] /\ log'[x] = log[x]
    BY <1>1 DEF Create, TypeOK, Exists
  <2> DEFINE e == [from |-> NoStatus, to |-> hold'[h].status, day |-> d]
  <2>2. log'[h] = Append(log[h], e)
    BY <1>1 DEF Create, TypeOK
  <2>3. log'[h][Len(log'[h])].to = hold'[h].status
    BY <2>2 DEF TypeOK
  <2> QED
    BY <1>1, <2>1, <2>3 DEF Create, PlansHonest, RowMatchesHistory, Idle
<1>2. ASSUME NEW s \in Sessions, NEW h \in Holds,
             ApproveHold(s, h) \/ RequestResume(s, h) \/ ApproveResume(s, h)
      PROVE  PlansHonest' /\ RowMatchesHistory'
  <2>1. PICK from \in HoldStatus, to \in HoldStatus, resume \in Days \cup {NoDay} :
          Handle(s, h, from, to, resume)
    BY <1>2, HandlersHandle
  <2>2. \A t \in Sessions : session'[t] = IF t = s THEN Recorded(h, to, resume) ELSE session[t]
    BY <2>1 DEF Handle, TypeOK
  <2>3. PlansHonest'
    BY <2>2 DEF Recorded, PlansHonest, Idle
  <2> QED
    BY <2>1, <2>3 DEF Handle, RowMatchesHistory, Exists
<1>3. ASSUME NEW s \in Sessions, Commit(s)
      PROVE  PlansHonest' /\ RowMatchesHistory'
  <2> DEFINE p == session[s]
  <2>1. \A t \in Sessions : session'[t] = IF t = s THEN NoPlan ELSE session[t]
    BY <1>3 DEF Commit, TypeOK
  <2>2. p \in Plans /\ p.hold \in Exists /\ p.entry.to = p.status
    BY <1>3 DEF Commit, TypeOK, PlansExist, PlansHonest, Idle
  <2>3. /\ Exists' = Exists
        /\ hold'[p.hold].status = p.status
        /\ log'[p.hold] = Append(log[p.hold], p.entry)
        /\ \A h \in Exists : h # p.hold => hold'[h] = hold[h] /\ log'[h] = log[h]
    BY <1>3, <2>2 DEF Commit, TypeOK, Exists, Plans, Rows, Written
  <2>4. log'[p.hold][Len(log'[p.hold])] = p.entry
    BY <2>2, <2>3 DEF TypeOK
  <2> QED
    BY <2>1, <2>2, <2>3, <2>4 DEF PlansHonest, RowMatchesHistory, Idle
<1>4. ASSUME NEW s \in Sessions, Rollback(s)
      PROVE  PlansHonest' /\ RowMatchesHistory'
  <2>1. \A t \in Sessions : session'[t] = IF t = s THEN NoPlan ELSE session[t]
    BY <1>4 DEF Rollback, TypeOK
  <2> QED
    BY <1>4, <2>1 DEF Rollback, PlansHonest, RowMatchesHistory, Exists, Idle
<1>5. CASE NewDay
  BY <1>5 DEF NewDay, PlansHonest, RowMatchesHistory, Exists, Idle
<1>6. CASE UNCHANGED vars
  BY <1>6 DEF vars, PlansHonest, RowMatchesHistory, Exists, Idle
<1> QED
  BY <1>1, <1>2, <1>3, <1>4, <1>5, <1>6 DEF Next

\* Whatever the interleaving of requests, the last transition recorded for a
\* hold is to the status of its row (backend/crud/hold/transition_log.py).
THEOREM HistoryMatchesRow == Spec => []RowMatchesHistory
<1>1. Init => PlansHonest /\ RowMatchesHistory
  BY DEF Init, PlansHonest, RowMatchesHistory, Idle, Exists
<1>2. TypeOK /\ PlansExist /\ PlansHonest /\ RowMatchesHistory /\ [Next]_vars
        => (PlansHonest /\ RowMatchesHistory)'
  BY HonestStep
<1> QED
  BY <1>1, <1>2, AlwaysTyped, PTL DEF Spec

-----------------------------------------------------------------------------
(* Serialized requests and holds that begin no later than today.           *)

\* The history l of a hold that began on day d, as of day now: dated in order,
\* with NULL as from_status only on the row that records creation.  The last
\* conjunct says that a day cuts the history in two; it follows from the
\* order, and is carried along because deriving it takes induction.
Dated(l, d, now) ==
  /\ \A i \in 1..Len(l) : l[i].day <= now
  /\ \A i \in 1..Len(l) : \A j \in i..Len(l) : l[i].day <= l[j].day
  /\ \A i \in 1..Len(l) : l[i].from = NoStatus => i = 1 /\ l[i].day = d
  /\ \A i \in 2..Len(l) : l[i].from = l[i - 1].to /\ l[i].from # l[i].to
  /\ \A x \in Days : \E k \in 0..Len(l) : \A i \in 1..Len(l) : l[i].day <= x <=> i <= k

DatedHistories == \A h \in Exists : Dated(log[h], hold[h].date, today)

NoOrphans == \A h \in Holds \ Exists : log[h] = <<>>

RowsFit ==
  \A h \in Exists : /\ hold[h].date <= today /\ hold[h].resume <= today
                    /\ hold[h].resume # NoDay <=> hold[h].status = "RESUMED"

\* A plan was decided on the present row of its hold and after the last
\* transition of its history.
PlanFits(p) ==
  /\ hold[p.hold].status = p.entry.from /\ hold[p.hold].resume = NoDay
  /\ p.entry.from # p.entry.to
  /\ p.resume # NoDay <=> p.status = "RESUMED"
  /\ p.resume # NoDay => p.resume = p.entry.day
  /\ p.entry.day <= today
  /\ \A i \in 1..Len(log[p.hold]) : log[p.hold][i].day <= p.entry.day

PlansFit == \A s \in Sessions : ~Idle(s) => PlanFits(session[s])

\* The inductive invariant of SerialSpec.
SerialInv ==
  /\ TypeOK /\ PlansExist /\ PlansHonest /\ RowMatchesHistory
  /\ OneAtATime /\ DatedHistories /\ NoOrphans /\ RowsFit /\ PlansFit

\* A day cuts the history after one more transition.
LEMMA AppendDated ==
  ASSUME today \in Days, NEW l \in Seq(Transitions), NEW d \in Days, NEW e \in Transitions,
         Dated(l, d, today), e.day <= today,
         \A i \in 1..Len(l) : l[i].day <= e.day,
         e.from = NoStatus => l = <<>> /\ e.day = d,
         l # <<>> => e.from = l[Len(l)].to /\ e.from # e.to
  PROVE  Dated(Append(l, e), d, today)
<1> DEFINE m == Append(l, e)
<1>1. /\ m \in Seq(Transitions) /\ Len(m) = Len(l) + 1 /\ Len(l) \in Nat
      /\ m[Len(l) + 1] = e
      /\ \A i \in 1..Len(l) : m[i] = l[i] /\ l[i] \in Transitions
  OBVIOUS
<1>2. \A i \in 1..Len(m) : m[i].day <= today
  BY <1>1 DEF Dated
<1>3. \A i \in 1..Len(m) : \A j \in i..Len(m) : m[i].day <= m[j].day
  <2> SUFFICES ASSUME NEW i \in 1..Len(m), NEW j \in i..Len(m) PROVE m[i].day <= m[j].day
    OBVIOUS
  <2>0. e.day \in Nat
    BY MaxDayAssumption DEF Transitions, Days
  <2>2. CASE j <= Len(l)
    BY <1>1, <2>2 DEF Dated
  <2>3. CASE j = Len(l) + 1 /\ i <= Len(l)
    BY <1>1, <2>3
  <2>4. CASE j = Len(l) + 1 /\ i = Len(l) + 1
    BY <1>1, <2>0, <2>4
  <2> QED BY <1>1, <2>2, <2>3, <2>4
<1>4. \A i \in 1..Len(m) : m[i].from = NoStatus => i = 1 /\ m[i].day = d
  BY <1>1 DEF Dated
<1>5. \A i \in 2..Len(m) : m[i].from = m[i - 1].to /\ m[i].from # m[i].to
  <2> SUFFICES ASSUME NEW i \in 2..Len(m) PROVE m[i].from = m[i - 1].to /\ m[i].from # m[i].to
    OBVIOUS
  <2>1. CASE i = Len(l) + 1
    BY <1>1, <2>1
  <2>2. CASE i \in 2..Len(l)
    BY <1>1, <2>2 DEF Dated
  <2> QED BY <1>1, <2>1, <2>2
<1>6. ASSUME NEW x \in Days
      PROVE  \E k \in 0..Len(m) : \A i \in 1..Len(m) : m[i].day <= x <=> i <= k
  <2>1. PICK k \in 0..Len(l) : \A i \in 1..Len(l) : l[i].day <= x <=> i <= k
    BY DEF Dated
  <2>2. CASE e.day <= x
    <3>1. \A i \in 1..Len(l) : l[i].day <= x
      BY <2>2, <1>1 DEF Transitions, Days
    <3>2. \A i \in 1..Len(m) : m[i].day <= x <=> i <= Len(m)
      BY <2>2, <3>1, <1>1
    <3>3. Len(m) \in 0..Len(m)
      BY <1>1
    <3> HIDE DEF m
    <3> QED BY <3>2, <3>3
  <2>3. CASE ~(e.day <= x)
    <3>1. \A i \in 1..Len(m) : m[i].day <= x <=> i <= k
      BY <2>1, <2>3, <1>1
    <3>2. k \in 0..Len(m)
      BY <1>1
    <3> HIDE DEF m
    <3> QED BY <3>1, <3>2
  <2> QED BY <2>2, <2>3
<1> QED
  BY <1>2, <1>3, <1>4, <1>5, <1>6 DEF Dated

\* Where a day cuts a dated history decides its status as of that day.
LEMMA StatusByCut ==
  ASSUME NEW l \in Seq(Transitions), NEW d \in Days, NEW r \in Rows, Dated(l, d, today),
         NEW x \in Days, NEW k \in 0..Len(l),
         \A i \in 1..Len(l) : l[i].day <= x <=> i <= k
  PROVE  StatusAsOf(r, l, x) = IF k > 0 THEN l[k].to
                               ELSE IF l # <<>> /\ l[1].from # NoStatus THEN l[1].from
                               ELSE r.status
<1> DEFINE before == {i \in DOMAIN l : l[i].day <= x}
           after == DOMAIN l \ before
<1>0. DOMAIN l = 1..Len(l) /\ Len(l) \in Nat /\ \A i \in 1..Len(l) : l[i] \in Transitions
  OBVIOUS
<1>1. DOMAIN l = 1..Len(l) /\ Len(l) \in Nat /\ \A i \in 1..Len(l) : l[i].day \in Nat
  BY <1>0, MaxDayAssumption DEF Transitions, Days
<1>2. before = 1..k
  BY <1>1
<1>3. CASE k > 0
  <2>1. k \in before /\ \A j \in before : l[j].day < l[k].day \/ (l[j].day = l[k].day /\ j <= k)
    BY <1>1, <1>2, <1>3 DEF Dated
  <2>2. \A i \in before : (\A j \in before : l[j].day < l[i].day \/ (l[j].day = l[i].day /\ j <= i))
                            => i = k
    BY <1>1, <1>2, <1>3, <2>1 DEF Dated
  <2>3. LastOf(l, before) = k
    BY <2>1, <2>2 DEF LastOf
  <2> QED BY <1>3, <2>1, <2>3 DEF StatusAsOf
<1>4. CASE k = 0 /\ l # <<>>
  <2>1. before = {} /\ after = 1..Len(l) /\ Len(l) > 0
    BY <1>1, <1>2, <1>4
  <2>2. 1 \in after /\ \A j \in after : l[1].day < l[j].day \/ (l[j].day = l[1].day /\ 1 <= j)
    BY <1>1, <2>1, SMTT(30) DEF Dated
  <2>3. \A i \in after : (\A j \in after : l[i].day < l[j].day \/ (l[j].day = l[i].day /\ i <= j))
                           => i = 1
    BY <1>1, <2>1, <2>2 DEF Dated
  <2>4. FirstOf(l, after) = 1
    BY <2>2, <2>3 DEF FirstOf
  <2>5. StatusAsOf(r, l, x) = IF l[1].from # NoStatus THEN l[1].from ELSE r.status
    BY <2>1, <2>2, <2>4 DEF StatusAsOf
  <2> QED BY <1>4, <2>5
<1>5. CASE k = 0 /\ l = <<>>
  <2>1. before = {} /\ after = {}
    BY <1>5
  <2> QED BY <1>5, <2>1 DEF StatusAsOf
<1> QED BY <1>3, <1>4, <1>5

-----------------------------------------------------------------------------
(* The inductive invariant.                                                *)

LEMMA SerialInitially == ~FutureDates /\ Init => SerialInv
<1> SUFFICES ASSUME Init PROVE SerialInv
  OBVIOUS
<1>1. TypeOK /\ PlansExist
  BY TypedInitially
<1>2. \A s \in Sessions : Idle(s)
  BY DEF Init, Idle
<1>3. \A h \in Exists : hold[h] \in LegacyRows
  BY DEF Init, Exists
<1>4. PlansHonest /\ OneAtATime /\ PlansFit
  BY <1>2 DEF PlansHonest, OneAtATime, PlansFit
<1>5. RowsFit
  <2> SUFFICES ASSUME NEW h \in Exists
               PROVE  /\ hold[h].date <= today /\ hold[h].resume <= today
                      /\ hold[h].resume # NoDay <=> hold[h].status = "RESUMED"
    BY DEF RowsFit
  <2>1. /\ today = 1 /\ hold[h].date = 1
        /\ hold[h].resume = IF hold[h].status = "RESUMED" THEN 1 ELSE 0
    BY <1>3 DEF LegacyRows, Init, NoDay
  <2> QED BY <2>1 DEF NoDay
<1>6. RowMatchesHistory /\ NoOrphans
  BY <1>1 DEF RowMatchesHistory, NoOrphans, Init, TypeOK
<1>7. DatedHistories
  <2> SUFFICES ASSUME NEW h \in Exists PROVE Dated(<<>>, hold[h].date, today)
    BY <1>1 DEF DatedHistories, Init, TypeOK
  <2>1. Len(<<>>) = 0
    OBVIOUS
  <2> QED BY <2>1 DEF Dated
<1> QED
  BY <1>1, <1>4, <1>5, <1>6, <1>7 DEF SerialInv

\* Midnight leaves a dated history dated.
LEMMA DatedLater ==
  ASSUME today \in Days, today' \in Days, today <= today',
         NEW l \in Seq(Transitions), NEW d, Dated(l, d, today)
  PROVE  Dated(l, d, today')
<1>1. \A i \in 1..Len(l) : l[i] \in Transitions
  OBVIOUS
<1>2. \A i \in 1..Len(l) : l[i].day \in Nat
  BY <1>1, MaxDayAssumption DEF Transitions, Days
<1>3. today \in Nat /\ today' \in Nat
  BY MaxDayAssumption DEF Days
<1>4. \A i \in 1..Len(l) : l[i].day <= today'
  BY <1>2, <1>3 DEF Dated
<1> QED BY <1>4 DEF Dated

\* The part of the invariant each kind of step has to restore.
Serial == DatedHistories /\ NoOrphans /\ RowsFit /\ PlansFit

LEMMA CreateSerial ==
  ASSUME ~FutureDates, SerialInv, NEW h \in Holds, NEW b \in BOOLEAN, NEW d \in Days,
         Create(h, b, d)
  PROVE  Serial'
<1> DEFINE e == [from |-> NoStatus, to |-> hold'[h].status, day |-> d]
<1>1. /\ TypeOK /\ PlansExist /\ DatedHistories /\ NoOrphans /\ RowsFit /\ PlansFit
      /\ today \in Days
  BY DEF SerialInv, TypeOK
<1>2. /\ Exists' = Exists \cup {h} /\ h \notin Exists /\ today' = today /\ session' = session
      /\ \A x \in Exists : hold'[x] = hold[x]
      /\ \A x \in Holds : x # h => log'[x] = log[x]
      /\ log'[h] = Append(log[h], e)
      /\ hold'[h].date = d /\ hold'[h].resume = NoDay
      /\ hold'[h].status \in HoldStatus \ {"RESUMED"} /\ d <= today
  BY <1>1 DEF Create, Exists, TypeOK, HoldStatus
<1>3. log[h] = <<>> /\ e \in Transitions /\ e.day = d /\ e.from = NoStatus
  BY <1>1, <1>2 DEF NoOrphans, Transitions
<1>4. Dated(<<>>, d, today)
  <2>1. Len(<<>>) = 0
    OBVIOUS
  <2> QED BY <2>1 DEF Dated
<1>5. Dated(Append(<<>>, e), d, today)
  <2>1. <<>> \in Seq(Transitions) /\ Len(<<>>) = 0
    OBVIOUS
  <2>2. \A i \in 1..Len(<<>>) : <<>>[i].day <= e.day
    BY <2>1
  <2>3. e.day <= today /\ (e.from = NoStatus => <<>> = <<>> /\ e.day = d)
    BY <1>2, <1>3
  <2> HIDE DEF e
  <2> QED BY <1>1, <1>3, <1>4, <2>1, <2>2, <2>3, AppendDated
<1>6. DatedHistories'
  <2> SUFFICES ASSUME NEW x \in Exists' PROVE Dated(log'[x], hold'[x].date, today')
    BY DEF DatedHistories
  <2>1. CASE x = h
    BY <1>2, <1>3, <1>5, <2>1
  <2>2. CASE x # h
    <3>1. x \in Exists /\ x \in Holds /\ Dated(log[x], hold[x].date, today)
      BY <1>1, <1>2, <2>2 DEF DatedHistories, TypeOK
    <3> QED BY <1>2, <2>2, <3>1
  <2> QED BY <2>1, <2>2
<1>7. NoOrphans'
  BY <1>1, <1>2 DEF NoOrphans
<1>8. RowsFit'
  <2>1. NoDay <= today
    BY <1>1, MaxDayAssumption DEF Days, NoDay
  <2> QED BY <1>1, <1>2, <2>1 DEF RowsFit
<1>9. PlansFit'
  <2> SUFFICES ASSUME NEW s \in Sessions, ~Idle(s) PROVE PlanFits(session[s])'
    BY <1>2 DEF PlansFit, Idle
  <2>1. session[s].hold \in Exists /\ session[s].hold \in Holds /\ session[s].hold # h
    BY <1>1, <1>2 DEF PlansExist, TypeOK
  <2> QED BY <1>1, <1>2, <2>1 DEF PlansFit, PlanFits
<1> QED BY <1>6, <1>7, <1>8, <1>9 DEF Serial

LEMMA HandleSerial ==
  ASSUME SerialInv, NEW s \in Sessions, NEW h \in Holds,
         NEW from \in HoldStatus, NEW to \in HoldStatus, NEW resume \in Days \cup {NoDay},
         Handle(s, h, from, to, resume), from # to, from # "RESUMED",
         resume # NoDay <=> to = "RESUMED", resume # NoDay => resume = today
  PROVE  Serial'
<1>1. /\ TypeOK /\ DatedHistories /\ NoOrphans /\ RowsFit /\ PlansFit /\ today \in Nat
  BY MaxDayAssumption DEF SerialInv, TypeOK, Days
<1>2. /\ hold' = hold /\ log' = log /\ today' = today /\ Exists' = Exists
      /\ \A t \in Sessions : session'[t] = IF t = s THEN Recorded(h, to, resume) ELSE session[t]
      /\ h \in Exists /\ hold[h].status = from
  BY <1>1 DEF Handle, TypeOK, Exists
<1>3. DatedHistories' /\ NoOrphans' /\ RowsFit'
  BY <1>1, <1>2 DEF DatedHistories, NoOrphans, RowsFit
<1>4. PlanFits(Recorded(h, to, resume))
  <2>1. hold[h].resume = NoDay
    BY <1>1, <1>2 DEF RowsFit
  <2>2. \A i \in 1..Len(log[h]) : log[h][i].day <= today
    BY <1>1, <1>2 DEF DatedHistories, Dated
  <2> QED BY <1>1, <1>2, <2>1, <2>2 DEF PlanFits, Recorded
<1>5. PlansFit'
  <2> SUFFICES ASSUME NEW t \in Sessions, ~Idle(t)' PROVE PlanFits(session[t])'
    BY DEF PlansFit
  <2>1. CASE t = s
    BY <1>2, <1>4, <2>1 DEF PlanFits
  <2>2. CASE t # s
    <3>1. PlanFits(session[t])
      BY <1>1, <1>2, <2>2 DEF PlansFit, Idle
    <3> QED BY <1>2, <2>2, <3>1 DEF PlanFits
  <2> QED BY <2>1, <2>2
<1> QED BY <1>3, <1>5 DEF Serial

LEMMA CommitSerial ==
  ASSUME SerialInv, NEW s \in Sessions, Commit(s)
  PROVE  Serial'
<1> DEFINE p == session[s]
           h == session[s].hold
<1>1. /\ TypeOK /\ PlansExist /\ DatedHistories /\ NoOrphans /\ RowsFit /\ PlansFit /\ PlansHonest
      /\ RowMatchesHistory /\ OneAtATime /\ today \in Days
  BY DEF SerialInv, TypeOK
<1>2. ~Idle(s) /\ p \in Plans /\ h \in Exists /\ h \in Holds /\ PlanFits(p) /\ p.entry.to = p.status
  BY <1>1 DEF Commit, TypeOK, PlansExist, PlansFit, PlansHonest, Idle
<1>3. /\ Exists' = Exists /\ today' = today
      /\ hold'[h] = Written(hold[h], p) /\ log'[h] = Append(log[h], p.entry)
      /\ \A x \in Exists : x # h => hold'[x] = hold[x]
      /\ \A x \in Holds : x # h => log'[x] = log[x]
      /\ \A t \in Sessions : session'[t] = IF t = s THEN NoPlan ELSE session[t]
  BY <1>1, <1>2 DEF Commit, TypeOK, Exists
<1>4. /\ log[h] \in Seq(Transitions) /\ hold[h] \in Rows /\ p.entry \in Transitions
      /\ p.entry.day <= today /\ p.entry.from = hold[h].status /\ p.entry.from # p.entry.to
  BY <1>1, <1>2 DEF TypeOK, Plans, PlanFits
<1>5. Dated(Append(log[h], p.entry), hold[h].date, today)
  <2>1. Dated(log[h], hold[h].date, today)
    BY <1>1, <1>2 DEF DatedHistories
  <2>2. \A i \in 1..Len(log[h]) : log[h][i].day <= p.entry.day
    BY <1>2 DEF PlanFits
  <2>3. hold[h].date \in Days
    BY <1>4 DEF Rows
  <2>4. p.entry.from # NoStatus
    BY <1>4 DEF Rows, HoldStatus, NoStatus
  <2>5. log[h] # <<>> => p.entry.from = log[h][Len(log[h])].to
    BY <1>1, <1>2, <1>4 DEF RowMatchesHistory
  <2> HIDE DEF p, h
  <2> QED BY <1>1, <1>4, <2>1, <2>2, <2>3, <2>4, <2>5, AppendDated
<1>6. DatedHistories'
  <2> SUFFICES ASSUME NEW x \in Exists' PROVE Dated(log'[x], hold'[x].date, today')
    BY DEF DatedHistories
  <2>1. CASE x = h
    <3>1. hold'[h].date = hold[h].date
      BY <1>3 DEF Written
    <3> QED BY <1>3, <1>5, <2>1, <3>1
  <2>2. CASE x # h
    <3>1. x \in Exists /\ x \in Holds /\ Dated(log[x], hold[x].date, today)
      BY <1>1, <1>3, <2>2 DEF DatedHistories, TypeOK
    <3> QED BY <1>3, <2>2, <3>1
  <2> QED BY <2>1, <2>2
<1>7. NoOrphans'
  BY <1>1, <1>2, <1>3 DEF NoOrphans
<1>8. RowsFit'
  <2> SUFFICES ASSUME NEW x \in Exists'
               PROVE  /\ hold'[x].date <= today' /\ hold'[x].resume <= today'
                      /\ hold'[x].resume # NoDay <=> hold'[x].status = "RESUMED"
    BY DEF RowsFit
  <2>1. CASE x = h
    <3>1. /\ hold[h].date <= today /\ hold[h].resume = NoDay /\ NoDay <= today
      BY <1>1, <1>2, MaxDayAssumption DEF RowsFit, PlanFits, Days, NoDay
    <3>2. /\ hold'[h].date = hold[h].date /\ hold'[h].status = p.status
          /\ hold'[h].resume = p.resume
      BY <1>3, <3>1 DEF Written
    <3>3. /\ p.resume # NoDay <=> p.status = "RESUMED"
          /\ p.resume <= today
      BY <1>2, <1>4, <3>1 DEF PlanFits
    <3> QED BY <1>3, <2>1, <3>1, <3>2, <3>3
  <2>2. CASE x # h
    BY <1>1, <1>3, <2>2 DEF RowsFit
  <2> QED BY <2>1, <2>2
<1>9. PlansFit'
  <2> SUFFICES ASSUME NEW t \in Sessions, ~Idle(t)' PROVE PlanFits(session[t])'
    BY DEF PlansFit
  <2>1. t # s /\ session'[t] = session[t] /\ ~Idle(t)
    BY <1>3 DEF Idle
  <2>2. session[t].hold # h /\ session[t].hold \in Exists /\ session[t].hold \in Holds
    BY <1>1, <1>2, <2>1 DEF OneAtATime, PlansExist, TypeOK
  <2>3. PlanFits(session[t])
    BY <1>1, <2>1 DEF PlansFit
  <2> QED BY <1>3, <2>1, <2>2, <2>3 DEF PlanFits
<1> QED BY <1>6, <1>7, <1>8, <1>9 DEF Serial

LEMMA RollbackSerial ==
  ASSUME SerialInv, NEW s \in Sessions, Rollback(s)
  PROVE  Serial'
<1>1. TypeOK /\ DatedHistories /\ NoOrphans /\ RowsFit /\ PlansFit
  BY DEF SerialInv
<1>2. /\ hold' = hold /\ log' = log /\ today' = today /\ Exists' = Exists
      /\ \A t \in Sessions : session'[t] = IF t = s THEN NoPlan ELSE session[t]
  BY <1>1 DEF Rollback, TypeOK, Exists
<1>3. PlansFit'
  BY <1>1, <1>2 DEF PlansFit, PlanFits, Idle
<1> QED
  BY <1>1, <1>2, <1>3 DEF Serial, DatedHistories, NoOrphans, RowsFit

LEMMA NewDaySerial ==
  ASSUME SerialInv, NewDay
  PROVE  Serial'
<1>1. TypeOK /\ PlansExist /\ DatedHistories /\ NoOrphans /\ RowsFit /\ PlansFit
  BY DEF SerialInv
<1>2. /\ hold' = hold /\ log' = log /\ session' = session /\ Exists' = Exists
      /\ today \in Days /\ today' \in Days /\ today \in Nat /\ today' = today + 1
  BY <1>1, MaxDayAssumption DEF NewDay, TypeOK, Exists, Days
<1>3. DatedHistories'
  <2> SUFFICES ASSUME NEW h \in Exists PROVE Dated(log[h], hold[h].date, today')
    BY <1>2 DEF DatedHistories
  <2>1. log[h] \in Seq(Transitions) /\ Dated(log[h], hold[h].date, today)
    BY <1>1 DEF DatedHistories, TypeOK
  <2> QED BY <1>2, <2>1, DatedLater
<1>4. RowsFit'
  <2>1. \A h \in Exists : hold[h].date \in Nat /\ hold[h].resume \in Nat
    BY <1>1, MaxDayAssumption DEF TypeOK, Rows, Days, NoDay
  <2> QED BY <1>1, <1>2, <2>1 DEF RowsFit
<1>5. PlansFit'
  <2> SUFFICES ASSUME NEW s \in Sessions, ~Idle(s) PROVE PlanFits(session[s])'
    BY <1>2 DEF PlansFit, Idle
  <2>1. PlanFits(session[s]) /\ session[s].entry.day \in Nat
    BY <1>1, MaxDayAssumption DEF PlansFit, TypeOK, Plans, Transitions, Days, Idle
  <2> QED BY <1>2, <2>1 DEF PlanFits
<1> QED
  BY <1>1, <1>2, <1>3, <1>4, <1>5 DEF Serial, NoOrphans

LEMMA SerialStep ==
  ASSUME ~FutureDates, SerialInv, [SerialNext]_vars
  PROVE  SerialInv'
<1>1. TypeOK /\ PlansExist /\ PlansHonest /\ RowMatchesHistory /\ [Next]_vars
  BY DEF SerialInv, SerialNext
<1>2. TypeOK' /\ PlansExist' /\ PlansHonest' /\ RowMatchesHistory'
  BY <1>1, TypedStep, HonestStep
<1>3. OneAtATime'
  <2>1. CASE UNCHANGED vars
    BY <2>1 DEF vars, SerialInv, OneAtATime, Idle
  <2> QED BY <2>1 DEF SerialNext
<1>4. Serial'
  <2>1. ASSUME NEW h \in Holds, NEW b \in BOOLEAN, NEW d \in Days, Create(h, b, d)
        PROVE  Serial'
    BY <2>1, CreateSerial
  <2>2. ASSUME NEW s \in Sessions, NEW h \in Holds,
               ApproveHold(s, h) \/ RequestResume(s, h) \/ ApproveResume(s, h)
        PROVE  Serial'
    BY <1>1, <2>2, HandlersHandle, HandleSerial
  <2>3. ASSUME NEW s \in Sessions, Commit(s) \/ Rollback(s)
        PROVE  Serial'
    BY <2>3, CommitSerial, RollbackSerial
  <2>4. CASE NewDay
    BY <2>4, NewDaySerial
  <2>5. CASE UNCHANGED vars
    BY <2>5 DEF vars, SerialInv, Serial, DatedHistories, NoOrphans, RowsFit, PlansFit, PlanFits,
                Exists, Idle
  <2> QED BY <2>1, <2>2, <2>3, <2>4, <2>5 DEF SerialNext, Next
<1> QED BY <1>2, <1>3, <1>4 DEF SerialInv, Serial

LEMMA AlwaysSerial == ASSUME ~FutureDates PROVE SerialSpec => []SerialInv
<1>1. Init => SerialInv
  BY SerialInitially
<1>2. SerialInv /\ [SerialNext]_vars => SerialInv'
  BY SerialStep
<1> QED
  BY <1>1, <1>2, PTL DEF SerialSpec

-----------------------------------------------------------------------------
(* What the invariant gives.                                               *)

LEMMA SerialChains == SerialInv => HistoryChains
<1> SUFFICES ASSUME SerialInv, NEW h \in Exists
             PROVE  /\ \A i \in 2..Len(log[h]) : /\ log[h][i].from = log[h][i - 1].to
                                                 /\ log[h][i].from # log[h][i].to
                                                 /\ log[h][i - 1].day <= log[h][i].day
                    /\ hold[h].resume # NoDay <=> hold[h].status = "RESUMED"
  BY DEF HistoryChains, SerialInv
<1>1. Dated(log[h], hold[h].date, today) /\ Len(log[h]) \in Nat
  BY DEF SerialInv, DatedHistories, TypeOK
<1>2. \A i \in 2..Len(log[h]) : i - 1 \in 1..Len(log[h]) /\ i \in (i - 1)..Len(log[h])
  BY <1>1
<1>3. \A i \in 2..Len(log[h]) : log[h][i - 1].day <= log[h][i].day
  BY <1>1, <1>2 DEF Dated
<1> QED
  BY <1>1, <1>3 DEF SerialInv, RowsFit, Dated

\* The history of a hold, in the order of requests that do not overlap, is a
\* chain in time along the approval path (backend/crud/hold/transition_log.py).
THEOREM HistoryAlwaysChains == ASSUME ~FutureDates PROVE SerialSpec => []HistoryChains
BY AlwaysSerial, SerialChains, PTL

LEMMA SerialAging == SerialInv => AgingAgrees
<1> SUFFICES ASSUME SerialInv, NEW h \in Exists
             PROVE  ActiveAsOf(hold[h], log[h], today) <=>
                      hold[h].status \in {"ON_HOLD", "PENDING_RESUME_APPROVAL"}
  BY DEF AgingAgrees
<1> DEFINE l == log[h]
<1>1. /\ l \in Seq(Transitions) /\ hold[h] \in Rows /\ hold[h].date \in Days /\ today \in Days
      /\ Len(l) \in Nat /\ Dated(l, hold[h].date, today)
  BY DEF SerialInv, TypeOK, DatedHistories, Rows
<1>2. \A i \in 1..Len(l) : l[i].day <= today <=> i <= Len(l)
  BY <1>1 DEF Dated
<1>3. Len(l) \in 0..Len(l)
  BY <1>1
<1>4. StatusAsOf(hold[h], l, today) = hold[h].status
  <2>1. StatusAsOf(hold[h], l, today) = IF Len(l) > 0 THEN l[Len(l)].to
                                        ELSE IF l # <<>> /\ l[1].from # NoStatus THEN l[1].from
                                        ELSE hold[h].status
    <3> HIDE DEF l
    <3> QED BY <1>1, <1>2, <1>3, StatusByCut
  <2>2. Len(l) > 0 <=> l # <<>>
    BY <1>1
  <2>3. l # <<>> => l[Len(l)].to = hold[h].status
    BY DEF SerialInv, RowMatchesHistory
  <2> QED BY <2>1, <2>2, <2>3
<1>5. /\ hold[h].date <= today
      /\ (hold[h].resume = NoDay \/ hold[h].resume > today) <=> hold[h].status # "RESUMED"
  BY <1>1, MaxDayAssumption DEF SerialInv, RowsFit, Rows, Days, NoDay
<1> QED
  BY <1>1, <1>4, <1>5 DEF ActiveAsOf, NonWipStatuses, Rows, HoldStatus

\* The WIP-aging KPIs count today exactly the holds approved and not yet
\* resumed (active_as_of in backend/calculations/wip_aging.py).
THEOREM AgingAlwaysAgrees == ASSUME ~FutureDates PROVE SerialSpec => []AgingAgrees
BY AlwaysSerial, SerialAging, PTL

\* A transition dated after day x leaves the status as of day x.
LEMMA AppendKeepsStatus ==
  ASSUME today \in Days, NEW l \in Seq(Transitions), NEW d \in Days, NEW e \in Transitions,
         NEW r \in Rows, NEW r2 \in Rows,
         Dated(l, d, today), Dated(Append(l, e), d, today),
         NEW x \in Days, d <= x, x < e.day, e.from = r.status
  PROVE  StatusAsOf(r2, Append(l, e), x) = StatusAsOf(r, l, x)
<1> DEFINE m == Append(l, e)
<1>1. /\ m \in Seq(Transitions) /\ Len(m) = Len(l) + 1 /\ Len(l) \in Nat
      /\ m[Len(l) + 1] = e
      /\ \A i \in 1..Len(l) : m[i] = l[i]
  OBVIOUS
<1>2. PICK k \in 0..Len(l) : \A i \in 1..Len(l) : l[i].day <= x <=> i <= k
  BY DEF Dated
<1>3. k \in 0..Len(m) /\ \A i \in 1..Len(m) : m[i].day <= x <=> i <= k
  <2>1. ~(e.day <= x)
    BY MaxDayAssumption DEF Transitions, Days
  <2> QED BY <1>1, <1>2, <2>1
<1>4. StatusAsOf(r, l, x) = IF k > 0 THEN l[k].to
                            ELSE IF l # <<>> /\ l[1].from # NoStatus THEN l[1].from
                            ELSE r.status
  BY <1>2, StatusByCut
<1>5. StatusAsOf(r2, m, x) = IF k > 0 THEN m[k].to
                             ELSE IF m # <<>> /\ m[1].from # NoStatus THEN m[1].from
                             ELSE r2.status
  <2>1. Dated(m, d, today)
    OBVIOUS
  <2> HIDE DEF m
  <2> QED BY <1>1, <1>3, <2>1, StatusByCut
<1>6. e.from # NoStatus /\ m # <<>>
  BY <1>1 DEF Rows, HoldStatus, NoStatus
<1>7. CASE k > 0
  BY <1>1, <1>4, <1>5, <1>7
<1>8. CASE k = 0 /\ l = <<>>
  BY <1>1, <1>4, <1>5, <1>6, <1>8
<1>9. CASE k = 0 /\ l # <<>>
  <2>1. 1 \in 1..Len(l) /\ m[1] = l[1]
    BY <1>1, <1>9
  <2>2. ~(l[1].day <= x)
    BY <1>2, <1>9, <2>1
  <2>3. l[1].from # NoStatus
    BY <2>1, <2>2 DEF Dated
  <2> QED BY <1>4, <1>5, <1>6, <1>9, <2>1, <2>3
<1> QED BY <1>2, <1>7, <1>8, <1>9

LEMMA SettledStep ==
  ASSUME SerialInv, SerialInv', [SerialNext]_vars, NEW h \in Exists, NEW x \in Days, Settled(x)
  PROVE  ActiveAsOf(hold'[h], log'[h], x) <=> ActiveAsOf(hold[h], log[h], x)
<1>1. CASE hold'[h] = hold[h] /\ log'[h] = log[h]
  BY <1>1
<1>2. ASSUME NEW s \in Sessions, Commit(s), session[s].hold = h
      PROVE  ActiveAsOf(hold'[h], log'[h], x) <=> ActiveAsOf(hold[h], log[h], x)
  <2> DEFINE p == session[s]
             l == log[h]
             e == session[s].entry
  <2>1. /\ ~Idle(s) /\ p \in Plans /\ PlanFits(p) /\ e \in Transitions /\ x < e.day
        /\ h \in Holds /\ l \in Seq(Transitions) /\ hold[h] \in Rows /\ today \in Days
        /\ hold[h].date \in Days /\ Dated(l, hold[h].date, today)
    BY <1>2 DEF Commit, SerialInv, TypeOK, PlansFit, Plans, Settled, DatedHistories, Rows, Idle
  <2>2. /\ hold'[h] = Written(hold[h], p) /\ log'[h] = Append(l, e) /\ today' = today
        /\ h \in Exists' /\ hold'[h].date = hold[h].date /\ hold'[h] \in Rows
    BY <1>2, <2>1 DEF Commit, SerialInv, TypeOK, Exists, Written
  <2>3. Dated(Append(l, e), hold[h].date, today)
    BY <2>2 DEF SerialInv, DatedHistories
  <2>4. e.from = hold[h].status
    BY <1>2, <2>1 DEF PlanFits
  <2>5. hold[h].date <= x => StatusAsOf(hold'[h], log'[h], x) = StatusAsOf(hold[h], l, x)
    <3> SUFFICES ASSUME hold[h].date <= x
                 PROVE  StatusAsOf(hold'[h], Append(l, e), x) = StatusAsOf(hold[h], l, x)
      BY <2>2
    <3> DEFINE new == hold'[h]
    <3>1. new \in Rows
      BY <2>2
    <3> HIDE DEF l, e, new
    <3>2. StatusAsOf(new, Append(l, e), x) = StatusAsOf(hold[h], l, x)
      BY <2>1, <2>3, <2>4, <3>1, AppendKeepsStatus
    <3> QED BY <3>2 DEF new
  <2>6. /\ hold[h].resume = NoDay
        /\ hold'[h].resume = NoDay \/ hold'[h].resume > x
    <3>1. hold[h].resume = NoDay /\ (p.resume # NoDay => p.resume = e.day)
      BY <1>2, <2>1 DEF PlanFits
    <3> QED BY <2>1, <2>2, <3>1, MaxDayAssumption DEF Written, Transitions, Days
  <2> QED BY <2>2, <2>5, <2>6 DEF ActiveAsOf
<1>3. \/ hold'[h] = hold[h] /\ log'[h] = log[h]
      \/ \E s \in Sessions : Commit(s) /\ session[s].hold = h
  <2>1. TypeOK /\ h \in Holds
    BY DEF SerialInv, TypeOK
  <2>2. ASSUME NEW g \in Holds, NEW b \in BOOLEAN, NEW d \in Days, Create(g, b, d)
        PROVE  hold'[h] = hold[h] /\ log'[h] = log[h]
    BY <2>1, <2>2 DEF Create, TypeOK, Exists
  <2>3. ASSUME NEW s \in Sessions, Commit(s), session[s].hold # h
        PROVE  hold'[h] = hold[h] /\ log'[h] = log[h]
    BY <2>1, <2>3 DEF Commit, TypeOK, Exists
  <2>4. ASSUME NEW s \in Sessions, NEW g \in Holds,
               ApproveHold(s, g) \/ RequestResume(s, g) \/ ApproveResume(s, g)
        PROVE  hold'[h] = hold[h] /\ log'[h] = log[h]
    BY <2>4 DEF ApproveHold, RequestResume, ApproveResume, Handle
  <2>5. CASE NewDay
    BY <2>5 DEF NewDay
  <2>6. ASSUME NEW s \in Sessions, Rollback(s)
        PROVE  hold'[h] = hold[h] /\ log'[h] = log[h]
    BY <2>6 DEF Rollback
  <2>7. CASE UNCHANGED vars
    BY <2>7 DEF vars
  <2> QED BY <2>2, <2>3, <2>4, <2>5, <2>6, <2>7 DEF SerialNext, Next
<1> QED BY <1>1, <1>2, <1>3

\* What the KPIs say of a settled day never changes for a hold that exists
\* (the history exists so that past dates are not judged by current state:
\* backend/orm/hold_status_transition.py).
THEOREM PastStaysSettled == ASSUME ~FutureDates PROVE SerialSpec => PastIsSettled
<1>1. SerialInv /\ SerialInv' /\ [SerialNext]_vars =>
        [\A h \in Exists : \A d \in Days :
           Settled(d) => (ActiveAsOf(hold'[h], log'[h], d) <=> ActiveAsOf(hold[h], log[h], d))]_vars
  BY SettledStep
<1> QED
  BY <1>1, AlwaysSerial, PTL DEF SerialSpec, PastIsSettled

-----------------------------------------------------------------------------
(* Refinement: the serialized program implements Lifecycle.                *)

LEMMA MovesOfEmpty == MovesOf(<<>>) = <<>>
BY DEF MovesOf

LEMMA MovesOfAppend ==
  ASSUME NEW l \in Seq(Transitions), NEW e \in Transitions
  PROVE  MovesOf(Append(l, e)) = Append(MovesOf(l), [from |-> e.from, to |-> e.to])
<1> DEFINE m == [from |-> e.from, to |-> e.to]
           g == Append(l, e)
<1>1. Len(l) \in Nat /\ Len(g) = Len(l) + 1 /\ g[Len(l) + 1] = e /\ \A n \in 1..Len(l) : g[n] = l[n]
  OBVIOUS
<1>2. /\ MovesOf(l) \in Seq({[from |-> x.from, to |-> x.to] : x \in Transitions})
      /\ Len(MovesOf(l)) = Len(l)
  BY DEF MovesOf
<1>3. /\ Len(Append(MovesOf(l), m)) = Len(l) + 1
      /\ DOMAIN Append(MovesOf(l), m) = 1..(Len(l) + 1)
      /\ Append(MovesOf(l), m) = [n \in 1..(Len(l) + 1) |-> Append(MovesOf(l), m)[n]]
      /\ Append(MovesOf(l), m)[Len(l) + 1] = m
      /\ \A n \in 1..Len(l) : Append(MovesOf(l), m)[n] = MovesOf(l)[n]
  BY <1>1, <1>2
<1>4. \A n \in 1..(Len(l) + 1) : MovesOf(g)[n] = Append(MovesOf(l), m)[n]
  BY <1>1, <1>3 DEF MovesOf
<1>5. MovesOf(g) = [n \in 1..(Len(l) + 1) |-> MovesOf(g)[n]]
  BY <1>1 DEF MovesOf
<1> QED
  BY <1>3, <1>4, <1>5

\* Every plan in flight takes one arrow of the approval path.
PlansOnPath ==
  \A s \in Sessions : ~Idle(s) => <<session[s].entry.from, session[s].entry.to>> \in Path

LEMMA HandlersOnPath ==
  ASSUME TypeOK, NEW s \in Sessions, NEW h \in Holds,
         ApproveHold(s, h) \/ RequestResume(s, h) \/ ApproveResume(s, h)
  PROVE  /\ UNCHANGED <<hold, log, today>>
         /\ \E p : /\ session' = [t \in Sessions |-> IF t = s THEN p ELSE session[t]]
                  /\ <<p.entry.from, p.entry.to>> \in Path
<1>1. PICK from \in HoldStatus, to \in HoldStatus, resume \in Days \cup {NoDay} :
        Handle(s, h, from, to, resume) /\ <<from, to>> \in Path
  BY MaxDayAssumption DEF ApproveHold, RequestResume, ApproveResume, Path, HoldStatus, TypeOK
<1> DEFINE p == Recorded(h, to, resume)
<1>2. /\ UNCHANGED <<hold, log, today>> /\ p.entry.from = from /\ p.entry.to = to
      /\ session' = [t \in Sessions |-> IF t = s THEN p ELSE session[t]]
  BY <1>1 DEF Handle, Recorded, TypeOK
<1> QED
  BY <1>1, <1>2

LEMMA OnPathStep ==
  ASSUME TypeOK, PlansOnPath, [Next]_vars
  PROVE  PlansOnPath'
<1>1. ASSUME NEW s \in Sessions, NEW h \in Holds,
             ApproveHold(s, h) \/ RequestResume(s, h) \/ ApproveResume(s, h)
      PROVE  PlansOnPath'
  <2>1. PICK p : /\ session' = [t \in Sessions |-> IF t = s THEN p ELSE session[t]]
                 /\ <<p.entry.from, p.entry.to>> \in Path
    BY <1>1, HandlersOnPath
  <2> QED
    BY <2>1 DEF PlansOnPath, Idle
<1>2. ASSUME NEW s \in Sessions, Commit(s) \/ Rollback(s)
      PROVE  PlansOnPath'
  <2>1. session' = [t \in Sessions |-> IF t = s THEN NoPlan ELSE session[t]]
    BY <1>2 DEF Commit, Rollback, TypeOK
  <2> QED
    BY <2>1 DEF PlansOnPath, Idle
<1>3. ASSUME session' = session PROVE PlansOnPath'
  BY <1>3 DEF PlansOnPath, Idle
<1>4. ASSUME NEW h \in Holds, NEW b \in BOOLEAN, NEW d \in Days, Create(h, b, d)
      PROVE  session' = session
  BY <1>4 DEF Create
<1> QED
  BY <1>1, <1>2, <1>3, <1>4 DEF Next, NewDay, vars

LEMMA AlwaysOnPath ==
  ASSUME ~FutureDates
  PROVE  SerialSpec => [](SerialInv /\ PlansOnPath)
<1>1. Init => PlansOnPath
  BY DEF Init, PlansOnPath, Idle
<1>2. SerialInv /\ PlansOnPath /\ [SerialNext]_vars => PlansOnPath'
  BY OnPathStep DEF SerialInv, SerialNext
<1> QED
  BY <1>1, <1>2, AlwaysSerial, PTL DEF SerialSpec

\* What a step does to one hold, in the terms of Lifecycle.
Follows(h) ==
  \/ StatusOf(h)' = StatusOf(h) /\ log'[h] = log[h]
  \/ \E e \in Transitions :
       /\ e.from = StatusOf(h) /\ e.to = StatusOf(h)' /\ <<e.from, e.to>> \in Path
       /\ log'[h] = Append(log[h], e)

LEMMA StepFollows ==
  ASSUME SerialInv, PlansOnPath, [SerialNext]_vars, NEW h \in Holds
  PROVE  Follows(h)
<1>1. ASSUME NEW x \in Holds, NEW b \in BOOLEAN, NEW d \in Days, Create(x, b, d)
      PROVE  Follows(h)
  <2> DEFINE st == IF b THEN "ON_HOLD" ELSE "PENDING_HOLD_APPROVAL"
             e == [from |-> NoStatus, to |-> st, day |-> d]
  <2>1. /\ x \notin Exists /\ log' = [log EXCEPT ![x] = Append(@, e)]
        /\ hold' = [y \in Exists \cup {x} |->
                     IF y = x THEN [status |-> st, date |-> d, resume |-> NoDay] ELSE hold[y]]
        /\ e \in Transitions /\ <<e.from, e.to>> \in Path
    BY <1>1 DEF Create, Transitions, HoldStatus, Path
  <2>2. CASE h = x
    <3>1. StatusOf(h) = NoStatus /\ StatusOf(h)' = st /\ log'[h] = Append(log[h], e)
      BY <2>1, <2>2 DEF StatusOf, Exists, SerialInv, TypeOK
    <3> QED
      BY <2>1, <3>1 DEF Follows
  <2>3. CASE h # x
    BY <2>1, <2>3 DEF Follows, StatusOf, Exists, SerialInv, TypeOK
  <2> QED
    BY <2>2, <2>3
<1>2. ASSUME NEW s \in Sessions, NEW x \in Holds,
             ApproveHold(s, x) \/ RequestResume(s, x) \/ ApproveResume(s, x)
      PROVE  Follows(h)
  BY <1>2, HandlersOnPath DEF SerialInv, Follows, StatusOf, Exists
<1>3. ASSUME NEW s \in Sessions, Commit(s) PROVE Follows(h)
  <2> DEFINE p == session[s]
  <2>1. /\ ~Idle(s) /\ p \in Plans /\ p.hold \in Exists /\ PlanFits(p) /\ p.entry.to = p.status
        /\ <<p.entry.from, p.entry.to>> \in Path /\ p.entry \in Transitions
    BY <1>3 DEF Commit, SerialInv, TypeOK, PlansExist, PlansFit, PlansHonest, PlansOnPath, Idle, Plans
  <2>2. /\ hold' = [hold EXCEPT ![p.hold] = Written(hold[p.hold], p)]
        /\ log' = [log EXCEPT ![p.hold] = Append(log[p.hold], p.entry)]
    BY <1>3 DEF Commit
  <2>3. CASE h = p.hold
    <3>1. StatusOf(h) = p.entry.from /\ StatusOf(h)' = p.entry.to /\ log'[h] = Append(log[h], p.entry)
      BY <2>1, <2>2, <2>3 DEF StatusOf, Exists, SerialInv, TypeOK, Written, PlanFits
    <3> QED
      BY <2>1, <3>1 DEF Follows
  <2>4. CASE h # p.hold
    BY <2>1, <2>2, <2>4 DEF Follows, StatusOf, Exists, SerialInv, TypeOK
  <2> QED
    BY <2>3, <2>4
<1>4. ASSUME hold' = hold, log' = log PROVE Follows(h)
  BY <1>4 DEF Follows, StatusOf, Exists
<1> QED
  BY <1>1, <1>2, <1>3, <1>4 DEF SerialNext, Next, Rollback, NewDay, vars

\* When requests do not overlap on a hold and none starts in the future, the
\* program implements Lifecycle along the approval path.
THEOREM AlwaysFollowsLifecycle ==
  ASSUME ~FutureDates
  PROVE  SerialSpec => FollowsLifecycle
<1>1. Init => Life!Init
  BY MovesOfEmpty DEF Init, Life!Init
<1>2. SerialInv /\ PlansOnPath /\ [SerialNext]_vars => Life!Next
  <2> SUFFICES ASSUME SerialInv, PlansOnPath, [SerialNext]_vars, NEW h \in Holds
               PROVE  Life!Rests(h) \/ Life!Remarks(h) \/ Life!Moves(h)
    BY DEF Life!Next
  <2>1. CASE StatusOf(h)' = StatusOf(h) /\ log'[h] = log[h]
    BY <2>1 DEF Life!Rests, MovesOf
  <2>2. ASSUME NEW e \in Transitions, e.from = StatusOf(h), e.to = StatusOf(h)',
               log'[h] = Append(log[h], e)
        PROVE  MovesOf(log'[h]) = Append(MovesOf(log[h]), [from |-> StatusOf(h), to |-> StatusOf(h)'])
    BY <2>2, MovesOfAppend DEF SerialInv, TypeOK
  <2> QED
    BY <2>1, <2>2, StepFollows DEF Follows, Life!Moves, Life!Entry
<1> QED
  BY <1>1, <1>2, AlwaysOnPath, PTL DEF SerialSpec, FollowsLifecycle, Life!Spec
=============================================================================
