---------------------------- MODULE HoldApproval ----------------------------
(***************************************************************************)
(* Quality holds: the approval of a hold and of its resumption, the        *)
(* append-only history of hold_status, and the question the WIP-aging KPIs *)
(* ask of it: was this hold aging work in process on day D?                *)
(*                                                                         *)
(* As in WorkOrders a request reads the row and decides in one step and    *)
(* commits what it decided in another; several requests can be between the *)
(* two.  Time is counted in days, the grain of every as-of query; within a *)
(* day the history is ordered by transition_id, its index here.            *)
(***************************************************************************)
EXTENDS Naturals, Sequences

CONSTANTS
  Holds,        \* primary keys of HOLD_ENTRY
  Sessions,     \* requests that can be in flight together
  MaxDay,       \* bound: the last day of an instance
  FutureDates,  \* whether a POST may carry a hold_date after today
  MaxLog        \* bound: history rows of one hold

ASSUME MaxDayAssumption == MaxDay \in Nat \ {0}
ASSUME FutureAssumption == FutureDates \in BOOLEAN
ASSUME MaxLogAssumption == MaxLog \in Nat

VARIABLES
  hold,     \* HOLD_ENTRY: the rows that exist
  log,      \* HOLD_STATUS_TRANSITION by hold, in transition_id order
  today,    \* the date of the server's clock
  session   \* for each request: what it will write, or NoPlan

vars == <<hold, log, today, session>>

Days == 1..MaxDay
NoDay == 0
NoStatus == "none"
HoldStatus == {"PENDING_HOLD_APPROVAL", "ON_HOLD", "PENDING_RESUME_APPROVAL", "RESUMED"}
Rows == [status : HoldStatus, date : Days, resume : Days \cup {NoDay}]
Transitions == [from : HoldStatus \cup {NoStatus}, to : HoldStatus, day : Days]
Plans == [hold : Holds, status : HoldStatus, resume : Days \cup {NoDay}, entry : Transitions]
NoPlan == [hold |-> "none"]

Exists == DOMAIN hold
Idle(s) == session[s] = NoPlan

-----------------------------------------------------------------------------
(* active_as_of: the one definition of "aging WIP on day D".               *)

NonWipStatuses == {"PENDING_HOLD_APPROVAL"}

\* The rows of history l that a query ORDER BY (transitioned_at, id) puts
\* last and first among the rows in S.
LastOf(l, S) == CHOOSE i \in S :
  \A j \in S : l[j].day < l[i].day \/ (l[j].day = l[i].day /\ j <= i)
FirstOf(l, S) == CHOOSE i \in S :
  \A j \in S : l[i].day < l[j].day \/ (l[j].day = l[i].day /\ i <= j)

\* Mutant of StatusAsOf: the present status stands for the past one.
StatusWithoutHistory(r, l, d) == r.status

\* The three tiers: the last transition up to day d, else what the first
\* later one replaced, else the present status.
StatusAsOf(r, l, d) ==
  LET before == {i \in DOMAIN l : l[i].day <= d}
      after == DOMAIN l \ before
  IN IF before # {} THEN l[LastOf(l, before)].to
     ELSE IF after # {} /\ l[FirstOf(l, after)].from # NoStatus
          THEN l[FirstOf(l, after)].from
          ELSE r.status

\* Mutant of ActiveAsOf: resume_date against the start of the day.
ActiveAtStartOfDay(r, l, d) ==
  /\ r.date <= d
  /\ r.resume = NoDay \/ r.resume >= d
  /\ StatusAsOf(r, l, d) \notin NonWipStatuses

ActiveAsOf(r, l, d) ==
  /\ r.date <= d
  /\ r.resume = NoDay \/ r.resume > d
  /\ StatusAsOf(r, l, d) \notin NonWipStatuses

-----------------------------------------------------------------------------
\* Rows written before the history table existed have no history.
LegacyRows == {r \in Rows : /\ r.date = 1
                            /\ r.resume = IF r.status = "RESUMED" THEN 1 ELSE NoDay}

Init ==
  /\ \E old \in SUBSET Holds : hold \in [old -> LegacyRows]
  /\ log = [h \in Holds |-> <<>>]
  /\ today = 1
  /\ session = [s \in Sessions |-> NoPlan]

\* POST /api/holds: a supervisor's hold is approved at once; the opening
\* transition carries the hold_date of the body, today when it has none.
Create(h, supervisor, date) ==
  LET status == IF supervisor THEN "ON_HOLD" ELSE "PENDING_HOLD_APPROVAL"
      row == [status |-> status, date |-> date, resume |-> NoDay]
  IN /\ h \notin Exists
     /\ date <= today \/ FutureDates
     /\ Len(log[h]) < MaxLog
     /\ hold' = [x \in Exists \cup {h} |-> IF x = h THEN row ELSE hold[x]]
     /\ log' = [log EXCEPT ![h] = Append(@, [from |-> NoStatus, to |-> status, day |-> date])]
     /\ UNCHANGED <<today, session>>

\* Mutant of Recorded: the transition is recorded after the assignment.
RecordedAfterwards(h, to, resume) ==
  [hold |-> h, status |-> to, resume |-> resume,
   entry |-> [from |-> to, to |-> to, day |-> today]]

\* record_hold_transition, then the columns set on the row, resume_date only
\* if it is not NoDay: one transaction.
Recorded(h, to, resume) ==
  [hold |-> h, status |-> to, resume |-> resume,
   entry |-> [from |-> hold[h].status, to |-> to, day |-> today]]

\* A request that requires one status and writes another.
Handle(s, h, from, to, resume) ==
  /\ Idle(s) /\ h \in Exists /\ hold[h].status = from
  /\ session' = [session EXCEPT ![s] = Recorded(h, to, resume)]
  /\ UNCHANGED <<hold, log, today>>

\* POST /api/holds/{id}/approve-hold
ApproveHold(s, h) ==
  Handle(s, h, "PENDING_HOLD_APPROVAL", "ON_HOLD", NoDay)

\* Mutant of RequestResume: a hold still to be approved is let through.
RequestResumeEarly(s, h) ==
  Handle(s, h, "PENDING_HOLD_APPROVAL", "PENDING_RESUME_APPROVAL", NoDay)

\* POST /api/holds/{id}/request-resume
RequestResume(s, h) ==
  Handle(s, h, "ON_HOLD", "PENDING_RESUME_APPROVAL", NoDay)

\* POST /api/holds/{id}/approve-resume
ApproveResume(s, h) ==
  Handle(s, h, "PENDING_RESUME_APPROVAL", "RESUMED", today)

\* Row r after the UPDATE of plan p: only the columns set are written.
Written(r, p) ==
  [status |-> p.status, date |-> r.date,
   resume |-> IF p.resume = NoDay THEN r.resume ELSE p.resume]

\* The UPDATE of the columns set and the INSERT of the transition.
Commit(s) ==
  LET p == session[s]
  IN /\ ~Idle(s)
     /\ Len(log[p.hold]) < MaxLog
     /\ hold' = [hold EXCEPT ![p.hold] = Written(@, p)]
     /\ log' = [log EXCEPT ![p.hold] = Append(@, p.entry)]
     /\ session' = [session EXCEPT ![s] = NoPlan]
     /\ UNCHANGED today

\* An error on the way: the session is closed and nothing is written.
Rollback(s) ==
  /\ ~Idle(s)
  /\ session' = [session EXCEPT ![s] = NoPlan]
  /\ UNCHANGED <<hold, log, today>>

\* Midnight.
NewDay ==
  /\ today < MaxDay
  /\ today' = today + 1
  /\ UNCHANGED <<hold, log, session>>

Next ==
  \/ \E h \in Holds, supervisor \in BOOLEAN, date \in Days : Create(h, supervisor, date)
  \/ \E s \in Sessions, h \in Holds :
       ApproveHold(s, h) \/ RequestResume(s, h) \/ ApproveResume(s, h)
  \/ \E s \in Sessions : Commit(s) \/ Rollback(s)
  \/ NewDay

Spec == Init /\ [][Next]_vars

\* The same program when no two requests in flight touch the same hold.
OneAtATime ==
  \A s, t \in Sessions :
    s # t /\ ~Idle(s) /\ ~Idle(t) => session[s].hold # session[t].hold

SerialNext == Next /\ OneAtATime'
SerialSpec == Init /\ [][SerialNext]_vars

-----------------------------------------------------------------------------
(* Properties.                                                             *)

\* Rows, history, clock and plans have the types of their columns.
TypeOK ==
  /\ Exists \subseteq Holds /\ hold \in [Exists -> Rows]
  /\ log \in [Holds -> Seq(Transitions)]
  /\ today \in Days
  /\ session \in [Sessions -> Plans \cup {NoPlan}]

\* However requests interleave, the last transition recorded for a hold is to
\* the status of its row ("the history cannot disagree with the hold row").
RowMatchesHistory ==
  \A h \in Exists : log[h] # <<>> => log[h][Len(log[h])].to = hold[h].status

\* When requests do not overlap on a hold, its history is a chain in time
\* along the approval path that ends in the status of its row, and a resume
\* date means resumed.
HistoryChains ==
  /\ RowMatchesHistory
  /\ \A h \in Exists :
       /\ \A i \in 2..Len(log[h]) : /\ log[h][i].from = log[h][i - 1].to
                                    /\ log[h][i].from # log[h][i].to
                                    /\ log[h][i - 1].day <= log[h][i].day
       /\ hold[h].resume # NoDay <=> hold[h].status = "RESUMED"

\* When requests do not overlap on a hold and no hold starts in the future,
\* the KPIs count today exactly the holds whose work has stopped: approved and
\* not yet resumed.  The query decides by dates and history, the row by its
\* status.
AgingAgrees ==
  \A h \in Exists :
    ActiveAsOf(hold[h], log[h], today) <=>
      hold[h].status \in {"ON_HOLD", "PENDING_RESUME_APPROVAL"}

\* Day d is over and no request decided on it or before is still to commit.
Settled(d) == d < today /\ \A s \in Sessions : ~Idle(s) => session[s].entry.day > d

\* Under the same conditions the KPI of a settled day never changes for a
\* hold that exists: what is approved today does not rewrite yesterday.
PastIsSettled ==
  [][\A h \in Exists : \A d \in Days :
       Settled(d) => (ActiveAsOf(hold'[h], log'[h], d) <=> ActiveAsOf(hold[h], log[h], d))]_vars

StatusOf(h) == IF h \in Exists THEN hold[h].status ELSE NoStatus

\* The approval path of a hold, its creation included.
Path == {<<NoStatus, "PENDING_HOLD_APPROVAL">>, <<NoStatus, "ON_HOLD">>,
         <<"PENDING_HOLD_APPROVAL", "ON_HOLD">>,
         <<"ON_HOLD", "PENDING_RESUME_APPROVAL">>,
         <<"PENDING_RESUME_APPROVAL", "RESUMED">>}

\* History l without its dates.
MovesOf(l) == [i \in 1..Len(l) |-> [from |-> l[i].from, to |-> l[i].to]]

Life == INSTANCE Lifecycle WITH
  Ids <- Holds, Arrows <- Path,
  status <- [h \in Holds |-> StatusOf(h)],
  history <- [h \in Holds |-> MovesOf(log[h])]

\* When requests do not overlap on a hold, reading, deciding and committing
\* apart cannot be told from doing it at once: no approval is skipped, given
\* twice or left out of the history.
FollowsLifecycle == Life!Spec
=============================================================================
