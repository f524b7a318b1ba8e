------------------------------ MODULE EventBus ------------------------------
(***************************************************************************)
(* The domain-event bus of one worker process: requests collect events     *)
(* while their transaction is open; after_commit flushes what is collected *)
(* and after_rollback discards it.                                         *)
(*                                                                         *)
(* The bus is a singleton with one list for all the threads of the worker, *)
(* and a flush is not atomic: it copies the list, clears it, then persists *)
(* each event in a session of its own and dispatches it.  That session has *)
(* the same hooks, so persisting an event flushes again, inside the flush. *)
(* The hooks are listeners that something has to install (Hooked).         *)
(***************************************************************************)
EXTENDS Naturals, Sequences, SequencesExt

CONSTANTS
  Requests,     \* the transactions of a run, one per request
  MaxEvents,    \* bound: events one transaction collects
  Hooked        \* whether setup_session_hooks was called

ASSUME MaxEventsAssumption == MaxEvents \in Nat
ASSUME HookedAssumption == Hooked \in BOOLEAN

VARIABLES
  collected,  \* EventBus._collected_events
  stored,     \* the events in EVENT_STORE
  handled,    \* the events dispatched to the handlers, in order
  phase,      \* of each transaction: "open", "committed", "failed" or "closed"
  sent,       \* how many events each transaction has collected
  frames,     \* the activations of flush_collected of each thread, innermost last
  calm        \* bookkeeping: up to now transactions have not overlapped, each has
              \* ended in a commit or a rollback, and EVENT_STORE and the process
              \* have not failed

vars == <<collected, stored, handled, phase, sent, frames, calm>>

Events == {<<r, n>> : r \in Requests, n \in 1..MaxEvents}

\* An activation of flush_collected: its copy of the list and where it is.
Frames == [todo : Seq(Events), at : {"copy", "clear", "next", "dispatch"}]
Entered == [todo |-> <<>>, at |-> "copy"]

Flushing(r) == frames[r] # <<>>
InFlight(r) == Flushing(r) \/ (phase[r] = "open" /\ sent[r] > 0)
Alone(r) == \A q \in Requests \ {r} : ~InFlight(q)

-----------------------------------------------------------------------------
Init ==
  /\ collected = <<>> /\ stored = {} /\ handled = <<>>
  /\ phase = [r \in Requests |-> "open"]
  /\ sent = [r \in Requests |-> 0]
  /\ frames = [r \in Requests |-> <<>>]
  /\ calm = TRUE

\* A service calls event_bus.collect before it commits.
Collect(r) ==
  /\ phase[r] = "open" /\ sent[r] < MaxEvents
  /\ sent' = [sent EXCEPT ![r] = @ + 1]
  /\ collected' = Append(collected, <<r, sent[r] + 1>>)
  /\ calm' = (calm /\ Alone(r))
  /\ UNCHANGED <<stored, handled, phase, frames>>

\* session.commit() of a request, whether or not it collected events, with its
\* after_commit hook.
Commit(r) ==
  /\ phase[r] = "open"
  /\ phase' = [phase EXCEPT ![r] = "committed"]
  /\ frames' = [frames EXCEPT ![r] = IF Hooked THEN <<Entered>> ELSE @]
  /\ calm' = (calm /\ Alone(r))
  /\ UNCHANGED <<collected, stored, handled, sent>>

\* Mutant of Discarded: the after_rollback hook is missing.
NothingDiscarded == collected

\* after_rollback: discard_collected clears the list.
Discarded == IF Hooked THEN <<>> ELSE collected

\* A failed flush rolls the service's session back.
Fail(r) ==
  /\ phase[r] = "open"
  /\ phase' = [phase EXCEPT ![r] = "failed"]
  /\ collected' = Discarded
  /\ calm' = (calm /\ Alone(r))
  /\ UNCHANGED <<stored, handled, sent, frames>>

\* A request that only reads (explode_bom, compare_scenarios) or that raises
\* after a collect: get_db closes the session, which calls neither hook.
Close(r) ==
  /\ phase[r] = "open" /\ sent[r] > 0
  /\ phase' = [phase EXCEPT ![r] = "closed"]
  /\ calm' = FALSE
  /\ UNCHANGED <<collected, stored, handled, sent, frames>>

\* The steps of the innermost flush of thread r.
Top(r) == Last(frames[r])
At(r, place) == Flushing(r) /\ Top(r).at = place
Goto(r, frame) == Append(Front(frames[r]), frame)

\* Mutant of Copied: newest first.
CopiedBackwards == Reverse(collected)

\* self._collected_events.copy()
Copied == collected

Copy(r) ==
  /\ At(r, "copy")
  /\ frames' = [frames EXCEPT ![r] = Goto(r, [todo |-> Copied, at |-> "clear"])]
  /\ UNCHANGED <<collected, stored, handled, phase, sent, calm>>

\* self._collected_events.clear()
Clear(r) ==
  /\ At(r, "clear")
  /\ collected' = <<>>
  /\ frames' = [frames EXCEPT ![r] = Goto(r, [Top(r) EXCEPT !.at = "next"])]
  /\ UNCHANGED <<stored, handled, phase, sent, calm>>

\* Mutant of Storable: event_id is not unique.
StorableTwice(e) == TRUE

\* event_id is UNIQUE in EVENT_STORE.
Storable(e) == e \notin stored

\* persist_event: INSERT and commit, and the commit enters flush_collected.
Persist(r) ==
  /\ At(r, "next") /\ Top(r).todo # <<>> /\ Storable(Head(Top(r).todo))
  /\ stored' = stored \cup {Head(Top(r).todo)}
  /\ frames' = [frames EXCEPT ![r] =
                  Append(Goto(r, [Top(r) EXCEPT !.at = "dispatch"]), Entered)]
  /\ UNCHANGED <<collected, handled, phase, sent, calm>>

\* persist_event raises: its session rolls back and the event is skipped.
PersistFails(r) ==
  /\ At(r, "next") /\ Top(r).todo # <<>>
  /\ collected' = <<>>
  /\ frames' = [frames EXCEPT ![r] = Goto(r, [Top(r) EXCEPT !.todo = Tail(@)])]
  /\ calm' = FALSE
  /\ UNCHANGED <<stored, handled, phase, sent>>

\* Mutant of Rest: the loop ends after one event.
RestLost(todo) == <<>>

\* for event in events
Rest(todo) == Tail(todo)

\* _dispatch_to_handlers, which no handler's error leaves early.
Dispatch(r) ==
  /\ At(r, "dispatch")
  /\ handled' = Append(handled, Head(Top(r).todo))
  /\ frames' = [frames EXCEPT ![r] = Goto(r, [todo |-> Rest(Top(r).todo), at |-> "next"])]
  /\ UNCHANGED <<collected, stored, phase, sent, calm>>

Return(r) ==
  /\ At(r, "next") /\ Top(r).todo = <<>>
  /\ frames' = [frames EXCEPT ![r] = Front(@)]
  /\ UNCHANGED <<collected, stored, handled, phase, sent, calm>>

\* The worker process dies and is started again: what is in memory is lost.
Crash ==
  /\ \E r \in Requests : InFlight(r)
  /\ collected' = <<>>
  /\ frames' = [r \in Requests |-> <<>>]
  /\ phase' = [r \in Requests |-> IF phase[r] = "open" /\ sent[r] > 0 THEN "failed" ELSE phase[r]]
  /\ calm' = FALSE
  /\ UNCHANGED <<stored, handled, sent>>

FlushStep(r) == Copy(r) \/ Clear(r) \/ Persist(r) \/ PersistFails(r) \/ Dispatch(r) \/ Return(r)

Next ==
  \/ \E r \in Requests : Collect(r) \/ Commit(r) \/ Fail(r) \/ Close(r) \/ FlushStep(r)
  \/ Crash

Spec == Init /\ [][Next]_vars

\* The thread of a request that has committed goes on running.
FairSpec == Spec /\ \A r \in Requests : WF_vars(FlushStep(r))

-----------------------------------------------------------------------------
(* Properties.                                                             *)

\* Lists hold events of this run, frames the activations of flush_collected.
TypeOK ==
  /\ collected \in Seq(Events) /\ stored \subseteq Events /\ handled \in Seq(Events)
  /\ phase \in [Requests -> {"open", "committed", "failed", "closed"}]
  /\ sent \in [Requests -> 0..MaxEvents]
  /\ frames \in [Requests -> Seq(Frames)]
  /\ calm \in BOOLEAN

\* Whatever threads do at the same time, faults and restarts included, no
\* handler sees an event twice: two flushes may copy the same event before
\* either clears the list, but only one of them can store it.
HandledOnce == IsInjective(handled)

\* "No events published for rolled-back transactions": with transactions that
\* do not overlap and end in a commit or a rollback, an event reaches
\* EVENT_STORE or a handler only if its transaction committed; and with the hooks
\* installed, a committed transaction whose flush has returned has left none behind.
ExactlyCommitted ==
  calm =>
    /\ \A e \in stored \cup ToSet(handled) : phase[e[1]] = "committed"
    /\ \A e \in Events :
         Hooked /\ phase[e[1]] = "committed" /\ e[2] <= sent[e[1]] /\ ~Flushing(e[1]) => e \in ToSet(handled)

\* Transactions that do not overlap: handlers see the events of a transaction
\* in the order in which it collected them, although the flush re-enters.
InOrder ==
  calm => \A i, j \in DOMAIN handled :
    i < j /\ handled[i][1] = handled[j][1] => handled[i][2] < handled[j][2]

\* "Collected during a transaction, flushed after successful commit": while
\* transactions do not overlap and EVENT_STORE and the process do not fail,
\* every event of a committed transaction is eventually handled, whatever other
\* transactions are rolled back.
CommittedIsHandled ==
  \A e \in Events :
    (phase[e[1]] = "committed" /\ e[2] <= sent[e[1]]) ~> (e \in ToSet(handled) \/ ~calm)
=============================================================================
