------------------------------ MODULE Startup ------------------------------
(***************************************************************************)
(* The start of the worker processes of a demo installation on MariaDB.    *)
(* Every worker runs the same lifespan: under one named lock it looks for  *)
(* the demo clients and, if they are missing, drops the schema, migrates   *)
(* it and seeds it in several transactions; under another lock it seeds    *)
(* the metric dependencies; then it serves.  A lock belongs to a database  *)
(* connection, and a worker that does not get it in time skips the work.   *)
(*                                                                         *)
(* Workers can be killed, and are started again; statements can fail.      *)
(***************************************************************************)
EXTENDS Naturals, FiniteSets

CONSTANTS
  Workers,      \* the gunicorn workers
  Expected,     \* EXPECTED_CLIENTS
  Others,       \* clients somebody else created
  Batches,      \* the transactions of init_database
  MaxFaults     \* bound: kills and failures in one behaviour

ASSUME ClientsAssumption == Expected # {} /\ Expected \cap Others = {}
ASSUME BoundsAssumption == Batches \in Nat \ {0} /\ MaxFaults \in Nat

Nobody == "nobody"
ASSUME WorkersAssumption == Workers # {} /\ Nobody \notin Workers

VARIABLES
  db,       \* tables and alembic_version present, clients, seeded batches, metric dependencies
  holder,   \* of each named lock: the worker whose connection has it
  at,       \* where each worker is in its lifespan
  force,    \* the environment variable FORCE_RESEED
  faults,   \* how many kills and failures there have been
  broken,   \* bookkeeping: one of them was cut short, by a fault in its work on the
            \* database or by an error of its check or of its GET_LOCK
  skipped   \* bookkeeping: a worker has given up waiting for a lock

vars == <<db, holder, at, force, faults, broken, skipped>>

Locks == {"demo", "deps"}
Asking(lock) == IF lock = "demo" THEN "asking demo" ELSE "asking deps"
Inside(lock) == IF lock = "demo" THEN "checking" ELSE "seeding deps"
After(lock) == IF lock = "demo" THEN "asking deps" ELSE "serving"
Rebuilding == {"dropping", "unstamping", "upgrading", "seeding"}
Places == {"booting", "asking demo", "checking", "asking deps", "seeding deps", "serving"} \cup Rebuilding

Databases == [tables : BOOLEAN, version : BOOLEAN, deps : BOOLEAN, batch : 0..Batches,
              clients : SUBSET (Expected \cup Others)]

Whole == db.tables /\ Expected \subseteq db.clients /\ db.batch = Batches

Init ==
  /\ \E clients \in SUBSET (Expected \cup Others), deps \in BOOLEAN :
       db = [tables |-> TRUE, version |-> TRUE, clients |-> clients, deps |-> deps,
             batch |-> IF Expected \subseteq clients THEN Batches ELSE 0]
  /\ holder = [l \in Locks |-> Nobody]
  /\ at = [w \in Workers |-> "booting"]
  /\ force \in BOOLEAN
  /\ faults = 0 /\ broken = FALSE /\ skipped = FALSE

Go(w, place) == at' = [at EXCEPT ![w] = place]

-----------------------------------------------------------------------------
\* The head of lifespan; migrations are the entrypoint's, DEMO_MODE is set.
Boot(w) ==
  /\ at[w] = "booting"
  /\ Go(w, Asking("demo"))
  /\ UNCHANGED <<db, holder, force, faults, broken, skipped>>

\* GET_LOCK returns 1.
Acquire(w, l) ==
  /\ at[w] = Asking(l) /\ holder[l] = Nobody
  /\ holder' = [holder EXCEPT ![l] = w]
  /\ Go(w, Inside(l))
  /\ UNCHANGED <<db, force, faults, broken, skipped>>

\* Mutant of TimeOut: the work is done without the lock.
TimeOutRuns(w, l) ==
  /\ at[w] = Asking(l) /\ holder[l] # Nobody
  /\ Go(w, Inside(l))
  /\ skipped' = TRUE
  /\ UNCHANGED <<db, holder, force, faults, broken>>

\* GET_LOCK returns 0 after _SEED_LOCK_TIMEOUT: the work is skipped.
TimeOut(w, l) ==
  /\ at[w] = Asking(l) /\ holder[l] # Nobody
  /\ Go(w, After(l))
  /\ skipped' = TRUE
  /\ UNCHANGED <<db, holder, force, faults, broken>>

\* RELEASE_LOCK in the finally block; to release what one has not changes nothing.
Released(w) == [l \in Locks |-> IF holder[l] = w THEN Nobody ELSE holder[l]]

\* Mutant of NeedSeed: any other client counts as stale data.
NeedSeedUnlessExact == force \/ db.clients # Expected

\* Mutant of NeedSeed: a database with some clients counts as complete.
NeedSeedIfEmpty == force \/ db.clients = {}

\* FORCE_RESEED, an empty database, or an expected client missing.
NeedSeed == force \/ ~(Expected \subseteq db.clients)

\* The smart detection.  Without tables its query fails and the error is logged.
Check(w) ==
  /\ at[w] = "checking"
  /\ \/ /\ db.tables /\ NeedSeed
        /\ Go(w, IF db.clients # {} THEN "dropping" ELSE "seeding")
        /\ UNCHANGED holder
     \/ /\ ~(db.tables /\ NeedSeed)
        /\ Go(w, After("demo"))
        /\ holder' = Released(w)
  /\ UNCHANGED <<db, force, faults, broken, skipped>>

\* rebuild_schema: each step is DDL that commits at once.
Drop(w) ==
  /\ at[w] = "dropping"
  /\ db' = [db EXCEPT !.tables = FALSE, !.clients = {}, !.batch = 0, !.deps = FALSE]
  /\ Go(w, "unstamping")
  /\ UNCHANGED <<holder, force, faults, broken, skipped>>

Unstamp(w) ==
  /\ at[w] = "unstamping"
  /\ db' = [db EXCEPT !.version = FALSE]
  /\ Go(w, "upgrading")
  /\ UNCHANGED <<holder, force, faults, broken, skipped>>

\* alembic upgrade head does nothing to a database that is stamped.
Upgraded == IF db.version THEN db ELSE [db EXCEPT !.tables = TRUE, !.version = TRUE]

Upgrade(w) ==
  /\ at[w] = "upgrading"
  /\ db' = Upgraded
  /\ Go(w, "seeding")
  /\ UNCHANGED <<holder, force, faults, broken, skipped>>

\* One transaction of init_database; the first one commits the clients.
Seed(w) ==
  /\ at[w] = "seeding" /\ db.batch < Batches
  /\ db' = [db EXCEPT !.clients = @ \cup Expected, !.batch = @ + 1]
  /\ UNCHANGED <<holder, at, force, faults, broken, skipped>>

\* Mutant of Seeded: the seeder returns when the clients are there.
SeededClients == Expected \subseteq db.clients

Seeded == db.batch = Batches

\* init_database ends with the metric dependencies.  If a worker that skipped
\* inserts them at the same time one of the two fails, and they are there.
FinishSeed(w) ==
  /\ at[w] = "seeding" /\ Seeded
  /\ db' = [db EXCEPT !.deps = TRUE]
  /\ Go(w, After("demo"))
  /\ holder' = Released(w)
  /\ UNCHANGED <<force, faults, broken, skipped>>

\* seed_metric_dependencies, whose failure for want of tables is logged.
SeedDeps(w) ==
  /\ at[w] = "seeding deps"
  /\ db' = [db EXCEPT !.deps = db.tables]
  /\ Go(w, "serving")
  /\ holder' = Released(w)
  /\ UNCHANGED <<force, faults, broken, skipped>>

-----------------------------------------------------------------------------
Fault ==
  /\ faults < MaxFaults
  /\ faults' = faults + 1
  /\ UNCHANGED <<force, skipped>>

\* A statement fails before, in or after the lock: the open transaction is
\* rolled back, the error is logged, the lock released, and startup goes on.
Fail(w) ==
  /\ Fault
  /\ \E l \in Locks :
       /\ at[w] \in {Asking(l), Inside(l)} \/ (l = "demo" /\ at[w] = "seeding")
       /\ Go(w, After(l))
  /\ broken' = TRUE
  /\ holder' = Released(w)
  /\ UNCHANGED db

\* SchemaRebuildError crashes the boot, gunicorn stops all the workers, and the
\* container starts again with its entrypoint's migration.
RebuildFails(w) ==
  /\ Fault
  /\ at[w] \in {"dropping", "unstamping", "upgrading"}
  /\ at' = [v \in Workers |-> "booting"]
  /\ holder' = [l \in Locks |-> Nobody]
  /\ broken' = TRUE
  /\ db' = Upgraded

\* A worker is killed, its connections with its locks and its transaction end,
\* and gunicorn starts another one in its place.
Kill(w) ==
  /\ Fault
  /\ at[w] # "booting"
  /\ Go(w, "booting")
  /\ holder' = Released(w)
  /\ broken' = (broken \/ at[w] \in Rebuilding)
  /\ UNCHANGED db

Step(w) ==
  \/ Boot(w) \/ Check(w) \/ Drop(w) \/ Unstamp(w) \/ Upgrade(w)
  \/ Seed(w) \/ FinishSeed(w) \/ SeedDeps(w)
  \/ \E l \in Locks : Acquire(w, l) \/ TimeOut(w, l)

Next == \E w \in Workers : Step(w) \/ Fail(w) \/ RebuildFails(w) \/ Kill(w)

Spec == Init /\ [][Next]_vars

\* A live worker goes on, and GET_LOCK answers one way or the other.
FairSpec == Spec /\ \A w \in Workers : WF_vars(Step(w))

-----------------------------------------------------------------------------
(* Properties.                                                             *)

\* Places, locks and rows have their types.
TypeOK ==
  /\ db \in Databases
  /\ holder \in [Locks -> Workers \cup {Nobody}]
  /\ at \in [Workers -> Places]
  /\ force \in BOOLEAN /\ broken \in BOOLEAN /\ skipped \in BOOLEAN
  /\ faults \in 0..MaxFaults

\* "It is never run unlocked": whatever is killed, fails or times out, no two
\* workers are at the demo data together; and until one of them is cut short
\* (broken), a database without tables or with part of the data is being
\* rebuilt by somebody.
OneSeeder ==
  LET seeders == {w \in Workers : at[w] \in Rebuilding \cup {"checking"}} IN
    /\ seeders \subseteq {holder["demo"]}
    /\ ~broken /\ (~db.tables \/ db.batch \in 1..(Batches - 1)) =>
         \E w \in seeders : at[w] # "checking"

\* Without FORCE_RESEED no restart, late worker or fault drops a complete seed,
\* whichever other clients there are by then.
WholeIsKept == [][Whole /\ ~force => Whole']_vars

\* Unless somebody was cut short (broken): if nothing is forced and no wait
\* runs out, a worker that serves finds the demo data complete; and whatever was
\* forced or skipped, the data is complete when all of them serve, so that who
\* skipped left the work to somebody who did it.
ServesWhole ==
  ~broken =>
    /\ ~force /\ ~skipped => \A w \in Workers : at[w] = "serving" => Whole /\ db.deps
    /\ (\A w \in Workers : at[w] = "serving") => Whole /\ db.deps

\* "Skipping is safe: the work completes on the winner or on a later boot":
\* unless somebody is cut short (broken), every worker serves in the end and
\* the data is complete, also when workers are killed before or after that.
Completes ==
  <>[](broken \/ (Whole /\ db.deps /\ \A w \in Workers : at[w] = "serving"))
=============================================================================
