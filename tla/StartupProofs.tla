---------------------------- MODULE StartupProofs ----------------------------
(***************************************************************************)
(* What the start of the workers guarantees for every number of workers,   *)
(* clients, transactions of the seed and faults.                           *)
(***************************************************************************)
EXTENDS Startup, TLAPS

USE DEF Locks, Asking, Inside, After, Rebuilding, Nobody

-----------------------------------------------------------------------------
(* Types.                                                                  *)

LEMMA ReleasedType ==
  ASSUME TypeOK, NEW w \in Workers
  PROVE  Released(w) \in [Locks -> Workers \cup {Nobody}]
BY DEF TypeOK, Released

LEMMA UpgradedType ==
  ASSUME TypeOK
  PROVE  Upgraded \in Databases
BY DEF TypeOK, Upgraded, Databases

LEMMA UpgradedKeeps ==
  ASSUME TypeOK
  PROVE  Upgraded.clients = db.clients /\ Upgraded.batch = db.batch
BY DEF TypeOK, Upgraded, Databases

\* Places, locks and rows keep their types under every interleaving and fault
\* (backend/bootstrap/lifecycle.py, backend/db/migrate.py).
THEOREM TypeCorrect == Spec => []TypeOK
<1>1. Init => TypeOK
  <2> SUFFICES ASSUME Init PROVE TypeOK
    OBVIOUS
  <2>1. PICK clients \in SUBSET (Expected \cup Others), deps \in BOOLEAN :
          db = [tables |-> TRUE, version |-> TRUE, clients |-> clients, deps |-> deps,
                batch |-> IF Expected \subseteq clients THEN Batches ELSE 0]
    BY DEF Init
  <2>2. (IF Expected \subseteq clients THEN Batches ELSE 0) \in 0..Batches
    BY BoundsAssumption
  <2>3. db \in Databases
    BY <2>1, <2>2 DEF Databases
  <2>4. faults \in 0..MaxFaults
    BY BoundsAssumption DEF Init
  <2> QED
    BY <2>3, <2>4 DEF Init, TypeOK, Places
<1>2. TypeOK /\ [Next]_vars => TypeOK'
  <2> SUFFICES ASSUME TypeOK, [Next]_vars PROVE TypeOK'
    OBVIOUS
  <2>1. ASSUME NEW w \in Workers, Boot(w) PROVE TypeOK'
    BY <2>1 DEF Boot, Go, TypeOK, Places
  <2>2. ASSUME NEW w \in Workers, NEW l \in Locks, Acquire(w, l) PROVE TypeOK'
    BY <2>2 DEF Acquire, Go, TypeOK, Places
  <2>3. ASSUME NEW w \in Workers, NEW l \in Locks, TimeOut(w, l) PROVE TypeOK'
    BY <2>3 DEF TimeOut, Go, TypeOK, Places
  <2>4. ASSUME NEW w \in Workers, Check(w) PROVE TypeOK'
    <3>1. PICK place \in Places : Go(w, place)
      BY <2>4 DEF Check, Places
    <3>2. at' \in [Workers -> Places]
      BY <3>1 DEF Go, TypeOK
    <3>3. holder' \in [Locks -> Workers \cup {Nobody}]
      BY <2>4, ReleasedType DEF Check, TypeOK
    <3> QED
      BY <2>4, <3>2, <3>3 DEF Check, TypeOK
  <2>5. ASSUME NEW w \in Workers, Drop(w) PROVE TypeOK'
    <3>1. 0 \in 0..Batches
      BY BoundsAssumption
    <3>2. db' \in Databases
      BY <2>5, <3>1 DEF Drop, TypeOK, Databases
    <3> QED
      BY <2>5, <3>2 DEF Drop, Go, TypeOK, Places
  <2>13. ASSUME NEW w \in Workers, Unstamp(w) PROVE TypeOK'
    <3>1. db' \in Databases
      BY <2>13 DEF Unstamp, TypeOK, Databases
    <3> QED
      BY <2>13, <3>1 DEF Unstamp, Go, TypeOK, Places
  <2>6. ASSUME NEW w \in Workers, Upgrade(w) PROVE TypeOK'
    BY <2>6, UpgradedType DEF Upgrade, Go, TypeOK, Places
  <2>7. ASSUME NEW w \in Workers, Seed(w) PROVE TypeOK'
    <3>1. db.batch + 1 \in 0..Batches /\ db.clients \cup Expected \subseteq Expected \cup Others
      BY <2>7, BoundsAssumption DEF Seed, TypeOK, Databases
    <3>2. db' \in Databases
      BY <2>7, <3>1 DEF Seed, TypeOK, Databases
    <3> QED
      BY <2>7, <3>2 DEF Seed, TypeOK
  <2>8. ASSUME NEW w \in Workers, FinishSeed(w) \/ SeedDeps(w) PROVE TypeOK'
    <3>1. db' \in Databases
      BY <2>8 DEF FinishSeed, SeedDeps, TypeOK, Databases
    <3> QED
      BY <2>8, <3>1, ReleasedType DEF FinishSeed, SeedDeps, Go, TypeOK, Places
  <2>9. ASSUME NEW w \in Workers, Fail(w) PROVE TypeOK'
    <3>1. PICK l \in Locks : Go(w, After(l))
      BY <2>9 DEF Fail
    <3>2. at' \in [Workers -> Places]
      BY <3>1 DEF Go, TypeOK, Places
    <3>3. faults < MaxFaults /\ faults' = faults + 1
      BY <2>9 DEF Fail, Fault
    <3>4. faults' \in 0..MaxFaults
      BY <3>3, BoundsAssumption DEF TypeOK
    <3> QED
      BY <2>9, <3>2, <3>4, ReleasedType DEF Fail, Fault, TypeOK
  <2>10. ASSUME NEW w \in Workers, RebuildFails(w) PROVE TypeOK'
    <3>1. faults' \in 0..MaxFaults
      BY <2>10, BoundsAssumption DEF RebuildFails, Fault, TypeOK
    <3> QED
      BY <2>10, <3>1, UpgradedType DEF RebuildFails, Fault, TypeOK, Places
  <2>11. ASSUME NEW w \in Workers, Kill(w) PROVE TypeOK'
    <3>1. faults' \in 0..MaxFaults
      BY <2>11, BoundsAssumption DEF Kill, Fault, TypeOK
    <3>2. broken' \in BOOLEAN
      BY <2>11 DEF Kill, TypeOK
    <3> QED
      BY <2>11, <3>1, <3>2, ReleasedType DEF Kill, Fault, Go, TypeOK, Places
  <2>12. CASE UNCHANGED vars
    BY <2>12 DEF vars, TypeOK
  <2> QED
    BY <2>1, <2>2, <2>3, <2>4, <2>5, <2>6, <2>7, <2>8, <2>9, <2>10, <2>11, <2>12, <2>13 DEF Next, Step
<1> QED
  BY <1>1, <1>2, PTL DEF Spec

-----------------------------------------------------------------------------
(* The inductive invariant.                                                *)

AtDemo(w) == at[w] \in Rebuilding \cup {"checking"}

\* Whoever is at the demo data has the lock.
Locked == \A w \in Workers : AtDemo(w) => holder["demo"] = w

\* The demo clients come with the first transaction of the seed.
ClientsTell == Expected \subseteq db.clients <=> db.batch > 0

\* Only a forced worker drops data, and until somebody is cut short
\* the database is whole or without demo data when nobody rebuilds it.
Rebuilt ==
  /\ \A w \in Workers : at[w] = "dropping" => force \/ db.batch = 0
  /\ ~broken =>
       /\ (\A w \in Workers : at[w] \notin Rebuilding) => db.tables /\ db.batch \in {0, Batches}
       /\ \A w \in Workers : /\ at[w] = "upgrading" => ~db.version
                             /\ at[w] = "seeding" => db.tables

\* Who is past the demo data left it whole.
Past ==
  ~force /\ ~skipped /\ ~broken =>
    \A w \in Workers :
      /\ at[w] \in {"asking deps", "seeding deps", "serving"} => db.tables /\ db.batch = Batches
      /\ at[w] = "serving" => db.deps

IInv == TypeOK /\ Locked /\ ClientsTell /\ Rebuilt /\ Past

LEMMA LockedStep == IInv /\ [Next]_vars => Locked'
<1> SUFFICES ASSUME IInv, [Next]_vars PROVE Locked'
  OBVIOUS
<1> USE WorkersAssumption DEF IInv, TypeOK, Locked, AtDemo
<1>1. ASSUME NEW w \in Workers, Boot(w) PROVE Locked'
  BY <1>1 DEF Boot, Go
<1>2. ASSUME NEW w \in Workers, NEW l \in Locks, Acquire(w, l) \/ TimeOut(w, l) PROVE Locked'
  BY <1>2 DEF Acquire, TimeOut, Go
<1>3. ASSUME NEW w \in Workers, Check(w) PROVE Locked'
  BY <1>3 DEF Check, Go, Released
<1>4. ASSUME NEW w \in Workers, Drop(w) \/ Unstamp(w) \/ Upgrade(w) \/ Seed(w) PROVE Locked'
  BY <1>4 DEF Drop, Unstamp, Upgrade, Seed, Go
<1>5. ASSUME NEW w \in Workers, FinishSeed(w) \/ SeedDeps(w) PROVE Locked'
  BY <1>5 DEF FinishSeed, SeedDeps, Go, Released
<1>6. ASSUME NEW w \in Workers, Fail(w) \/ Kill(w) PROVE Locked'
  BY <1>6 DEF Fail, Kill, Go, Released
<1>7. ASSUME NEW w \in Workers, RebuildFails(w) PROVE Locked'
  BY <1>7 DEF RebuildFails
<1>8. CASE UNCHANGED vars
  BY <1>8 DEF vars
<1> QED
  BY <1>1, <1>2, <1>3, <1>4, <1>5, <1>6, <1>7, <1>8 DEF Next, Step

LEMMA ClientsStep == IInv /\ [Next]_vars => ClientsTell'
<1> SUFFICES ASSUME IInv, [Next]_vars PROVE ClientsTell'
  OBVIOUS
<1>1. CASE db' = db
  BY <1>1 DEF IInv, ClientsTell
<1>2. ASSUME NEW w \in Workers, Drop(w) PROVE ClientsTell'
  BY <1>2, ClientsAssumption DEF Drop, IInv, TypeOK, Databases, ClientsTell
<1>3. ASSUME NEW w \in Workers, Unstamp(w) \/ Upgrade(w) \/ FinishSeed(w) \/ SeedDeps(w) \/ RebuildFails(w)
      PROVE ClientsTell'
  <2>1. CASE Upgrade(w) \/ RebuildFails(w)
    BY <2>1, UpgradedKeeps DEF Upgrade, RebuildFails, IInv, ClientsTell
  <2>2. CASE Unstamp(w) \/ FinishSeed(w) \/ SeedDeps(w)
    BY <2>2 DEF Unstamp, FinishSeed, SeedDeps, IInv, TypeOK, Databases, ClientsTell
  <2> QED
    BY <1>3, <2>1, <2>2
<1>4. ASSUME NEW w \in Workers, Seed(w) PROVE ClientsTell'
  BY <1>4, BoundsAssumption DEF Seed, IInv, TypeOK, Databases, ClientsTell
<1> QED
  BY <1>1, <1>2, <1>3, <1>4 DEF Next, Step, vars, Boot, Acquire, TimeOut, Check, Fail, Kill

LEMMA RebuiltStep == IInv /\ [Next]_vars => Rebuilt'
<1> SUFFICES ASSUME IInv, [Next]_vars PROVE Rebuilt'
  OBVIOUS
<1> USE BoundsAssumption DEF IInv, TypeOK, Databases, Locked, AtDemo, ClientsTell, Rebuilt
<1>1. ASSUME NEW w \in Workers, Boot(w) PROVE Rebuilt'
  BY <1>1 DEF Boot, Go
<1>2. ASSUME NEW w \in Workers, NEW l \in Locks, Acquire(w, l) \/ TimeOut(w, l) PROVE Rebuilt'
  BY <1>2 DEF Acquire, TimeOut, Go
<1>3. ASSUME NEW w \in Workers, Check(w) PROVE Rebuilt'
  <2>1. /\ at[w] = "checking" /\ holder["demo"] = w
        /\ \A v \in Workers : v # w => at[v] \notin Rebuilding
    BY <1>3 DEF Check
  <2>2. CASE db.tables /\ NeedSeed /\ db.clients # {} /\ Go(w, "dropping")
    <3>1. force \/ db.batch = 0
      BY <2>2 DEF NeedSeed
    <3>2. db' = db /\ broken' = broken /\ force' = force
      BY <1>3 DEF Check
    <3>3. at'[w] = "dropping" /\ \A v \in Workers : v # w => at'[v] = at[v]
      BY <2>2 DEF Go
    <3> QED
      BY <3>1, <3>2, <3>3
  <2>3. CASE db.tables /\ NeedSeed /\ db.clients = {} /\ Go(w, "seeding")
    BY <1>3, <2>1, <2>3 DEF Check, Go
  <2>4. CASE ~(db.tables /\ NeedSeed) /\ Go(w, "asking deps")
    BY <1>3, <2>1, <2>4 DEF Check, NeedSeed, Go
  <2> QED
    BY <1>3, <2>2, <2>3, <2>4 DEF Check, Go
<1>4. ASSUME NEW w \in Workers, Drop(w) \/ Unstamp(w) PROVE Rebuilt'
  BY <1>4 DEF Drop, Unstamp, Go
<1>5. ASSUME NEW w \in Workers, Upgrade(w) PROVE Rebuilt'
  BY <1>5 DEF Upgrade, Upgraded, Go
<1>6. ASSUME NEW w \in Workers, Seed(w) PROVE Rebuilt'
  BY <1>6 DEF Seed
<1>7. ASSUME NEW w \in Workers, FinishSeed(w) PROVE Rebuilt'
  BY <1>7 DEF FinishSeed, Seeded, Go
<1>8. ASSUME NEW w \in Workers, SeedDeps(w) PROVE Rebuilt'
  BY <1>8 DEF SeedDeps, Go
<1>9. ASSUME NEW w \in Workers, Fail(w) \/ Kill(w) PROVE Rebuilt'
  BY <1>9 DEF Fail, Kill, Fault, Go
<1>10. ASSUME NEW w \in Workers, RebuildFails(w) PROVE Rebuilt'
  BY <1>10 DEF RebuildFails, Fault
<1>11. CASE UNCHANGED vars
  BY <1>11 DEF vars
<1> QED
  BY <1>1, <1>2, <1>3, <1>4, <1>5, <1>6, <1>7, <1>8, <1>9, <1>10, <1>11 DEF Next, Step

LEMMA Unfinished == ASSUME IInv, db.batch < Batches PROVE db.batch # Batches
BY BoundsAssumption DEF IInv, TypeOK, Databases

LEMMA NothingTold == ASSUME IInv, Expected \subseteq db.clients PROVE db.batch # 0
BY DEF IInv, ClientsTell

LEMMA PastStep == IInv /\ [Next]_vars => Past'
<1> SUFFICES ASSUME IInv, [Next]_vars PROVE Past'
  OBVIOUS
<1> USE BoundsAssumption DEF IInv, TypeOK, Databases, Locked, AtDemo, ClientsTell, Rebuilt, Past
<1>1. ASSUME NEW w \in Workers, Boot(w) PROVE Past'
  BY <1>1 DEF Boot, Go
<1>2. ASSUME NEW w \in Workers, NEW l \in Locks, Acquire(w, l) \/ TimeOut(w, l) PROVE Past'
  BY <1>2 DEF Acquire, TimeOut, Go
<1>3. ASSUME NEW w \in Workers, Check(w) PROVE Past'
  <2>1. /\ at[w] = "checking" /\ holder["demo"] = w
        /\ \A v \in Workers : v # w => at[v] \notin Rebuilding
    BY <1>3 DEF Check
  <2>2. CASE db.tables /\ NeedSeed /\ db.clients # {} /\ Go(w, "dropping")
    BY <1>3, <2>1, <2>2 DEF Check, NeedSeed, Go
  <2>3. CASE db.tables /\ NeedSeed /\ db.clients = {} /\ Go(w, "seeding")
    BY <1>3, <2>1, <2>3 DEF Check, Go
  <2>4. CASE ~(db.tables /\ NeedSeed) /\ Go(w, "asking deps")
    <3>1. /\ db' = db /\ broken' = broken /\ force' = force /\ skipped' = skipped
          /\ at'[w] = "asking deps" /\ \A v \in Workers : v # w => at'[v] = at[v]
      BY <1>3, <2>4 DEF Check, Go
    <3>2. ASSUME ~force, ~broken PROVE db.tables /\ db.batch = Batches
      <4>1. db.tables /\ db.batch \in {0, Batches}
        BY <2>1, <3>2
      <4>2. Expected \subseteq db.clients
        BY <2>4, <4>1 DEF NeedSeed
      <4> QED
        BY <4>1, <4>2, NothingTold
    <3> QED
      BY <3>1, <3>2
  <2> QED
    BY <1>3, <2>2, <2>3, <2>4 DEF Check, Go
<1>4. ASSUME NEW w \in Workers, Drop(w) \/ Unstamp(w) PROVE Past'
  BY <1>4 DEF Drop, Unstamp, Go
<1>5. ASSUME NEW w \in Workers, Upgrade(w) PROVE Past'
  BY <1>5 DEF Upgrade, Upgraded, Go
<1>6. ASSUME NEW w \in Workers, Seed(w) PROVE Past'
  <2>1. db.batch # Batches
    BY <1>6, Unfinished DEF Seed
  <2>2. ~(force \/ skipped \/ broken) =>
          \A v \in Workers : at[v] \notin {"asking deps", "seeding deps", "serving"}
    BY <2>1
  <2> QED
    BY <1>6, <2>2 DEF Seed
<1>7. ASSUME NEW w \in Workers, FinishSeed(w) PROVE Past'
  BY <1>7 DEF FinishSeed, Seeded, Go
<1>8. ASSUME NEW w \in Workers, SeedDeps(w) PROVE Past'
  BY <1>8 DEF SeedDeps, Go
<1>9. ASSUME NEW w \in Workers, Fail(w) \/ Kill(w) PROVE Past'
  BY <1>9 DEF Fail, Kill, Fault, Go
<1>10. ASSUME NEW w \in Workers, RebuildFails(w) PROVE Past'
  BY <1>10 DEF RebuildFails, Fault
<1>11. CASE UNCHANGED vars
  BY <1>11 DEF vars
<1> QED
  BY <1>1, <1>2, <1>3, <1>4, <1>5, <1>6, <1>7, <1>8, <1>9, <1>10, <1>11 DEF Next, Step

LEMMA AlwaysIInv == Spec => []IInv
<1>1. Init /\ TypeOK => IInv
  BY BoundsAssumption DEF Init, IInv, Locked, AtDemo, ClientsTell, Rebuilt, Past
<1>2. IInv /\ TypeOK' /\ [Next]_vars => IInv'
  BY LockedStep, ClientsStep, RebuiltStep, PastStep DEF IInv
<1> QED
  BY <1>1, <1>2, TypeCorrect, PTL DEF Spec

-----------------------------------------------------------------------------
(* The theorems.                                                           *)

\* For any number of workers, time-outs, kills and failures, at most one worker
\* is at the demo data, and it has the lock; until one is cut short,
\* unfinished data has its seeder (lifecycle.py _demo_seed_lock).
THEOREM AlwaysOneSeeder == Spec => []OneSeeder
<1>1. IInv => OneSeeder
  <2> SUFFICES ASSUME IInv PROVE OneSeeder
    OBVIOUS
  <2> DEFINE seeders == {w \in Workers : at[w] \in Rebuilding \cup {"checking"}}
  <2>1. seeders \subseteq {holder["demo"]}
    BY DEF IInv, Locked, AtDemo
  <2>2. ASSUME ~broken, ~db.tables \/ db.batch \in 1..(Batches - 1)
        PROVE  \E w \in seeders : at[w] # "checking"
    BY <2>2, BoundsAssumption DEF IInv, TypeOK, Databases, Rebuilt
  <2> QED
    BY <2>1, <2>2 DEF OneSeeder
<1> QED
  BY <1>1, AlwaysIInv, PTL

\* A complete seed survives every restart, late worker and fault unless a reseed
\* is forced (lifecycle.py _run_demo_seed_critical_section).
THEOREM WholeAlwaysKept == Spec => WholeIsKept
<1>1. IInv /\ [Next]_vars => (Whole /\ ~force => Whole')
  <2> SUFFICES ASSUME IInv, [Next]_vars, Whole, ~force PROVE Whole'
    OBVIOUS
  <2> USE BoundsAssumption DEF IInv, TypeOK, Databases, Whole
  <2>1. CASE db' = db
    BY <2>1
  <2>2. ASSUME NEW w \in Workers, Drop(w) PROVE Whole'
    BY <2>2 DEF Drop, Rebuilt
  <2>3. ASSUME NEW w \in Workers, Unstamp(w) \/ Upgrade(w) \/ FinishSeed(w) \/ SeedDeps(w) \/ RebuildFails(w)
        PROVE Whole'
    BY <2>3 DEF Unstamp, Upgrade, FinishSeed, SeedDeps, RebuildFails, Upgraded
  <2>4. ASSUME NEW w \in Workers, Seed(w) PROVE Whole'
    BY <2>4 DEF Seed
  <2> QED
    BY <2>1, <2>2, <2>3, <2>4 DEF Next, Step, vars, Boot, Acquire, TimeOut, Check, Fail, Kill
<1>2. IInv /\ [Next]_vars => [Whole /\ ~force => Whole']_vars
  BY <1>1
<1> QED
  BY <1>2, AlwaysIInv, PTL DEF Spec, WholeIsKept

-----------------------------------------------------------------------------
(* Who skips leaves the work to somebody who does it.                      *)

\* A lock that is held is held by a worker inside of it.
Held ==
  /\ holder["demo"] # Nobody => AtDemo(holder["demo"])
  /\ holder["deps"] # Nobody => at[holder["deps"]] = "seeding deps"

\* Where a worker is still to look at the demo data, or to put them right.
Undone == {"booting", "asking demo", "checking"} \cup Rebuilding

\* What is not complete somebody is still to complete.
ToCome ==
  ~broken =>
    /\ (\A w \in Workers : at[w] \notin Undone) => db.tables /\ db.batch = Batches
    /\ (\A w \in Workers : at[w] = "serving") => db.deps

LEMMA HeldStep == IInv /\ Held /\ [Next]_vars => Held'
<1> SUFFICES ASSUME IInv, Held, [Next]_vars PROVE Held'
  OBVIOUS
<1> USE WorkersAssumption DEF IInv, TypeOK, Locked, AtDemo, Held
<1>1. ASSUME NEW w \in Workers, Boot(w) PROVE Held'
  BY <1>1 DEF Boot, Go
<1>2. ASSUME NEW w \in Workers, NEW l \in Locks, Acquire(w, l) \/ TimeOut(w, l) PROVE Held'
  BY <1>2 DEF Acquire, TimeOut, Go
<1>3. ASSUME NEW w \in Workers, Check(w) PROVE Held'
  BY <1>3 DEF Check, Go, Released
<1>4. ASSUME NEW w \in Workers, Drop(w) \/ Unstamp(w) \/ Upgrade(w) \/ Seed(w) PROVE Held'
  BY <1>4 DEF Drop, Unstamp, Upgrade, Seed, Go
<1>5. ASSUME NEW w \in Workers, FinishSeed(w) \/ SeedDeps(w) PROVE Held'
  BY <1>5 DEF FinishSeed, SeedDeps, Go, Released
<1>6. ASSUME NEW w \in Workers, Fail(w) \/ Kill(w) PROVE Held'
  BY <1>6 DEF Fail, Kill, Go, Released
<1>7. ASSUME NEW w \in Workers, RebuildFails(w) PROVE Held'
  BY <1>7 DEF RebuildFails
<1>8. CASE UNCHANGED vars
  BY <1>8 DEF vars
<1> QED
  BY <1>1, <1>2, <1>3, <1>4, <1>5, <1>6, <1>7, <1>8 DEF Next, Step

LEMMA ToComeStep == IInv /\ Held /\ ToCome /\ [Next]_vars => ToCome'
<1> SUFFICES ASSUME IInv, Held, ToCome, [Next]_vars, ~broken' PROVE ToCome'
  BY DEF ToCome
<1> USE BoundsAssumption DEF IInv, TypeOK, Databases, Undone, ToCome
<1>1. ASSUME NEW w \in Workers, Boot(w) PROVE ToCome'
  BY <1>1 DEF Boot, Go
<1>2. ASSUME NEW w \in Workers, NEW l \in Locks, Acquire(w, l) PROVE ToCome'
  BY <1>2 DEF Acquire, Go
<1>3. ASSUME NEW w \in Workers, NEW l \in Locks, TimeOut(w, l) PROVE ToCome'
  <2>1. PICK v \in Workers : v = holder[l]
    BY <1>3 DEF TimeOut
  <2>2. v # w /\ at'[v] = at[v] /\ (IF l = "demo" THEN at[v] \in Undone ELSE at[v] = "seeding deps")
    BY <1>3, <2>1, WorkersAssumption DEF TimeOut, Go, Held, AtDemo
  <2>3. db' = db /\ broken' = broken /\ at'[w] = After(l) /\ \A u \in Workers \ {w} : at'[u] = at[u]
    BY <1>3 DEF TimeOut, Go
  <2>4. CASE l = "demo"
    <3>1. at'[w] = "asking deps" /\ at'[v] \in Undone
      BY <2>2, <2>3, <2>4 DEF After
    <3> QED
      BY <2>3, <3>1
  <2>5. CASE l = "deps"
    <3>1. at[w] = "asking deps" /\ at'[v] = "seeding deps"
      BY <1>3, <2>2, <2>5 DEF TimeOut, Asking
    <3>2. ASSUME \A u \in Workers : at'[u] \notin Undone PROVE db.tables /\ db.batch = Batches
      BY <2>3, <3>1, <3>2
    <3> QED
      BY <2>3, <3>1, <3>2
  <2> QED
    BY <2>4, <2>5 DEF Locks
<1>4. ASSUME NEW w \in Workers, Check(w) PROVE ToCome'
  <2>1. /\ at[w] = "checking" /\ \A v \in Workers : at[v] \notin Rebuilding
        /\ db' = db /\ broken' = broken /\ \A v \in Workers \ {w} : at'[v] = at[v]
    BY <1>4 DEF Check, Go, Locked, AtDemo
  <2>2. db.tables /\ db.batch \in {0, Batches}
    BY <2>1 DEF Rebuilt
  <2>3. CASE NeedSeed
    BY <1>4, <2>1, <2>2, <2>3 DEF Check, Go
  <2>4. CASE ~NeedSeed
    <3>1. db.batch = Batches
      BY <2>2, <2>4, NothingTold DEF NeedSeed
    <3>2. at'[w] = "asking deps"
      BY <1>4, <2>4 DEF Check, Go
    <3> QED
      BY <2>1, <2>2, <3>1, <3>2
  <2> QED
    BY <2>3, <2>4
<1>5. ASSUME NEW w \in Workers, Drop(w) \/ Unstamp(w) \/ Upgrade(w) \/ Seed(w) PROVE ToCome'
  <2>1. at'[w] \in Rebuilding
    BY <1>5 DEF Drop, Unstamp, Upgrade, Seed, Go
  <2> QED
    BY <2>1
<1>6. ASSUME NEW w \in Workers, FinishSeed(w) PROVE ToCome'
  <2>1. db.tables /\ db.batch = Batches /\ db.deps \in BOOLEAN
    BY <1>6 DEF FinishSeed, Seeded, Rebuilt
  <2>2. db'.tables = db.tables /\ db'.batch = db.batch /\ at'[w] = "asking deps"
    BY <1>6 DEF FinishSeed, Go
  <2> QED
    BY <2>1, <2>2
<1>7. ASSUME NEW w \in Workers, SeedDeps(w) PROVE ToCome'
  <2>1. /\ at[w] = "seeding deps" /\ at'[w] = "serving" /\ \A v \in Workers \ {w} : at'[v] = at[v]
        /\ db'.tables = db.tables /\ db'.batch = db.batch /\ db'.deps = db.tables /\ broken' = broken
    BY <1>7 DEF SeedDeps, Go
  <2>2. ASSUME \A v \in Workers : at'[v] = "serving" PROVE db.tables
    BY <2>1, <2>2
  <2>3. ASSUME \A v \in Workers : at'[v] \notin Undone PROVE db.tables /\ db.batch = Batches
    BY <2>1, <2>3
  <2> QED
    BY <2>1, <2>2, <2>3
<1>8. ASSUME NEW w \in Workers, Fail(w) \/ RebuildFails(w) PROVE ToCome'
  BY <1>8 DEF Fail, RebuildFails
<1>9. ASSUME NEW w \in Workers, Kill(w) PROVE ToCome'
  <2>1. at'[w] = "booting"
    BY <1>9 DEF Kill, Go
  <2> QED
    BY <2>1
<1>10. CASE UNCHANGED vars
  BY <1>10 DEF vars
<1> QED
  BY <1>1, <1>2, <1>3, <1>4, <1>5, <1>6, <1>7, <1>8, <1>9, <1>10 DEF Next, Step

LEMMA AlwaysToCome == Spec => [](Held /\ ToCome)
<1>1. Init => Held /\ ToCome
  BY WorkersAssumption DEF Init, Held, ToCome, Undone
<1> QED
  BY <1>1, HeldStep, ToComeStep, AlwaysIInv, PTL DEF Spec

\* Unless a worker is cut short: if no reseed is forced and no wait
\* runs out, no worker serves before the demo data is complete; and it is
\* complete when all serve, although some skipped the work or were killed before
\* or after it (lifecycle.py lifespan, "Skipping is safe").
THEOREM AlwaysServesWhole == Spec => []ServesWhole
<1>1. IInv /\ ToCome => ServesWhole
  <2> SUFFICES ASSUME IInv, ToCome, ~broken,
                      \/ ~force /\ ~skipped /\ \E w \in Workers : at[w] = "serving"
                      \/ \A w \in Workers : at[w] = "serving"
               PROVE  Whole /\ db.deps
    BY DEF ServesWhole
  <2>1. db.tables /\ db.batch = Batches /\ db.deps
    BY DEF IInv, Past, ToCome, Undone
  <2>2. Expected \subseteq db.clients
    BY <2>1, BoundsAssumption DEF IInv, ClientsTell
  <2> QED
    BY <2>1, <2>2 DEF Whole
<1> QED
  BY <1>1, AlwaysIInv, AlwaysToCome, PTL

\* No lock is left behind: whatever is killed, fails or restarts, a lock that
\* is held is held by a live worker inside of it (lifecycle.py _demo_seed_lock).
THEOREM LocksAreLive == Spec => []Held
BY AlwaysToCome, PTL
=============================================================================
