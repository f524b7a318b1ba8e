---------------------------- MODULE PlanningProofs ----------------------------
(* Proofs about the three components that plan: Scheduling, Simulation and   *)
(* Staffing.  They bound sums (the hours on a line, the pieces of the        *)
(* bundles, the shares of an employee), and the lemmas about sums come       *)
(* first; then each component on its own.                                    *)
EXTENDS Scheduling, Simulation, Staffing, Functions, FiniteSetTheorems, SequenceTheorems,
        WellFoundedInduction, TLAPS

-----------------------------------------------------------------------------
(* Sums over finite sets.                                                  *)

Pick(s) == CHOOSE x \in s : TRUE

\* The function the library defines a sum by.
Iter(f, S) ==
  CHOOSE g : g = [s \in SUBSET S |-> IF s = {} THEN 0 ELSE f[Pick(s)] + g[s \ {Pick(s)}]]

\* What a sum counts: f[x] units of each x.
Units(f, s) == UNION {{x} \X (1..f[x]) : x \in s}

Count(f, S) == [s \in SUBSET S |-> Cardinality(Units(f, s))]

LEMMA SumIsIter ==
  ASSUME NEW f, NEW S
  PROVE  SumFunctionOnSet(f, S) = Iter(f, S)[S]
BY Zenon DEF SumFunctionOnSet, FoldFunctionOnSet, MapThenFoldSet, Iter, Pick

\* One more element has f[x] more units.
LEMMA UnitsAdd ==
  ASSUME NEW f, NEW s, NEW x, x \notin s, f[x] \in Nat, IsFiniteSet(Units(f, s))
  PROVE  /\ IsFiniteSet(Units(f, s \cup {x}))
         /\ Cardinality(Units(f, s \cup {x})) = Cardinality(Units(f, s)) + f[x]
<1> DEFINE Own == {x} \X (1..f[x])
<1>1. Units(f, s \cup {x}) = Units(f, s) \cup Own /\ Units(f, s) \cap Own = {}
  BY DEF Units
<1>2. IsFiniteSet(1..f[x]) /\ Cardinality(1..f[x]) = f[x]
  BY FS_Interval
<1>3. IsFiniteSet({x}) /\ Cardinality({x}) = 1
  BY FS_Singleton
<1>4. IsFiniteSet(Own) /\ Cardinality(Own) = f[x]
  <2>1. IsFiniteSet(Own) /\ Cardinality(Own) = Cardinality({x}) * Cardinality(1..f[x])
    BY <1>2, <1>3, FS_Product
  <2> HIDE DEF Own
  <2> QED
    BY <1>2, <1>3, <2>1
<1> HIDE DEF Own
<1>5. Cardinality(Units(f, s)) \in Nat
  BY FS_CardinalityType
<1> DEFINE U == Units(f, s)
<1> HIDE DEF U
<1>6. /\ IsFiniteSet(U \cup Own)
      /\ Cardinality(U \cup Own) = Cardinality(U) + Cardinality(Own) - Cardinality(U \cap Own)
  BY <1>4, FS_Union DEF U
<1>7. Cardinality(U \cap Own) = 0
  BY <1>1, FS_EmptySet DEF U
<1>8. Units(f, s \cup {x}) = U \cup Own
  BY <1>1 DEF U
<1>9. IsFiniteSet(U \cup Own) /\ Cardinality(U \cup Own) = Cardinality(U) + f[x]
  BY <1>4, <1>5, <1>6, <1>7 DEF U
<1> QED
  BY <1>8, <1>9 DEF U

LEMMA UnitsFinite ==
  ASSUME NEW f, NEW s, IsFiniteSet(s), \A x \in s : f[x] \in Nat
  PROVE  IsFiniteSet(Units(f, s)) /\ Cardinality(Units(f, s)) \in Nat
<1>1. \A x \in s : IsFiniteSet({x} \X (1..f[x]))
  <2> TAKE x \in s
  <2>1. IsFiniteSet({x}) /\ IsFiniteSet(1..f[x])
    <3>1. IsFiniteSet(1..f[x])
      BY FS_Interval
    <3> QED
      BY <3>1, FS_Singleton
  <2> QED
    BY <2>1, FS_Product
<1> DEFINE T == {{x} \X (1..f[x]) : x \in s}
           h == [x \in s |-> {x} \X (1..f[x])]
<1>2. h \in Surjection(s, T)
  BY DEF Surjection
<1>3. IsFiniteSet(T)
  BY <1>2, FS_Surjection
<1>4. \A t \in T : IsFiniteSet(t)
  BY <1>1
<1>5. IsFiniteSet(UNION T)
  BY <1>3, <1>4, FS_UNION
<1> QED
  BY <1>5, FS_CardinalityType DEF Units

\* Counting units satisfies the equation of the sum, so the function chosen does.
LEMMA IterEquation ==
  ASSUME NEW f, NEW S, IsFiniteSet(S), \A x \in S : f[x] \in Nat
  PROVE  \A s \in SUBSET S :
           Iter(f, S)[s] = IF s = {} THEN 0 ELSE f[Pick(s)] + Iter(f, S)[s \ {Pick(s)}]
<1> DEFINE g == Count(f, S)
<1>1. ASSUME NEW s \in SUBSET S
      PROVE  Cardinality(Units(f, s)) =
               IF s = {} THEN 0 ELSE f[Pick(s)] + Cardinality(Units(f, s \ {Pick(s)}))
  <2>1. CASE s = {}
    BY <2>1, FS_EmptySet DEF Units
  <2>2. CASE s # {}
    <3> DEFINE x == Pick(s)
               r == s \ {x}
    <3>1. x \in s
      BY <2>2 DEF Pick
    <3>2. s = r \cup {x} /\ x \notin r /\ IsFiniteSet(r) /\ f[x] \in Nat /\ \A y \in r : f[y] \in Nat
      BY <3>1, FS_Subset
    <3>3. IsFiniteSet(Units(f, r)) /\ Cardinality(Units(f, r)) \in Nat
      BY <3>2, UnitsFinite
    <3> HIDE DEF x, r
    <3>4. Cardinality(Units(f, s)) = Cardinality(Units(f, r)) + f[x]
      BY <3>2, <3>3, UnitsAdd
    <3>5. Cardinality(Units(f, s)) = f[x] + Cardinality(Units(f, r))
      BY <3>2, <3>3, <3>4
    <3> QED
      BY <2>2, <3>5 DEF x, r
  <2> QED
    BY <2>1, <2>2
<1>2. g = [s \in SUBSET S |-> IF s = {} THEN 0 ELSE f[Pick(s)] + g[s \ {Pick(s)}]]
  <2>1. \A s \in SUBSET S : g[s] = IF s = {} THEN 0 ELSE f[Pick(s)] + g[s \ {Pick(s)}]
    <3> TAKE s \in SUBSET S
    <3>1. s \ {Pick(s)} \in SUBSET S
      OBVIOUS
    <3> QED
      BY <1>1, <3>1 DEF Count
  <2> QED
    BY <2>1 DEF Count
<1> HIDE DEF g
<1>3. \E k : k = [s \in SUBSET S |-> IF s = {} THEN 0 ELSE f[Pick(s)] + k[s \ {Pick(s)}]]
  BY <1>2
<1>4. Iter(f, S) = [s \in SUBSET S |-> IF s = {} THEN 0 ELSE f[Pick(s)] + Iter(f, S)[s \ {Pick(s)}]]
  BY <1>3, Zenon DEF Iter
<1> DEFINE G(s) == IF s = {} THEN 0 ELSE f[Pick(s)] + Iter(f, S)[s \ {Pick(s)}]
<1>5. Iter(f, S) = [s \in SUBSET S |-> G(s)]
  BY <1>4
<1> HIDE DEF G
<1>6. \A s \in SUBSET S : Iter(f, S)[s] = G(s)
  BY <1>5
<1> QED
  BY <1>6 DEF G

\* The sum of natural numbers is the number of their units.
LEMMA SumIsCount ==
  ASSUME NEW f, NEW S, IsFiniteSet(S), \A x \in S : f[x] \in Nat
  PROVE  SumFunctionOnSet(f, S) = Cardinality(Units(f, S))
<1> DEFINE g == Iter(f, S)
           Bad == {s \in SUBSET S : g[s] # Cardinality(Units(f, s))}
           R == StrictSubsetOrdering(S)
<1>1. \A s \in SUBSET S : g[s] = IF s = {} THEN 0 ELSE f[Pick(s)] + g[s \ {Pick(s)}]
  BY IterEquation
<1>2. IsWellFoundedOn(R, SUBSET S)
  BY FS_StrictSubsetOrderingWellFounded, FS_FiniteSubsetsOfFinite
<1> HIDE DEF g
<1>3. ASSUME Bad # {} PROVE FALSE
  <2>1. PICK s \in Bad : \A t \in Bad : ~(<<t, s>> \in R)
    BY <1>2, <1>3, WFMin, Bad \subseteq SUBSET S
  <2>2. s # {}
    BY <1>1, FS_EmptySet DEF Units
  <2> DEFINE x == Pick(s)
             r == s \ {x}
  <2>3. x \in s
    BY <2>2 DEF Pick
  <2>4. r \in SUBSET S /\ r \notin Bad
    <3>1. r \in SUBSET S /\ s \in SUBSET S /\ r \subseteq s /\ r # s
      BY <2>3
    <3>2. <<r, s>> \in R
      <4> HIDE DEF r
      <4> QED
        BY <3>1 DEF StrictSubsetOrdering
    <3> QED
      BY <2>1, <3>1, <3>2
  <2>5. s = r \cup {x} /\ x \notin r /\ IsFiniteSet(r) /\ f[x] \in Nat /\ \A y \in r : f[y] \in Nat
    BY <2>3, FS_Subset
  <2> HIDE DEF x, r
  <2>6. IsFiniteSet(Units(f, r)) /\ Cardinality(Units(f, r)) \in Nat
    BY <2>5, UnitsFinite
  <2>7. Cardinality(Units(f, s)) = Cardinality(Units(f, r)) + f[x]
    BY <2>5, <2>6, UnitsAdd
  <2>8. g[s] = f[x] + Cardinality(Units(f, r))
    BY <1>1, <2>1, <2>2, <2>4 DEF x, r
  <2> QED
    BY <2>1, <2>5, <2>6, <2>7, <2>8
<1> QED
  BY <1>3, SumIsIter DEF g

LEMMA SumType ==
  ASSUME NEW f, NEW S, IsFiniteSet(S), \A x \in S : f[x] \in Nat
  PROVE  SumFunctionOnSet(f, S) \in Nat
BY SumIsCount, UnitsFinite

LEMMA SumEmpty == ASSUME NEW f PROVE SumFunctionOnSet(f, {}) = 0
BY SumIsCount, FS_EmptySet DEF Units

LEMMA SumAdd ==
  ASSUME NEW f, NEW S, IsFiniteSet(S), \A x \in S : f[x] \in Nat,
         NEW x, x \notin S, f[x] \in Nat
  PROVE  SumFunctionOnSet(f, S \cup {x}) = SumFunctionOnSet(f, S) + f[x]
<1>1. IsFiniteSet(S \cup {x}) /\ \A y \in S \cup {x} : f[y] \in Nat
  BY FS_AddElement
<1>2. /\ SumFunctionOnSet(f, S) = Cardinality(Units(f, S))
      /\ SumFunctionOnSet(f, S \cup {x}) = Cardinality(Units(f, S \cup {x}))
  BY <1>1, SumIsCount
<1>3. IsFiniteSet(Units(f, S))
  BY UnitsFinite
<1>4. Cardinality(Units(f, S \cup {x})) = Cardinality(Units(f, S)) + f[x]
  BY <1>3, UnitsAdd
<1> QED
  BY <1>2, <1>4

LEMMA SumMonotone ==
  ASSUME NEW f, NEW S, IsFiniteSet(S), \A x \in S : f[x] \in Nat, NEW T \in SUBSET S
  PROVE  SumFunctionOnSet(f, T) <= SumFunctionOnSet(f, S)
<1>1. IsFiniteSet(T) /\ Units(f, T) \in SUBSET Units(f, S)
  BY FS_Subset DEF Units
<1>2. Cardinality(Units(f, T)) <= Cardinality(Units(f, S))
  BY <1>1, UnitsFinite, FS_Subset
<1> QED
  BY <1>1, <1>2, SumIsCount

LEMMA SumSame ==
  ASSUME NEW f, NEW g, NEW S, IsFiniteSet(S), \A x \in S : f[x] \in Nat /\ g[x] = f[x]
  PROVE  SumFunctionOnSet(g, S) = SumFunctionOnSet(f, S)
<1>1. Units(f, S) = Units(g, S)
  BY DEF Units
<1> QED
  BY <1>1, SumIsCount

-----------------------------------------------------------------------------
(* Scheduling: types, and what a committed schedule keeps.                 *)

Requests == [step : {"commit"}, id : Schedules, targets : BOOLEAN, store : BOOLEAN]
            \cup [step : {"store", "activate"}, id : Schedules]

\* The part of the state a generation works on.
Generating ==
  /\ input \in [order : [Orders -> Demands], rate : [Lines -> Rates], days : SUBSET Period,
                prioritize_by : {"required_date", "priority"}]
  /\ pending \subseteq Orders /\ unscheduled \subseteq Orders /\ pending \cap unscheduled = {}
  /\ DOMAIN placed = Orders \ (pending \cup unscheduled)
  /\ placed \in [DOMAIN placed -> [line : Lines, day : input.days, sequence : Nat]]
  /\ left \in [Lines -> Nat] /\ counter \in [Lines \X Period -> Nat]

\* The stored schedules and the requests on them.
Storing ==
  /\ Exists \subseteq Schedules /\ row \in [Exists -> Rows]
  /\ raced \subseteq Schedules /\ promised \subseteq Schedules
  /\ request \in [Planners -> Requests \cup {NoRequest}]
  /\ \A s \in Planners : ~AtRest(s) => request[s].id \in Exists

IInv == Generating /\ Storing

LEMMA TypesInit == SchedulingInit => IInv
<1> SUFFICES ASSUME SchedulingInit PROVE IInv
  OBVIOUS
<1>1. \A l \in Lines : Capacity(l) \in Nat
  <2>1. IsFiniteSet(Period)
    BY PeriodAssumption, FS_Interval DEF Period
  <2>2. Cardinality(input.days) \in Nat
    BY <2>1, FS_Subset, FS_CardinalityType DEF SchedulingInit, GenerationInit
  <2>3. ASSUME NEW l \in Lines PROVE input.rate[l] \in Nat
    BY RatesAssumption DEF SchedulingInit, GenerationInit
  <2>4. \A m, n \in Nat : m * n \in Nat
    OBVIOUS
  <2> QED
    BY <2>2, <2>3, <2>4 DEF Capacity
<1>2. Generating
  BY <1>1 DEF SchedulingInit, GenerationInit, Generating
<1>3. Storing
  BY DEF SchedulingInit, Storing, Exists, AtRest, Rows
<1> QED
  BY <1>2, <1>3 DEF IInv

\* Placing an order leaves its line with no less than nothing.
LEMMA AssignKeeps ==
  ASSUME IInv, Assign
  PROVE  Generating'
<1>1. PICK o \in pending : /\ pending' = pending \ {o} /\ input' = input
                           /\ Place(o) \/ Skip(o)
  BY DEF Assign
<1>2. Hours(o) \in Nat
  BY DemandsAssumption DEF IInv, Generating, Hours, DemandRows
<1>3. CASE Place(o)
  <2>1. PICK l \in Fitting(o), d \in StartDays(o) :
          /\ counter' = [counter EXCEPT ![<<l, d>>] = @ + 1]
          /\ placed' = [p \in DOMAIN placed \cup {o} |->
                          IF p = o THEN [line |-> l, day |-> d, sequence |-> counter[<<l, d>>] + 1] ELSE placed[p]]
          /\ left' = [left EXCEPT ![l] = @ - Hours(o)]
          /\ UNCHANGED unscheduled
    BY <1>3 DEF Place
  <2>2. l \in Lines /\ left[l] \in Nat /\ left[l] >= Hours(o) /\ d \in input.days /\ d \in Period
    BY <2>1 DEF IInv, Generating, Fitting, StartDays
  <2>3. left[l] - Hours(o) \in Nat
    BY <2>2, <1>2
  <2>4. left' \in [Lines -> Nat]
    BY <2>1, <2>3 DEF IInv, Generating
  <2>5. counter[<<l, d>>] \in Nat /\ counter' \in [Lines \X Period -> Nat]
    BY <2>1, <2>2 DEF IInv, Generating
  <2>6. placed' \in [DOMAIN placed' -> [line : Lines, day : input'.days, sequence : Nat]]
    BY <1>1, <2>1, <2>2, <2>5 DEF IInv, Generating
  <2>7. DOMAIN placed' = Orders \ (pending' \cup unscheduled')
    BY <1>1, <2>1 DEF IInv, Generating
  <2> QED
    BY <1>1, <2>1, <2>4, <2>5, <2>6, <2>7 DEF IInv, Generating
<1>4. CASE Skip(o)
  BY <1>1, <1>4 DEF Skip, IInv, Generating
<1> QED
  BY <1>1, <1>3, <1>4

LEMMA TypesStep == IInv /\ [SchedulingNext]_schedulingVars => IInv'
<1> SUFFICES ASSUME IInv, [SchedulingNext]_schedulingVars PROVE IInv'
  OBVIOUS
<1> USE DEF IInv
<1>1. CASE Assign
  <2>1. UNCHANGED stored
    BY <1>1 DEF Assign
  <2> QED
    BY <1>1, <2>1, AssignKeeps DEF stored, Storing, Exists, AtRest
<1>2. CASE ~Assign
  <2>1. UNCHANGED generation
    BY <1>2 DEF SchedulingNext, Create, BeginCommit, BeginActivate, Start, Commit, StoreCommitments, Activate, Fail, schedulingVars
  <2>2. Generating'
    BY <2>1 DEF generation, Generating
  <2>3. ASSUME NEW id \in Schedules, Create(id) PROVE Storing'
    BY <2>3 DEF Create, Storing, Exists, AtRest, Rows
  <2>4. ASSUME NEW s \in Planners, NEW id \in Exists, NEW q \in Requests, Start(s, id, q), q.id = id
        PROVE  Storing'
    BY <2>4 DEF Start, Storing, Exists, AtRest
  <2>5. ASSUME NEW s \in Planners, NEW id \in Exists, NEW targets \in BOOLEAN, NEW store \in BOOLEAN,
               BeginCommit(s, id, targets, store)
        PROVE  Storing'
    <3> DEFINE q == [step |-> "commit", id |-> id, targets |-> targets, store |-> store /\ targets]
    <3>1. id \in Schedules /\ (store /\ targets) \in BOOLEAN
      BY DEF Storing
    <3>2. q \in Requests /\ q.id = id
      BY <3>1 DEF Requests
    <3>3. Start(s, id, q)
      BY <2>5 DEF BeginCommit
    <3> QED
      BY <3>2, <3>3, <2>4
  <2>6. ASSUME NEW s \in Planners, NEW id \in Exists, BeginActivate(s, id) PROVE Storing'
    <3> DEFINE q == [step |-> "activate", id |-> id]
    <3>1. q \in Requests /\ q.id = id
      BY DEF Requests, Storing
    <3> QED
      BY <3>1, <2>4, <2>6 DEF BeginActivate
  <2>7. ASSUME NEW s \in Planners, Commit(s) PROVE Storing'
    <3> DEFINE q == request[s]
    <3>1. q \in Requests /\ q.step = "commit" /\ ~AtRest(s)
      BY <2>7 DEF Commit, Storing, AtRest, NoRequest, Requests
    <3>2. q.id \in Exists /\ q.id \in Schedules /\ q.targets \in BOOLEAN
      BY <3>1 DEF Storing, Requests
    <3>3. Exists' = Exists /\ row' \in [Exists -> Rows]
      BY <2>7, <3>2 DEF Commit, Storing, Rows, Exists
    <3>4. [step |-> "store", id |-> q.id] \in Requests
      BY <3>2 DEF Requests
    <3> QED
      BY <2>7, <3>2, <3>3, <3>4 DEF Commit, Storing, AtRest, NoRequest
  <2>8. ASSUME NEW s \in Planners, StoreCommitments(s) \/ Activate(s) PROVE Storing'
    <3> DEFINE q == request[s]
    <3>1. q \in Requests /\ ~AtRest(s)
      BY <2>8 DEF StoreCommitments, Activate, Storing, AtRest, NoRequest, Requests
    <3>2. q.id \in Exists
      BY <3>1 DEF Storing
    <3>3. Exists' = Exists /\ row' \in [Exists -> Rows]
      BY <2>8, <3>2 DEF StoreCommitments, Activate, Storing, Rows, Exists
    <3> QED
      BY <2>8, <3>3 DEF StoreCommitments, Activate, Storing, AtRest
  <2>9. ASSUME NEW s \in Planners, Fail(s) PROVE Storing'
    BY <2>9 DEF Fail, Storing, AtRest, Exists
  <2>10. ASSUME UNCHANGED schedulingVars PROVE Storing'
    <3>1. row' = row /\ request' = request /\ raced' = raced /\ promised' = promised
      BY <2>10 DEF schedulingVars, stored
    <3> QED
      BY <3>1 DEF Storing, Exists, AtRest
  <2> QED
    BY <1>2, <2>2, <2>3, <2>5, <2>6, <2>7, <2>8, <2>9, <2>10 DEF SchedulingNext
<1> QED
  BY <1>1, <1>2

\* The loop over the orders and the rows of schedules keep their types, for any
\* orders, lines and requests (backend/services/capacity/scheduling_service.py).
THEOREM TypeCorrect == SchedulingSpec => []TypeOK
<1>1. IInv => TypeOK
  BY DEF IInv, Generating, Storing, TypeOK
<1> QED
  BY <1>1, TypesInit, TypesStep, PTL DEF SchedulingSpec

-----------------------------------------------------------------------------
(* What a schedule keeps.                                                  *)

\* Two requests are on one schedule only if it is raced.
Apart ==
  \A s, t \in Planners : s # t /\ ~AtRest(s) /\ ~AtRest(t) /\ request[s].id = request[t].id =>
    request[s].id \in raced

\* The row a request goes on with is still as the request read it.
AsRead(s) ==
  LET q == request[s]
  IN /\ q.step = "commit" => row[q.id].status = "DRAFT" /\ (q.store => q.targets)
     /\ q.step = "activate" => row[q.id].status = "COMMITTED"
     /\ q.step = "store" => q.id \in promised

AllAsRead == \A s \in Planners : ~AtRest(s) /\ request[s].id \notin raced => AsRead(s)

KInv == IInv /\ Apart /\ AllAsRead /\ CommitmentsStored /\ promised \subseteq Exists

USE DEF KInv

LEMMA KeepsInit == SchedulingInit => KInv
BY TypesInit DEF SchedulingInit, Apart, AllAsRead, CommitmentsStored, StoringOn, Exists, AtRest

\* A request that starts on a schedule finds nobody there or races it.
LEMMA StartKeeps ==
  ASSUME KInv, NEW s \in Planners, AtRest(s), NEW id \in Exists, NEW q \in Requests, Start(s, id, q), q.id = id,
         \/ q.step = "commit" /\ row[id].status = "DRAFT" /\ (q.store => q.targets)
         \/ q.step = "activate" /\ row[id].status = "COMMITTED"
  PROVE  /\ Apart' /\ AllAsRead' /\ CommitmentsStored' /\ promised' \subseteq Exists'
<1>1. /\ row' = row /\ promised' = promised /\ Exists' = Exists
      /\ request' = [request EXCEPT ![s] = q] /\ raced \subseteq raced'
      /\ \A t \in Planners : ~AtRest(t) /\ request[t].id = id => id \in raced'
  BY DEF Start, Exists
<1>2. request'[s] = q /\ \A t \in Planners \ {s} : request'[t] = request[t]
  BY <1>1 DEF IInv, Storing
<1>3. \A t \in Planners \ {s} : AtRest(t)' <=> AtRest(t)
  BY <1>2 DEF AtRest
<1>4. Apart'
  BY <1>1, <1>2, <1>3 DEF Apart
<1>5. AllAsRead'
  BY <1>1, <1>2, <1>3 DEF AllAsRead, AsRead
<1>6. CommitmentsStored'
  <2> SUFFICES ASSUME NEW i \in Exists \ raced'
               PROVE  StoringOn(i)' <=> StoringOn(i)
    BY <1>1 DEF CommitmentsStored
  <2> QED
    BY <1>2, <1>3 DEF StoringOn
<1> QED
  BY <1>1, <1>4, <1>5, <1>6

LEMMA KeepsStep == KInv /\ [SchedulingNext]_schedulingVars => KInv'
<1> SUFFICES ASSUME KInv, [SchedulingNext]_schedulingVars PROVE KInv'
  OBVIOUS
<1>1. IInv'
  BY TypesStep
<1> DEFINE Goal == Apart /\ AllAsRead /\ CommitmentsStored /\ promised \subseteq Exists
<1>2. ASSUME UNCHANGED stored PROVE Goal'
  <2>1. row' = row /\ request' = request /\ raced' = raced /\ promised' = promised
    BY <1>2 DEF stored
  <2> QED
    BY <2>1 DEF Apart, AllAsRead, AsRead, CommitmentsStored, StoringOn, Exists, AtRest
<1>3. ASSUME NEW id \in Schedules, Create(id) PROVE Goal'
  <2>1. /\ request' = request /\ raced' = raced /\ promised' = promised /\ id \notin Exists
        /\ Exists' = Exists \cup {id} /\ \A i \in Exists : row'[i] = row[i]
        /\ row'[id].commitments = 0
    BY <1>3 DEF Create, Exists
  <2>2. \A s \in Planners : ~AtRest(s) => request[s].id \in Exists
    BY DEF IInv, Storing
  <2>3. Apart' /\ AllAsRead'
    BY <2>1, <2>2 DEF Apart, AllAsRead, AsRead, AtRest
  <2>4. CommitmentsStored'
    BY <2>1, <2>2 DEF CommitmentsStored, StoringOn, AtRest
  <2> QED
    BY <2>1, <2>3, <2>4
<1>4. ASSUME NEW s \in Planners, NEW id \in Exists, NEW targets \in BOOLEAN, NEW store \in BOOLEAN,
             BeginCommit(s, id, targets, store)
      PROVE  Goal'
  <2> DEFINE q == [step |-> "commit", id |-> id, targets |-> targets, store |-> store /\ targets]
  <2>1. q \in Requests
    BY DEF IInv, Storing, Requests
  <2> QED
    BY <1>4, <2>1, StartKeeps DEF BeginCommit
<1>5. ASSUME NEW s \in Planners, NEW id \in Exists, BeginActivate(s, id) PROVE Goal'
  <2> DEFINE q == [step |-> "activate", id |-> id]
  <2>1. q \in Requests
    BY DEF IInv, Storing, Requests
  <2> QED
    BY <1>5, <2>1, StartKeeps DEF BeginActivate
<1>6. ASSUME NEW s \in Planners, Commit(s) PROVE Goal'
  <2> DEFINE q == request[s]
  <2>0. PICK k : k = q.id
    OBVIOUS
  <2>1. ~AtRest(s) /\ q.step = "commit" /\ k \in Exists /\ q.store \in BOOLEAN /\ q.targets \in BOOLEAN
    BY <2>0, <1>6 DEF Commit, IInv, Storing, AtRest, NoRequest, Requests
  <2>2. /\ raced' = raced /\ Exists' = Exists
        /\ row'[k].status = "COMMITTED" /\ row'[k].targets = q.targets
        /\ row'[k].commitments = row[k].commitments
        /\ \A i \in Exists \ {k} : row'[i] = row[i]
    BY <2>0, <1>6, <2>1 DEF Commit, Exists, IInv, Storing, Rows
  <2>3. /\ request'[s] = IF q.store THEN [step |-> "store", id |-> k] ELSE NoRequest
        /\ \A t \in Planners \ {s} : request'[t] = request[t]
        /\ promised' = IF q.store THEN promised \cup {k} ELSE promised
    BY <2>0, <1>6 DEF Commit, IInv, Storing
  <2>4. \A t \in Planners \ {s} : (AtRest(t)' <=> AtRest(t)) /\ (~AtRest(t) /\ request[t].id = k => k \in raced)
    BY <2>0, <2>1, <2>3 DEF AtRest, Apart
  <2>5. AtRest(s)' <=> ~q.store
    BY <2>0, <2>1, <2>3 DEF AtRest, NoRequest
  <2>6. Apart'
    BY <2>0, <2>1, <2>2, <2>3, <2>4, <2>5 DEF Apart
  <2>7. AllAsRead'
    <3> SUFFICES ASSUME NEW t \in Planners, ~AtRest(t)', request'[t].id \notin raced
                 PROVE  AsRead(t)'
      BY <2>0, <2>2 DEF AllAsRead
    <3>1. CASE t = s
      BY <2>0, <3>1, <2>3, <2>5 DEF AsRead
    <3>2. CASE t # s
      <4>1. ~AtRest(t) /\ request'[t] = request[t] /\ request[t].id # k /\ request[t].id \in Exists
        BY <2>0, <3>2, <2>3, <2>4 DEF IInv, Storing
      <4>2. AsRead(t)
        BY <2>0, <4>1 DEF AllAsRead
      <4> QED
        BY <2>0, <4>1, <4>2, <2>2, <2>3 DEF AsRead
    <3> QED
      BY <2>0, <3>1, <3>2
  <2>8. CommitmentsStored'
    <3>1. \A i \in Exists \ {k} : StoringOn(i)' <=> StoringOn(i)
      BY <2>0, <2>1, <2>3, <2>4, <2>5 DEF StoringOn
    <3>2. ASSUME k \notin raced
          PROVE  /\ row[k].status = "DRAFT" /\ (q.store => q.targets) /\ k \notin promised
                 /\ row[k].commitments = 0
      BY <2>0, <3>2, <2>1 DEF AllAsRead, AsRead, CommitmentsStored
    <3>3. ASSUME k \notin raced, q.store PROVE StoringOn(k)'
      BY <2>0, <3>3, <2>3, <2>5 DEF StoringOn
    <3>4. ASSUME NEW i \in Exists \ raced, i # k
          PROVE  /\ row'[i].commitments = IF i \in promised' /\ ~StoringOn(i)' THEN 1 ELSE 0
                 /\ i \in promised' => row'[i].targets /\ row'[i].status # "DRAFT"
      <4>1. (i \in promised' <=> i \in promised) /\ row'[i] = row[i] /\ (StoringOn(i)' <=> StoringOn(i))
        BY <2>0, <3>1, <3>4, <2>2, <2>3
      <4> QED
        BY <2>0, <4>1 DEF CommitmentsStored
    <3>5. ASSUME k \notin raced
          PROVE  /\ row'[k].commitments = IF k \in promised' /\ ~StoringOn(k)' THEN 1 ELSE 0
                 /\ k \in promised' => row'[k].targets /\ row'[k].status # "DRAFT"
      BY <2>0, <3>2, <3>3, <3>5, <2>2, <2>3
    <3>6. SUFFICES ASSUME NEW i \in Exists \ raced
                   PROVE  /\ row'[i].commitments = IF i \in promised' /\ ~StoringOn(i)' THEN 1 ELSE 0
                          /\ i \in promised' => row'[i].targets /\ row'[i].status # "DRAFT"
      BY <2>0, <2>2 DEF CommitmentsStored
    <3>7. CASE i = k
      BY <2>0, <3>5, <3>7
    <3>8. CASE i # k
      BY <2>0, <3>4, <3>8
    <3> QED
      BY <2>0, <3>7, <3>8
  <2>9. promised' \subseteq Exists'
    BY <2>0, <2>1, <2>2, <2>3
  <2> QED
    BY <2>0, <2>6, <2>7, <2>8, <2>9
<1>7. ASSUME NEW s \in Planners, StoreCommitments(s) \/ Activate(s) \/ Fail(s) PROVE Goal'
  <2> DEFINE q == request[s]
  <2>0. PICK k : k = q.id
    OBVIOUS
  <2>1. ~AtRest(s) /\ k \in Exists /\ raced' = raced /\ Exists' = Exists
    BY <2>0, <1>7 DEF StoreCommitments, Activate, Fail, IInv, Storing, AtRest, NoRequest, Exists
  <2>2. AtRest(s)' /\ \A t \in Planners \ {s} : request'[t] = request[t] /\ (AtRest(t)' <=> AtRest(t))
    BY <2>0, <1>7 DEF StoreCommitments, Activate, Fail, IInv, Storing, AtRest
  <2>3. \A t \in Planners \ {s} : ~AtRest(t) /\ request[t].id = k => k \in raced
    BY <2>0, <2>1 DEF Apart
  <2>4. \A i \in Exists \ {k} : row'[i] = row[i] /\ (i \in promised' <=> i \in promised)
    BY <2>0, <1>7, <2>1 DEF StoreCommitments, Activate, Fail, IInv, Storing, Exists
  <2>5. Apart' /\ promised' \subseteq Exists'
    BY <2>0, <1>7, <2>1, <2>2 DEF Apart, StoreCommitments, Activate, Fail
  <2>6. AllAsRead'
    <3> SUFFICES ASSUME NEW t \in Planners, ~AtRest(t)', request'[t].id \notin raced
                 PROVE  AsRead(t)'
      BY <2>0, <2>1 DEF AllAsRead
    <3>1. t # s /\ ~AtRest(t) /\ request'[t] = request[t]
      BY <2>0, <2>2
    <3>2. request[t].id # k /\ request[t].id \in Exists
      BY <2>0, <3>1, <2>3 DEF IInv, Storing
    <3>3. AsRead(t)
      BY <2>0, <3>1 DEF AllAsRead
    <3> QED
      BY <2>0, <3>1, <3>2, <3>3, <2>4 DEF AsRead
  <2>7. ASSUME NEW i \in Exists \ raced, i # k
        PROVE  /\ row'[i].commitments = IF i \in promised' /\ ~StoringOn(i)' THEN 1 ELSE 0
               /\ i \in promised' => row'[i].targets /\ row'[i].status # "DRAFT"
    <3>1. StoringOn(i)' <=> StoringOn(i)
      BY <2>0, <2>1, <2>2, <2>7 DEF StoringOn
    <3> QED
      BY <2>0, <3>1, <2>4, <2>7 DEF CommitmentsStored
  <2>8. ASSUME k \notin raced
        PROVE  /\ row'[k].commitments = IF k \in promised' /\ ~StoringOn(k)' THEN 1 ELSE 0
               /\ k \in promised' => row'[k].targets /\ row'[k].status # "DRAFT"
    <3>1. ~StoringOn(k)' /\ (StoringOn(k) <=> q.step = "store")
      <4>1. \A t \in Planners \ {s} : ~(~AtRest(t) /\ request[t].id = k)
        BY <2>0, <2>3, <2>8
      <4>2. \A t \in Planners \ {s} : ~(~AtRest(t)' /\ request'[t].id = k)
        BY <2>0, <4>1, <2>2
      <4>3. StoringOn(k) <=> q.step = "store"
        BY <2>0, <4>1, <2>1 DEF StoringOn
      <4>4. ~StoringOn(k)'
        <5> SUFFICES ASSUME NEW t \in Planners, ~AtRest(t)', request'[t].id = k PROVE FALSE
          BY DEF StoringOn
        <5> QED
          BY <2>0, <4>2, <2>2
      <4> QED
        BY <2>0, <4>3, <4>4
    <3>2. /\ row[k].commitments = IF k \in promised /\ ~StoringOn(k) THEN 1 ELSE 0
          /\ k \in promised => row[k].targets /\ row[k].status # "DRAFT"
      BY <2>0, <2>1, <2>8 DEF CommitmentsStored
    <3>3. AsRead(s) /\ row[k] \in Rows /\ row \in [Exists -> Rows]
      BY <2>0, <2>1, <2>8 DEF AllAsRead, IInv, Storing
    <3>4. CASE StoreCommitments(s)
      <4>1. q.step = "store" /\ k \in promised /\ promised' = promised
        BY <2>0, <3>3, <3>4 DEF StoreCommitments, AsRead
      <4>2. row'[k] = [row[k] EXCEPT !.commitments = @ + 1]
        BY <2>0, <3>3, <3>4, <2>1 DEF StoreCommitments
      <4> QED
        BY <2>0, <4>1, <4>2, <3>1, <3>2, <3>3 DEF Rows
    <3>5. CASE Activate(s)
      <4>1. q.step = "activate" /\ promised' = promised
        BY <2>0, <3>5 DEF Activate
      <4>2. row'[k] = [row[k] EXCEPT !.status = "ACTIVE"]
        BY <2>0, <3>3, <3>5, <2>1 DEF Activate
      <4> QED
        BY <2>0, <4>1, <4>2, <3>1, <3>2, <3>3 DEF Rows
    <3>6. CASE Fail(s)
      <4>1. row' = row /\ promised' = IF q.step = "store" THEN promised \ {k} ELSE promised
        BY <2>0, <3>6 DEF Fail
      <4> QED
        BY <2>0, <4>1, <3>1, <3>2
    <3> QED
      BY <2>0, <1>7, <3>4, <3>5, <3>6
  <2>9. CommitmentsStored'
    <3>1. SUFFICES ASSUME NEW i \in Exists \ raced
                   PROVE  /\ row'[i].commitments = IF i \in promised' /\ ~StoringOn(i)' THEN 1 ELSE 0
                          /\ i \in promised' => row'[i].targets /\ row'[i].status # "DRAFT"
      BY <2>0, <2>1 DEF CommitmentsStored
    <3>2. CASE i = k
      BY <2>0, <2>8, <3>2
    <3>3. CASE i # k
      BY <2>0, <2>7, <3>3
    <3> QED
      BY <2>0, <3>2, <3>3
  <2> QED
    BY <2>0, <2>5, <2>6, <2>9
<1>8. CASE Assign
  BY <1>1, <1>2, <1>8 DEF Assign
<1>9. CASE UNCHANGED schedulingVars
  BY <1>1, <1>2, <1>9 DEF schedulingVars
<1> QED
  BY <1>1, <1>3, <1>4, <1>5, <1>6, <1>7, <1>8, <1>9 DEF SchedulingNext

\* The KPI commitments of a schedule that no two requests worked on at once
\* are stored once, for any number of schedules and requests
\* (capacity_service.py commit_schedule, kpi_integration_service.py).
THEOREM AlwaysCommitmentsStored == SchedulingSpec => []CommitmentsStored
BY KeepsInit, KeepsStep, PTL DEF SchedulingSpec

\* What is committed stays committed, by the same planner and to the same
\* targets, as long as requests do not overlap on the schedule
\* (scheduling_service.py commit_schedule, activate_schedule).
THEOREM CommittedAlwaysStays == SchedulingSpec => CommittedStays
<1>1. KInv /\ [SchedulingNext]_schedulingVars =>
        [\A id \in Exists : row[id].status # "DRAFT" /\ id \notin raced' =>
          /\ row'[id].status \in {row[id].status, "ACTIVE"}
          /\ row'[id].by = row[id].by /\ row'[id].targets = row[id].targets]_schedulingVars
  <2> SUFFICES ASSUME KInv, SchedulingNext, NEW id \in Exists, row[id].status # "DRAFT", id \notin raced'
               PROVE  /\ row'[id].status \in {row[id].status, "ACTIVE"}
                      /\ row'[id].by = row[id].by /\ row'[id].targets = row[id].targets
    OBVIOUS
  <2> DEFINE Same == row'[id] = row[id]
  <2>1. CASE Assign
    BY <2>1 DEF Assign, stored
  <2>2. ASSUME NEW i \in Schedules, Create(i) PROVE Same
    BY <2>2 DEF Create, Exists
  <2>3. ASSUME NEW s \in Planners, NEW i \in Exists, NEW targets \in BOOLEAN, NEW store \in BOOLEAN,
               BeginCommit(s, i, targets, store) \/ BeginActivate(s, i) \/ Fail(s)
        PROVE  Same
    BY <2>3 DEF BeginCommit, BeginActivate, Start, Fail
  <2>4. ASSUME NEW s \in Planners, Commit(s) PROVE Same
    <3>1. ~AtRest(s) /\ raced' = raced /\ request[s].id \in Exists
      BY <2>4 DEF Commit, IInv, Storing, AtRest, NoRequest
    <3>2. request[s].id # id
      BY <3>1, <2>4 DEF AllAsRead, AsRead, Commit
    <3> QED
      BY <2>4, <3>1, <3>2 DEF Commit, IInv, Storing, Exists
  <2>5. ASSUME NEW s \in Planners, StoreCommitments(s) PROVE Same \/ row'[id] = [row[id] EXCEPT !.commitments = @ + 1]
    BY <2>5 DEF StoreCommitments, IInv, Storing, Exists
  <2>6. ASSUME NEW s \in Planners, Activate(s) PROVE Same \/ row'[id] = [row[id] EXCEPT !.status = "ACTIVE"]
    BY <2>6 DEF Activate, IInv, Storing, Exists
  <2>7. row[id] \in Rows
    BY DEF IInv, Storing
  <2>8. CASE Same
    BY <2>8
  <2>9. CASE row'[id] = [row[id] EXCEPT !.commitments = @ + 1]
    BY <2>7, <2>9 DEF Rows
  <2>10. CASE row'[id] = [row[id] EXCEPT !.status = "ACTIVE"]
    BY <2>7, <2>10 DEF Rows
  <2> QED
    BY <2>1, <2>2, <2>3, <2>4, <2>5, <2>6, <2>8, <2>9, <2>10 DEF SchedulingNext
<1> QED
  BY <1>1, KeepsInit, KeepsStep, PTL DEF SchedulingSpec, CommittedStays

-----------------------------------------------------------------------------
(* Scheduling: the capacity of a line, and urgency.                        *)

On(l) == {p \in DOMAIN placed : placed[p].line = l}
Here(l, d) == {p \in On(l) : placed[p].day = d}
hours == [o \in Orders |-> Hours(o)]

\* What is left of a line and what its orders take are its net hours.
Paid == \A l \in Lines : left[l] + SumFunctionOnSet(hours, On(l)) = Capacity(l)

\* No order still to come is before one that has been dealt with.
Sorted == \A o \in Orders \ pending, p \in pending : ~Before(p, o)

\* The orders of a line and day are numbered from 1 in order.
Numbered ==
  \A l \in Lines, d \in input.days :
    /\ counter[<<l, d>>] = Cardinality(Here(l, d))
    /\ {placed[o].sequence : o \in Here(l, d)} = 1..Cardinality(Here(l, d))
    /\ \A o, p \in Here(l, d) : Before(o, p) => placed[o].sequence < placed[p].sequence

\* An order left out did not fit beside the more urgent ones.
LeftOut ==
  \A o \in unscheduled : StartDays(o) # {} =>
    \A l \in Lines : Hours(o) + SumFunctionOnSet(hours, {p \in On(l) : ~Before(o, p)}) > Capacity(l)

UInv == IInv /\ Paid /\ Sorted /\ Numbered /\ LeftOut

LEMMA HoursAreNat == Generating => /\ \A o \in Orders : Hours(o) \in Nat /\ hours[o] = Hours(o) /\ hours[o] \in Nat
                                   /\ \A l \in Lines : On(l) \subseteq Orders /\ IsFiniteSet(On(l))
<1> SUFFICES ASSUME Generating
             PROVE /\ \A o \in Orders : Hours(o) \in Nat /\ hours[o] = Hours(o) /\ hours[o] \in Nat
                   /\ \A l \in Lines : On(l) \subseteq Orders /\ IsFiniteSet(On(l))
  OBVIOUS
<1>1. \A o \in Orders : Hours(o) \in Nat
  BY DemandsAssumption DEF Generating, Hours, DemandRows
<1>2. \A l \in Lines : On(l) \in SUBSET Orders
  BY DEF On, Generating
<1>3. \A l \in Lines : IsFiniteSet(On(l))
  BY <1>2, KeysAssumption, FS_Subset
<1> QED
  BY <1>1, <1>2, <1>3 DEF hours

LEMMA CapacityIsNat == Generating => \A l \in Lines : Capacity(l) \in Nat
<1> SUFFICES ASSUME Generating, NEW l \in Lines PROVE Capacity(l) \in Nat
  OBVIOUS
<1>1. IsFiniteSet(Period)
  BY PeriodAssumption, FS_Interval DEF Period
<1>2. Cardinality(input.days) \in Nat
  BY <1>1, FS_Subset, FS_CardinalityType DEF Generating
<1>3. input.rate[l] \in Nat
  BY RatesAssumption DEF Generating
<1>4. \A m, n \in Nat : m * n \in Nat
  OBVIOUS
<1> QED
  BY <1>2, <1>3, <1>4 DEF Capacity

LEMMA UrgencyInit == SchedulingInit => UInv
<1> SUFFICES ASSUME SchedulingInit PROVE UInv
  OBVIOUS
<1>1. IInv
  BY TypesInit
<1>2. \A l \in Lines : On(l) = {} /\ \A d : Here(l, d) = {}
  BY DEF SchedulingInit, GenerationInit, On, Here
<1>3. Paid
  <2> SUFFICES ASSUME NEW l \in Lines PROVE left[l] + SumFunctionOnSet(hours, On(l)) = Capacity(l)
    BY DEF Paid
  <2>1. On(l) = {} /\ left[l] = Capacity(l) /\ Capacity(l) \in Nat
    BY <1>1, <1>2, CapacityIsNat DEF IInv, SchedulingInit, GenerationInit
  <2>2. SumFunctionOnSet(hours, On(l)) = 0
    BY <2>1, SumEmpty
  <2> QED
    BY <2>1, <2>2
<1>4. Numbered
  <2> SUFFICES ASSUME NEW l \in Lines, NEW d \in input.days
               PROVE  /\ counter[<<l, d>>] = Cardinality(Here(l, d))
                      /\ {placed[o].sequence : o \in Here(l, d)} = 1..Cardinality(Here(l, d))
                      /\ \A o, p \in Here(l, d) : Before(o, p) => placed[o].sequence < placed[p].sequence
    BY DEF Numbered
  <2>1. Here(l, d) = {} /\ Cardinality(Here(l, d)) = 0
    BY <1>2, FS_EmptySet
  <2>2. d \in Period
    BY <1>1 DEF IInv, Generating
  <2>3. counter[<<l, d>>] = 0
    BY <2>2 DEF SchedulingInit, GenerationInit
  <2> QED
    BY <2>1, <2>3
<1>5. Sorted /\ LeftOut
  BY DEF SchedulingInit, GenerationInit, Sorted, LeftOut
<1> QED
  BY <1>1, <1>3, <1>4, <1>5 DEF UInv

\* An order that is placed adds itself to its line, day and load.
LEMMA PlaceKeeps ==
  ASSUME UInv, NEW o \in pending, pending' = pending \ {o}, input' = input, Place(o), Generating',
         \A p \in pending : ~Before(p, o)
  PROVE  Paid' /\ Numbered' /\ LeftOut'
<1> USE DEF UInv
<1>1. PICK l \in Fitting(o), d \in StartDays(o) :
        /\ counter' = [counter EXCEPT ![<<l, d>>] = @ + 1]
        /\ placed' = [p \in DOMAIN placed \cup {o} |->
                        IF p = o THEN [line |-> l, day |-> d, sequence |-> counter[<<l, d>>] + 1] ELSE placed[p]]
        /\ left' = [left EXCEPT ![l] = @ - Hours(o)]
        /\ UNCHANGED unscheduled
  BY DEF Place
<1>2. l \in Lines /\ left[l] \in Nat /\ left[l] >= Hours(o) /\ d \in input.days /\ d \in Period /\ o \in Orders
      /\ o \notin DOMAIN placed /\ o \notin unscheduled
  BY <1>1 DEF IInv, Generating, Fitting, StartDays
<1>3. /\ On(l)' = On(l) \cup {o} /\ o \notin On(l)
      /\ \A m \in Lines \ {l} : On(m)' = On(m)
  BY <1>1, <1>2 DEF On
<1>4. hours' = hours /\ \A m \in Lines : Capacity(m)' = Capacity(m) /\ Capacity(m) \in Nat
  BY CapacityIsNat DEF hours, Hours, Capacity, IInv
<1>5. /\ \A p \in Orders : Hours(p) \in Nat /\ hours[p] = Hours(p) /\ hours[p] \in Nat
      /\ \A m \in Lines : On(m) \subseteq Orders /\ IsFiniteSet(On(m))
  BY HoursAreNat DEF IInv
<1>6. \A p, q \in Orders : Before(p, q)' <=> Before(p, q)
  BY DEF Before
<1>7. \A p \in DOMAIN placed : ~Before(o, p)
  BY DEF IInv, Generating, Sorted
<1>8. Paid'
  <2> SUFFICES ASSUME NEW m \in Lines
               PROVE left'[m] + SumFunctionOnSet(hours, On(m)') = Capacity(m)
    BY <1>4 DEF Paid
  <2>1. CASE m = l
    <3>1. SumFunctionOnSet(hours, On(l) \cup {o}) = SumFunctionOnSet(hours, On(l)) + hours[o]
      BY <1>2, <1>3, <1>5, SumAdd
    <3>2. SumFunctionOnSet(hours, On(l)) \in Nat
      BY <1>2, <1>5, SumType
    <3>3. left'[l] = left[l] - Hours(o)
      BY <1>1, <1>2 DEF IInv, Generating
    <3>4. left[l] + SumFunctionOnSet(hours, On(l)) = Capacity(l)
      BY <1>2 DEF Paid
    <3> DEFINE before == SumFunctionOnSet(hours, On(l))
               after == SumFunctionOnSet(hours, On(l) \cup {o})
    <3>5. after = before + Hours(o) /\ Hours(o) \in Nat
      BY <1>2, <1>5, <3>1
    <3> HIDE DEF before, after
    <3>6. left'[l] + after = Capacity(l)
      BY <1>2, <3>2, <3>3, <3>4, <3>5 DEF before
    <3> QED
      BY <1>3, <2>1, <3>6 DEF after
  <2>2. CASE m # l
    <3>1. left'[m] = left[m] /\ On(m)' = On(m)
      BY <1>1, <1>3, <2>2 DEF IInv, Generating
    <3> QED
      BY <3>1 DEF Paid
  <2> QED
    BY <2>1, <2>2
<1>9. ASSUME NEW m \in Lines, NEW e \in input.days
      PROVE  /\ counter'[<<m, e>>] = Cardinality(Here(m, e)')
             /\ {placed'[p].sequence : p \in Here(m, e)'} = 1..Cardinality(Here(m, e)')
             /\ \A p, q \in Here(m, e)' : Before(p, q) => placed'[p].sequence < placed'[q].sequence
  <2>0. e \in Period
    BY DEF IInv, Generating
  <2>1. /\ counter[<<m, e>>] = Cardinality(Here(m, e))
        /\ {placed[p].sequence : p \in Here(m, e)} = 1..Cardinality(Here(m, e))
        /\ \A p, q \in Here(m, e) : Before(p, q) => placed[p].sequence < placed[q].sequence
    BY DEF Numbered
  <2>2. Here(m, e) \in SUBSET On(m) /\ IsFiniteSet(Here(m, e)) /\ Cardinality(Here(m, e)) \in Nat
        /\ Here(m, e) \subseteq Orders
    BY <1>5, FS_Subset, FS_CardinalityType DEF Here
  <2>3. CASE m = l /\ e = d
    <3> DEFINE H == Here(l, d)
               n == Cardinality(H)
    <3>1. Here(l, d)' = H \cup {o} /\ o \notin H
      BY <1>1, <1>2, <1>3 DEF Here, On
    <3>2. Cardinality(H \cup {o}) = n + 1
      BY <2>2, <2>3, <3>1, FS_AddElement
    <3>3. /\ placed'[o].sequence = n + 1
          /\ \A p \in H : placed'[p] = placed[p]
      BY <1>1, <1>2, <2>1, <2>3 DEF Here, On
    <3>4. counter'[<<l, d>>] = n + 1
      BY <1>1, <1>2, <2>1, <2>3 DEF IInv, Generating
    <3>5. \A p \in H : placed[p].sequence \in 1..n
      BY <2>1, <2>3
    <3>6. \A p \in H : ~Before(o, p)
      BY <1>7 DEF Here, On
    <3>7. ~Before(o, o)
      OBVIOUS
    <3>8. {placed'[p].sequence : p \in H \cup {o}} = {placed[p].sequence : p \in H} \cup {n + 1}
      BY <3>1, <3>3
    <3>9. (1..n) \cup {n + 1} = 1..(n + 1)
      BY <2>2, <2>3
    <3>10. \A p, q \in H \cup {o} : Before(p, q) => placed'[p].sequence < placed'[q].sequence
      <4> SUFFICES ASSUME NEW p \in H \cup {o}, NEW q \in H \cup {o}, Before(p, q)
                   PROVE  placed'[p].sequence < placed'[q].sequence
        OBVIOUS
      <4>1. p \in H
        BY <3>6, <3>7
      <4>2. CASE q \in H
        BY <4>1, <4>2, <3>3, <2>1, <2>3
      <4>3. CASE q = o
        BY <4>1, <4>3, <3>3, <3>5, <2>2, <2>3
      <4> QED
        BY <4>2, <4>3
    <3> HIDE DEF H, n
    <3>11. {placed[p].sequence : p \in H} = 1..n
      BY <2>1, <2>3 DEF H, n
    <3> QED
      BY <2>3, <3>1, <3>2, <3>4, <3>8, <3>9, <3>10, <3>11
  <2>4. CASE m # l \/ e # d
    <3>1. Here(m, e)' = Here(m, e)
      <4>1. \A p \in DOMAIN placed : placed'[p] = placed[p]
        BY <1>1, <1>2
      <4>2. DOMAIN placed' = DOMAIN placed \cup {o} /\ placed'[o].line = l /\ placed'[o].day = d
        BY <1>1
      <4> QED
        BY <2>4, <4>1, <4>2 DEF Here, On
    <3>2. counter'[<<m, e>>] = counter[<<m, e>>]
      BY <1>1, <1>2, <2>0, <2>4 DEF IInv, Generating
    <3>3. \A p \in Here(m, e) : placed'[p] = placed[p]
      BY <1>1, <1>2 DEF Here, On
    <3> QED
      BY <2>1, <3>1, <3>2, <3>3
  <2> QED
    BY <2>3, <2>4
<1>10. Numbered'
  <2>1. \A m \in Lines, e \in input'.days : Here(m, e)' \subseteq Orders
    BY <1>3, <1>5, <1>2 DEF Here
  <2> QED
    BY <1>6, <1>9, <2>1 DEF Numbered
<1>11. LeftOut'
  <2> SUFFICES ASSUME NEW p \in unscheduled, StartDays(p) # {}, NEW m \in Lines
               PROVE  Hours(p) + SumFunctionOnSet(hours, {q \in On(m)' : ~Before(p, q)}) > Capacity(m)
    <3>1. \A p \in Orders : Hours(p)' = Hours(p) /\ StartDays(p)' = StartDays(p)
      BY DEF Hours, StartDays
    <3>2. unscheduled \subseteq Orders /\ unscheduled' = unscheduled /\ \A m \in Lines : On(m)' \subseteq Orders
      BY <1>1, <1>2, <1>3, <1>5 DEF IInv, Generating
    <3>3. \A p \in unscheduled, m \in Lines : {q \in On(m)' : ~Before(p, q)'} = {q \in On(m)' : ~Before(p, q)}
      BY <1>6, <3>2
    <3> QED
      BY <1>4, <3>1, <3>2, <3>3 DEF LeftOut
  <2> DEFINE A == {q \in On(m) : ~Before(p, q)}
             B == {q \in On(m)' : ~Before(p, q)}
  <2>1. On(m) \subseteq On(m)' /\ On(m)' \in SUBSET Orders /\ p \in Orders
    BY <1>2, <1>3, <1>5 DEF IInv, Generating
  <2>2. A \in SUBSET B /\ IsFiniteSet(B) /\ \A q \in B : hours[q] \in Nat
    <3>1. B \in SUBSET Orders
      BY <2>1
    <3> QED
      BY <2>1, <3>1, <1>5, KeysAssumption, FS_Subset
  <2>3. IsFiniteSet(A) /\ \A q \in A : hours[q] \in Nat
    BY <2>2, FS_Subset
  <2>4. Hours(p) + SumFunctionOnSet(hours, A) > Capacity(m)
    BY DEF LeftOut
  <2> HIDE DEF A, B
  <2>5. SumFunctionOnSet(hours, A) <= SumFunctionOnSet(hours, B)
    BY <2>2, SumMonotone
  <2>6. SumFunctionOnSet(hours, A) \in Nat /\ SumFunctionOnSet(hours, B) \in Nat
    BY <2>2, <2>3, SumType
  <2>7. Hours(p) + SumFunctionOnSet(hours, B) > Capacity(m)
    BY <2>1, <2>4, <2>5, <2>6, <1>4, <1>5
  <2> QED
    BY <2>7 DEF B
<1> QED
  BY <1>8, <1>10, <1>11

\* An order that fits on no line had to yield only to more urgent ones.
LEMMA SkipKeeps ==
  ASSUME UInv, NEW o \in pending, pending' = pending \ {o}, input' = input, Skip(o)
  PROVE  Paid' /\ Numbered' /\ LeftOut'
<1> USE DEF UInv
<1>1. /\ unscheduled' = unscheduled \cup {o} /\ placed' = placed /\ left' = left /\ counter' = counter
      /\ Fitting(o) = {} \/ StartDays(o) = {}
  BY DEF Skip
<1>2. /\ \A m \in Lines : On(m)' = On(m) /\ Capacity(m)' = Capacity(m) /\ Capacity(m) \in Nat
      /\ hours' = hours /\ \A m, e : Here(m, e)' = Here(m, e)
      /\ \A p, q : Before(p, q)' <=> Before(p, q)
      /\ \A p : Hours(p)' = Hours(p) /\ StartDays(p)' = StartDays(p)
  BY <1>1, CapacityIsNat DEF On, Here, hours, Hours, Capacity, Before, StartDays, IInv
<1>3. Paid' /\ Numbered'
  BY <1>1, <1>2 DEF Paid, Numbered
<1>4. ASSUME StartDays(o) # {}, NEW m \in Lines
      PROVE  Hours(o) + SumFunctionOnSet(hours, {p \in On(m) : ~Before(o, p)}) > Capacity(m)
  <2>1. o \in Orders /\ left[m] \in Nat /\ left[m] < Hours(o)
    BY <1>1, <1>4, HoursAreNat DEF IInv, Generating, Fitting
  <2>2. {p \in On(m) : ~Before(o, p)} = On(m)
    BY DEF Sorted, On, IInv, Generating
  <2>3. left[m] + SumFunctionOnSet(hours, On(m)) = Capacity(m)
    BY DEF Paid
  <2>4. SumFunctionOnSet(hours, On(m)) \in Nat /\ Hours(o) \in Nat
    <3>1. IsFiniteSet(On(m)) /\ (\A p \in On(m) : hours[p] \in Nat) /\ Hours(o) \in Nat
      BY <2>1, HoursAreNat DEF IInv
    <3> QED
      BY <3>1, SumType
  <2>5. PICK a \in Nat, b \in Nat, h \in Nat : a = left[m] /\ b = SumFunctionOnSet(hours, On(m)) /\ h = Hours(o)
    BY <2>1, <2>4
  <2>6. a < h /\ a + b = Capacity(m)
    BY <2>1, <2>3, <2>5
  <2>7. h + b > a + b
    BY <2>5, <2>6
  <2>8. SumFunctionOnSet(hours, {p \in On(m) : ~Before(o, p)}) = b
    BY <2>2, <2>5
  <2> QED
    BY <2>5, <2>6, <2>7, <2>8
<1>5. LeftOut'
  <2>1. \A p \in unscheduled' : StartDays(p) # {} =>
          \A m \in Lines : Hours(p) + SumFunctionOnSet(hours, {q \in On(m) : ~Before(p, q)}) > Capacity(m)
    BY <1>1, <1>4 DEF LeftOut
  <2>2. \A p, m : m \in Lines => {q \in On(m)' : ~Before(p, q)'} = {q \in On(m) : ~Before(p, q)}
    BY <1>2
  <2> QED
    BY <1>2, <2>1, <2>2 DEF LeftOut
<1> QED
  BY <1>3, <1>5

LEMMA UrgencyStep == UInv /\ [SchedulingNext]_schedulingVars => UInv'
<1> SUFFICES ASSUME UInv, [SchedulingNext]_schedulingVars PROVE UInv'
  OBVIOUS
<1>1. IInv' /\ IInv /\ Generating'
  BY TypesStep DEF UInv, IInv
<1>2. CASE Assign
  <2>1. PICK o \in pending : /\ pending' = pending \ {o} /\ input' = input
                             /\ Place(o) \/ Skip(o)
                             /\ \A p \in pending : ~Before(p, o)
    BY <1>2 DEF Assign
  <2>2. Paid' /\ Numbered' /\ LeftOut'
    BY <1>1, <2>1, PlaceKeeps, SkipKeeps
  <2>3. Sorted'
    <3>1. \A p, q : Before(p, q)' <=> Before(p, q)
      BY <2>1 DEF Before
    <3> QED
      BY <2>1, <3>1 DEF UInv, Sorted
  <2> QED
    BY <1>1, <2>2, <2>3 DEF UInv
<1>3. CASE UNCHANGED generation
  <2>1. /\ input' = input /\ pending' = pending /\ placed' = placed /\ unscheduled' = unscheduled
        /\ left' = left /\ counter' = counter
    BY <1>3 DEF generation
  <2>2. /\ \A m \in Lines : On(m)' = On(m) /\ Capacity(m)' = Capacity(m)
        /\ hours' = hours /\ \A m, e : Here(m, e)' = Here(m, e)
        /\ \A p, q : Before(p, q)' <=> Before(p, q)
        /\ \A p : Hours(p)' = Hours(p) /\ StartDays(p)' = StartDays(p)
    BY <2>1 DEF On, Here, hours, Hours, Capacity, Before, StartDays
  <2>3. \A p, m : m \in Lines => {q \in On(m)' : ~Before(p, q)'} = {q \in On(m) : ~Before(p, q)}
    BY <2>2
  <2>4. Paid' /\ Numbered' /\ Sorted'
    BY <2>1, <2>2 DEF UInv, Paid, Numbered, Sorted
  <2>5. LeftOut'
    BY <2>1, <2>2, <2>3 DEF UInv, LeftOut
  <2> QED
    BY <1>1, <2>4, <2>5 DEF UInv
<1>4. Assign \/ UNCHANGED generation
  BY DEF SchedulingNext, Create, BeginCommit, BeginActivate, Start, Commit, StoreCommitments, Activate, Fail, schedulingVars
<1> QED
  BY <1>2, <1>3, <1>4

\* The orders of a line never take more than its net hours, for any orders,
\* lines and days (_assign_orders_to_lines).
THEOREM AlwaysWithinCapacity == SchedulingSpec => []WithinCapacity
<1>1. UInv => WithinCapacity
  <2> SUFFICES ASSUME UInv, NEW l \in Lines
               PROVE  Load(l, Orders) <= Capacity(l) /\ left[l] = Capacity(l) - Load(l, Orders)
    BY DEF WithinCapacity
  <2>1. Load(l, Orders) = SumFunctionOnSet(hours, On(l))
    <3>1. {o \in Orders \cap DOMAIN placed : placed[o].line = l} = On(l)
      BY DEF UInv, IInv, Generating, On
    <3> QED
      BY <3>1 DEF Load, hours
  <2>2. SumFunctionOnSet(hours, On(l)) \in Nat
    <3>1. IsFiniteSet(On(l)) /\ (\A p \in On(l) : hours[p] \in Nat)
      BY HoursAreNat DEF UInv, IInv
    <3> QED
      BY <3>1, SumType
  <2>3. left[l] \in Nat /\ Capacity(l) \in Nat
    BY CapacityIsNat DEF UInv, IInv, Generating
  <2> QED
    BY <2>1, <2>2, <2>3 DEF UInv, Paid
<1> QED
  BY <1>1, UrgencyInit, UrgencyStep, PTL DEF SchedulingSpec

\* Urgency decides, for any orders, lines and days (_sort_orders,
\* _assign_orders_to_lines): what was left out did not fit beside the more
\* urgent orders, and the orders of a line and day are numbered by urgency.
THEOREM AlwaysUrgentFirst == SchedulingSpec => []UrgentFirst
<1>1. UInv => UrgentFirst
  <2> SUFFICES ASSUME UInv PROVE UrgentFirst
    OBVIOUS
  <2>1. ASSUME NEW o \in unscheduled, StartDays(o) # {}, NEW l \in Lines
        PROVE  Hours(o) + Load(l, {p \in Orders : ~Before(o, p)}) > Capacity(l)
    <3>1. {q \in {p \in Orders : ~Before(o, p)} \cap DOMAIN placed : placed[q].line = l}
            = {p \in On(l) : ~Before(o, p)}
      BY DEF UInv, IInv, Generating, On
    <3>2. Load(l, {p \in Orders : ~Before(o, p)}) = SumFunctionOnSet(hours, {p \in On(l) : ~Before(o, p)})
      BY <3>1 DEF Load, hours
    <3> QED
      BY <2>1, <3>2 DEF UInv, LeftOut
  <2>2. ASSUME NEW l \in Lines, NEW d \in input.days
        PROVE LET here == {o \in DOMAIN placed : placed[o].line = l /\ placed[o].day = d}
              IN /\ {placed[o].sequence : o \in here} = 1..Cardinality(here)
                 /\ \A o, p \in here : Before(o, p) => placed[o].sequence < placed[p].sequence
    <3>1. {o \in DOMAIN placed : placed[o].line = l /\ placed[o].day = d} = Here(l, d)
      BY DEF Here, On
    <3> QED
      BY <3>1 DEF UInv, Numbered
  <2> QED
    BY <2>1, <2>2 DEF UrgentFirst
<1> QED
  BY <1>1, UrgencyInit, UrgencyStep, PTL DEF SchedulingSpec

-----------------------------------------------------------------------------
(* Simulation: machines.                                                   *)

\* Rounding up covers the demand with less than a bundle to spare.
LEMMA RoundedUp ==
  \A w \in Nat, d \in Nat \ {0} :
    LET n == -((-w) \div d)
    IN n \in Nat /\ w <= n * d /\ n * d < w + d
<1> SUFFICES ASSUME NEW w \in Nat, NEW d \in Nat \ {0}
             PROVE  LET n == -((-w) \div d) IN n \in Nat /\ w <= n * d /\ n * d < w + d
  OBVIOUS
<1> DEFINE q == (-w) \div d
<1>1. q \in Int /\ d * q <= -w /\ -w < d * q + d
  OBVIOUS
<1> HIDE DEF q
<1>2. (-q) * d = -(d * q) /\ d * q \in Int
  BY <1>1
<1>3. w <= (-q) * d /\ (-q) * d < w + d
  BY <1>1, <1>2
<1>4. ~(q >= 1)
  <2> SUFFICES ASSUME q >= 1 PROVE FALSE
    OBVIOUS
  <2>1. d * q >= d
    BY <1>1
  <2> QED
    BY <1>1, <2>1
<1>5. -q \in Nat
  BY <1>1, <1>4
<1> QED
  BY <1>3, <1>5 DEF q

LEMMA WantedType ==
  ASSUME NEW p \in Products
  PROVE  /\ Wanted(p)[1] \in Nat /\ Wanted(p)[2] \in Nat \ {0}
         /\ Demand[p].size \in Nat \ {0}
<1>1. Demand[p] \in [daily : Nat, weekly : Nat, mix : Nat, size : Nat \ {0}]
  BY DemandAssumption
<1>2. \A m, n \in Nat : m * n \in Nat
  OBVIOUS
<1>3. /\ Total * Demand[p].mix * HorizonDays \in Nat
      /\ Demand[p].daily * HorizonDays \in Nat /\ Demand[p].weekly * HorizonDays \in Nat
  BY <1>1, <1>2, HorizonAssumption
<1>4. CASE MixDriven
  BY <1>1, <1>3, <1>4 DEF Wanted
<1>5. CASE ~MixDriven /\ Demand[p].daily # 0
  BY <1>1, <1>3, <1>5 DEF Wanted
<1>6. CASE ~MixDriven /\ Demand[p].daily = 0
  <2>1. Wanted(p) = <<Demand[p].weekly * HorizonDays, WorkDays>>
    BY <1>6 DEF Wanted
  <2> QED
    BY <1>1, <1>3, <2>1, HorizonAssumption
<1> QED
  BY <1>4, <1>5, <1>6, HorizonAssumption

LEMMA NeededType ==
  ASSUME NEW p \in Products
  PROVE  /\ BundlesNeeded(p) \in Nat
         /\ Route[p] = <<>> => BundlesNeeded(p) = 0
         /\ Route[p] # <<>> =>
              LET d == Wanted(p)[2] * Demand[p].size
              IN Wanted(p)[1] <= BundlesNeeded(p) * d /\ BundlesNeeded(p) * d < Wanted(p)[1] + d
<1> DEFINE d == Wanted(p)[2] * Demand[p].size
           w == Wanted(p)[1]
<1>1. \A m, n \in Nat \ {0} : m * n \in Nat \ {0}
  OBVIOUS
<1>2. d \in Nat \ {0} /\ w \in Nat
  BY <1>1, WantedType
<1>3. Route[p] # <<>> => BundlesNeeded(p) = -((-w) \div d)
  BY DEF BundlesNeeded
<1> HIDE DEF d, w
<1>4. LET n == -((-w) \div d) IN n \in Nat /\ w <= n * d /\ n * d < w + d
  BY <1>2, RoundedUp
<1>5. CASE Route[p] = <<>>
  BY <1>5 DEF BundlesNeeded
<1>6. CASE Route[p] # <<>>
  BY <1>3, <1>4, <1>6 DEF d, w
<1> QED
  BY <1>5, <1>6

Operations == [tool : Tools, operators : Nat \ {0}, rework : BOOLEAN]

LEMMA BundleFacts ==
  ASSUME NEW b \in Bundles
  PROVE  /\ b[1] \in Products /\ b[2] \in 1..BundlesNeeded(b[1]) /\ b = <<b[1], b[2]>>
         /\ Size(b) \in Nat \ {0}
         /\ Steps(b) \in Seq(Operations) /\ Len(Steps(b)) \in Nat \ {0}
<1>1. b[1] \in Products /\ b[2] \in 1..BundlesNeeded(b[1]) /\ b = <<b[1], b[2]>>
  BY DEF Bundles
<1>2. Route[b[1]] # <<>>
  BY <1>1, NeededType
<1>3. Steps(b) \in Seq(Operations)
  BY <1>1, RouteAssumption DEF Steps, Operations
<1> QED
  BY <1>1, <1>2, <1>3, WantedType, EmptySeq DEF Size, Steps

LEMMA BundlesFinite == IsFiniteSet(Bundles)
<1> DEFINE own(p) == {p} \X (1..BundlesNeeded(p))
           T == {own(p) : p \in Products}
           h == [p \in Products |-> own(p)]
<1>1. \A p \in Products : IsFiniteSet(own(p))
  <2> TAKE p \in Products
  <2>1. IsFiniteSet(1..BundlesNeeded(p))
    BY NeededType, FS_Interval
  <2>2. IsFiniteSet({p})
    BY FS_Singleton
  <2> QED
    BY <2>1, <2>2, FS_Product
<1>2. h \in Surjection(Products, T)
  BY DEF Surjection
<1>3. IsFiniteSet(T)
  BY <1>2, DemandAssumption, FS_Surjection
<1>4. \A t \in T : IsFiniteSet(t)
  BY <1>1
<1>5. IsFiniteSet(UNION T)
  BY <1>3, <1>4, FS_UNION
<1> QED
  BY <1>5 DEF Bundles

LEMMA MachinesType == Machines \in [Tools -> Nat]
<1> SUFFICES ASSUME NEW t \in Tools PROVE Machines[t] \in Nat
  BY DEF Machines
<1> DEFINE operators == [p \in Products |-> [i \in DOMAIN Route[p] |-> Route[p][i].operators]]
           using(p) == {i \in DOMAIN Route[p] : Route[p][i].tool = t}
           of == [p \in Products |-> SumFunctionOnSet(operators[p], using(p))]
<1>1. \A p \in Products : of[p] \in Nat
  <2> TAKE p \in Products
  <2>1. Route[p] \in Seq(Operations)
    BY RouteAssumption DEF Operations
  <2>2. DOMAIN Route[p] = 1..Len(Route[p]) /\ Len(Route[p]) \in Nat
        /\ \A i \in DOMAIN Route[p] : Route[p][i] \in Operations
    BY <2>1, LenProperties
  <2>3. IsFiniteSet(DOMAIN Route[p])
    <3>1. PICK n \in Nat : n = Len(Route[p])
      BY <2>2
    <3>2. IsFiniteSet(1..n)
      BY FS_Interval
    <3> QED
      BY <2>2, <3>1, <3>2
  <2>4. IsFiniteSet(using(p))
    BY <2>3, FS_Subset
  <2>5. \A i \in using(p) : operators[p][i] \in Nat
    BY <2>2 DEF Operations
  <2> HIDE DEF operators, using
  <2>6. SumFunctionOnSet(operators[p], using(p)) \in Nat
    BY <2>4, <2>5, SumType
  <2> QED
    BY <2>6
<1>2. Machines[t] = SumFunctionOnSet(of, Products)
  BY DEF Machines
<1> HIDE DEF of
<1> QED
  BY <1>1, <1>2, DemandAssumption, SumType

\* Where a bundle can be: pieces are worked one by one, and only at a machine.
Floor ==
  /\ bundle \in [Bundles -> [op : Nat, at : Places, piece : Nat]]
  /\ \A b \in Bundles :
       /\ bundle[b].op \in 1..Len(Steps(b)) /\ bundle[b].piece < Size(b)
       /\ At(b) \notin {"working", "reworking"} => bundle[b].piece = 0
       /\ At(b) = "delayed" => bundle[b].op = 1
       /\ At(b) = "finished" => bundle[b].op = Len(Steps(b))
  /\ users \in [Tools -> SUBSET Bundles]
  /\ queue \in [Tools -> Seq(Bundles)]

SharedAt(t) ==
  /\ Cardinality(users[t]) <= Machines[t]
  /\ \A b \in users[t] : Tool(b) = t /\ At(b) \in Holding \cup {"asking"}
  /\ \A b \in Bundles : At(b) \in Holding /\ Tool(b) = t => b \in users[t]
  /\ \A b \in ToSet(queue[t]) : Tool(b) = t /\ At(b) = "asking" /\ b \notin users[t]
  /\ \A b \in Bundles : At(b) = "asking" /\ Tool(b) = t => b \in users[t] \cup ToSet(queue[t])
  /\ queue[t] # <<>> => Cardinality(users[t]) >= Machines[t]

\* Nobody waits twice.
Once(t) == \A i, j \in DOMAIN queue[t] : queue[t][i] = queue[t][j] => i = j

MInv == Floor /\ \A t \in Tools : SharedAt(t) /\ Once(t)

LEMMA ToolIsTool ==
  ASSUME Floor, NEW b \in Bundles
  PROVE  Op(b) \in Operations /\ Tool(b) \in Tools
<1>1. Steps(b) \in Seq(Operations) /\ bundle[b].op \in 1..Len(Steps(b))
  BY BundleFacts DEF Floor
<1>2. Steps(b)[bundle[b].op] \in Operations
  BY <1>1, ElementOfSeq
<1> QED
  BY <1>2 DEF Op, Tool, Operations

LEMMA UsersFinite ==
  ASSUME Floor, NEW t \in Tools
  PROVE  IsFiniteSet(users[t]) /\ Cardinality(users[t]) \in Nat /\ Machines[t] \in Nat
<1>1. users[t] \in SUBSET Bundles
  BY DEF Floor
<1> QED
  BY <1>1, BundlesFinite, MachinesType, FS_Subset, FS_CardinalityType

\* The first of a queue and those behind it.
LEMMA QueueHead ==
  ASSUME NEW S, NEW q \in Seq(S), q # <<>>, \A i, j \in DOMAIN q : q[i] = q[j] => i = j
  PROVE  /\ Head(q) \in S /\ Tail(q) \in Seq(S)
         /\ ToSet(q) = ToSet(Tail(q)) \cup {Head(q)} /\ Head(q) \notin ToSet(Tail(q))
         /\ \A i, j \in DOMAIN Tail(q) : Tail(q)[i] = Tail(q)[j] => i = j
<1>1. /\ Head(q) \in S /\ Tail(q) \in Seq(S) /\ Len(Tail(q)) = Len(q) - 1
      /\ \A i \in 1..Len(Tail(q)) : Tail(q)[i] = q[i + 1]
      /\ Head(q) = q[1] /\ Len(q) \in Nat \ {0}
  BY HeadTailProperties, EmptySeq
<1>2. DOMAIN q = 1..Len(q) /\ DOMAIN Tail(q) = 1..(Len(q) - 1)
  BY <1>1, LenProperties
<1>3. \A i \in 1..(Len(q) - 1) : Tail(q)[i] = q[i + 1] /\ i + 1 \in 1..Len(q)
  BY <1>1
<1>4. ToSet(Tail(q)) \subseteq ToSet(q) /\ Head(q) \in ToSet(q)
  BY <1>1, <1>2, <1>3 DEF ToSet
<1>5. \A x \in ToSet(q) : x \in ToSet(Tail(q)) \cup {Head(q)}
  <2> SUFFICES ASSUME NEW i \in 1..Len(q) PROVE q[i] \in ToSet(Tail(q)) \cup {Head(q)}
    BY <1>2 DEF ToSet
  <2>1. CASE i = 1
    BY <1>1, <2>1
  <2>2. CASE i # 1
    <3>1. i - 1 \in 1..(Len(q) - 1) /\ Tail(q)[i - 1] = q[i]
      BY <1>1, <2>2
    <3> QED
      BY <1>2, <3>1 DEF ToSet
  <2> QED
    BY <2>1, <2>2
<1>6. Head(q) \notin ToSet(Tail(q))
  <2> SUFFICES ASSUME NEW i \in 1..(Len(q) - 1), q[1] = Tail(q)[i] PROVE FALSE
    BY <1>1, <1>2 DEF ToSet
  <2> QED
    BY <1>1, <1>2, <1>3
<1>7. \A i, j \in DOMAIN Tail(q) : Tail(q)[i] = Tail(q)[j] => i = j
  BY <1>1, <1>2, <1>3
<1> QED
  BY <1>1, <1>4, <1>5, <1>6, <1>7

LEMMA QueueAppend ==
  ASSUME NEW S, NEW q \in Seq(S), NEW x \in S \ ToSet(q), \A i, j \in DOMAIN q : q[i] = q[j] => i = j
  PROVE  /\ Append(q, x) \in Seq(S) /\ Append(q, x) # <<>>
         /\ ToSet(Append(q, x)) = ToSet(q) \cup {x}
         /\ \A i, j \in DOMAIN Append(q, x) : Append(q, x)[i] = Append(q, x)[j] => i = j
<1>1. /\ Append(q, x) \in Seq(S) /\ Len(Append(q, x)) = Len(q) + 1 /\ Len(q) \in Nat
      /\ \A i \in 1..Len(q) : Append(q, x)[i] = q[i]
      /\ Append(q, x)[Len(q) + 1] = x
  BY AppendProperties, LenProperties
<1>2. DOMAIN q = 1..Len(q) /\ DOMAIN Append(q, x) = 1..(Len(q) + 1)
  BY <1>1, LenProperties
<1>3. \A i \in 1..Len(q) : q[i] # x
  BY <1>2 DEF ToSet
<1>4. Append(q, x) # <<>>
  BY <1>1, EmptySeq
<1> HIDE DEF ToSet
<1>5. ToSet(Append(q, x)) = ToSet(q) \cup {x}
  BY <1>1, <1>2 DEF ToSet
<1>6. \A i, j \in DOMAIN Append(q, x) : Append(q, x)[i] = Append(q, x)[j] => i = j
  BY <1>1, <1>2, <1>3
<1> QED
  BY <1>1, <1>4, <1>5, <1>6

LEMMA MachinesInit == SimulationInit => MInv
<1> SUFFICES ASSUME SimulationInit PROVE MInv
  OBVIOUS
<1>1. Floor
  <2> SUFFICES ASSUME NEW b \in Bundles
               PROVE  1 \in 1..Len(Steps(b)) /\ 0 < Size(b)
    BY EmptySeq DEF SimulationInit, Floor, At, Places
  <2> QED
    BY BundleFacts
<1>2. ASSUME NEW t \in Tools PROVE SharedAt(t) /\ Once(t)
  <2>1. users[t] = {} /\ queue[t] = <<>> /\ \A b \in Bundles : At(b) = "delayed"
    BY <1>2 DEF SimulationInit, At
  <2>2. Cardinality(users[t]) = 0 /\ ToSet(queue[t]) = {}
    BY <2>1, FS_EmptySet DEF ToSet
  <2> QED
    BY <2>1, <2>2, MachinesType DEF SharedAt, Once, Holding
<1> QED
  BY <1>1, <1>2 DEF MInv

BundleStates == [op : Nat, at : Places, piece : Nat]

\* A bundle alone moves on.
Moves(b, r) == bundle' = [bundle EXCEPT ![b] = r]

LEMMA OthersStay ==
  ASSUME Floor, NEW b \in Bundles, NEW r \in BundleStates, Moves(b, r)
  PROVE  /\ bundle' \in [Bundles -> BundleStates] /\ bundle'[b] = r
         /\ At(b)' = r.at /\ (r.op = bundle[b].op => Tool(b)' = Tool(b))
         /\ \A c \in Bundles \ {b} : bundle'[c] = bundle[c] /\ At(c)' = At(c) /\ Tool(c)' = Tool(c)
BY DEF Floor, Moves, BundleStates, At, Tool, Op

\* What bundle b may look like.
Fits(b, r) ==
  /\ r \in BundleStates /\ r.op \in 1..Len(Steps(b)) /\ r.piece < Size(b)
  /\ r.at \notin {"working", "reworking"} => r.piece = 0
  /\ r.at = "delayed" => r.op = 1
  /\ r.at = "finished" => r.op = Len(Steps(b))

LEMMA FloorKeeps ==
  ASSUME Floor, NEW b \in Bundles, NEW r \in BundleStates, Moves(b, r), Fits(b, r),
         users' \in [Tools -> SUBSET Bundles], queue' \in [Tools -> Seq(Bundles)]
  PROVE  Floor'
<1>1. bundle' \in [Bundles -> BundleStates] /\ bundle'[b] = r /\ \A c \in Bundles \ {b} : bundle'[c] = bundle[c]
  BY OthersStay
<1>2. \A c \in Bundles : Fits(c, bundle[c])
  BY DEF Floor, Fits, At, BundleStates
<1>3. \A c \in Bundles : Fits(c, bundle'[c])
  BY <1>1, <1>2
<1> QED
  BY <1>1, <1>3 DEF Floor, Fits, At, BundleStates

LEMMA FitsNow == ASSUME Floor, NEW b \in Bundles PROVE Fits(b, bundle[b])
BY DEF Floor, Fits, At, BundleStates

LEMMA UsersAreBundles ==
  ASSUME Floor, NEW t \in Tools
  PROVE  users[t] \subseteq Bundles /\ queue[t] \in Seq(Bundles) /\ ToSet(queue[t]) \subseteq Bundles
<1>1. users[t] \subseteq Bundles /\ queue[t] \in Seq(Bundles)
  BY DEF Floor
<1> QED
  BY <1>1, LenProperties DEF ToSet

\* A step that neither takes a machine nor gives one back.
LEMMA QuietKeeps ==
  ASSUME MInv, NEW b \in Bundles, NEW r \in BundleStates, Moves(b, r), users' = users, queue' = queue,
         \/ r.op = bundle[b].op /\ r.at \in Holding /\ At(b) \in Holding \cup {"asking"} /\ b \in users[Tool(b)]
         \/ At(b) \notin Holding \cup {"asking"} /\ r.at \notin Holding \cup {"asking"}
  PROVE  \A t \in Tools : SharedAt(t)' /\ Once(t)'
<1> SUFFICES ASSUME NEW t \in Tools PROVE SharedAt(t)' /\ Once(t)'
  OBVIOUS
<1>1. Floor /\ SharedAt(t) /\ Once(t)
  BY DEF MInv
<1>2. /\ At(b)' = r.at /\ (r.op = bundle[b].op => Tool(b)' = Tool(b))
      /\ \A c \in Bundles \ {b} : At(c)' = At(c) /\ Tool(c)' = Tool(c)
  BY <1>1, OthersStay
<1>3. users[t] \subseteq Bundles /\ ToSet(queue[t]) \subseteq Bundles
  <2>1. queue[t] \in Seq(Bundles)
    BY <1>1 DEF Floor
  <2>2. ToSet(queue[t]) \subseteq Bundles
    BY <2>1, LenProperties DEF ToSet
  <2> QED
    BY <1>1, <2>2 DEF Floor
<1>4. Once(t)'
  BY <1>1 DEF Once
<1>5. CASE r.op = bundle[b].op /\ r.at \in Holding /\ At(b) \in Holding \cup {"asking"} /\ b \in users[Tool(b)]
  <2>1. Tool(b) \in Tools /\ SharedAt(Tool(b))
    BY <1>1, ToolIsTool DEF MInv
  <2>2. b \notin ToSet(queue[t])
    BY <1>1, <1>5, <2>1 DEF SharedAt
  <2> QED
    BY <1>1, <1>2, <1>3, <1>4, <1>5, <2>1, <2>2 DEF SharedAt, Holding
<1>6. CASE At(b) \notin Holding \cup {"asking"} /\ r.at \notin Holding \cup {"asking"}
  <2>1. b \notin users[t] /\ b \notin ToSet(queue[t])
    BY <1>1, <1>6 DEF SharedAt
  <2> QED
    BY <1>1, <1>2, <1>3, <1>4, <1>6, <2>1 DEF SharedAt
<1> QED
  BY <1>5, <1>6

LEMMA RequestKeeps ==
  ASSUME MInv, NEW b \in Bundles, Request(b)
  PROVE  MInv'
<1> DEFINE r == [bundle[b] EXCEPT !.at = "asking"]
<1>0. PICK u : u = Tool(b)
  OBVIOUS
<1>1. Floor /\ u \in Tools /\ At(b) = "arriving" /\ bundle[b] \in BundleStates
  BY <1>0, ToolIsTool DEF MInv, Floor, Request, BundleStates
<1>a. r \in BundleStates /\ r.op = bundle[b].op /\ r.at = "asking" /\ r.piece = bundle[b].piece
  BY <1>1 DEF BundleStates, Places
<1>b. Moves(b, r)
  BY <1>1 DEF Request, Goes, Moves, Floor
<1>c. Fits(b, r)
  BY <1>1, <1>a, FitsNow DEF Fits, At
<1> HIDE DEF r
<1>2. /\ At(b)' = "asking" /\ Tool(b)' = u
      /\ \A c \in Bundles \ {b} : At(c)' = At(c) /\ Tool(c)' = Tool(c) /\ bundle'[c] = bundle[c]
      /\ bundle'[b] = r /\ bundle' \in [Bundles -> BundleStates]
  BY <1>0, <1>1, <1>a, <1>b, OthersStay
<1>3. \A t \in Tools : SharedAt(t) /\ Once(t)
  BY DEF MInv
<1>4. \A t \in Tools : b \notin users[t] /\ b \notin ToSet(queue[t])
  BY <1>1, <1>3 DEF SharedAt, Holding
<1>5. \A t \in Tools : users[t] \subseteq Bundles /\ queue[t] \in Seq(Bundles) /\ ToSet(queue[t]) \subseteq Bundles
  BY <1>1, UsersAreBundles
<1>6. IsFiniteSet(users[u]) /\ Cardinality(users[u]) \in Nat /\ Machines[u] \in Nat
  BY <1>1, UsersFinite
<1>7. CASE Served(u)
  <2>1. users' = [users EXCEPT ![u] = @ \cup {b}] /\ queue' = queue
    BY <1>0, <1>7 DEF Request
  <2>2. users'[u] = users[u] \cup {b} /\ \A t \in Tools \ {u} : users'[t] = users[t]
    BY <1>1, <2>1 DEF Floor
  <2>3. Cardinality(users[u] \cup {b}) = Cardinality(users[u]) + 1
    BY <1>1, <1>4, <1>6, FS_AddElement
  <2>4. queue[u] = <<>>
    BY <1>1, <1>3, <1>6, <1>7 DEF SharedAt, Served
  <2>5. Floor'
    <3>1. users' \in [Tools -> SUBSET Bundles] /\ queue' \in [Tools -> Seq(Bundles)]
      BY <1>1, <2>1, <2>2 DEF Floor
    <3> QED
      BY <1>1, <1>a, <1>b, <1>c, <3>1, FloorKeeps
  <2>6. SharedAt(u)' /\ Once(u)'
    <3>1. ToSet(queue[u]) = {}
      BY <2>4 DEF ToSet
    <3>2. Cardinality(users[u] \cup {b}) <= Machines[u]
      BY <1>6, <1>7, <2>3 DEF Served
    <3>3. SharedAt(u) /\ Once(u) /\ users[u] \subseteq Bundles /\ queue'[u] = <<>> /\ ToSet(queue'[u]) = {}
      BY <1>1, <1>3, <1>5, <2>1, <2>4, <3>1
    <3>4. \A c \in users'[u] : Tool(c)' = u /\ At(c)' \in Holding \cup {"asking"}
      BY <1>2, <2>2, <3>3 DEF SharedAt
    <3>5. \A c \in Bundles : At(c)' \in Holding /\ Tool(c)' = u => c \in users'[u]
      BY <1>2, <2>2, <3>3 DEF SharedAt
    <3>6. \A c \in Bundles : At(c)' = "asking" /\ Tool(c)' = u => c \in users'[u]
      BY <1>2, <2>2, <2>4, <3>1, <3>3 DEF SharedAt
    <3>7. Once(u)'
      BY <2>1, <3>3 DEF Once
    <3> QED
      BY <2>2, <3>2, <3>3, <3>4, <3>5, <3>6, <3>7 DEF SharedAt
  <2>7. ASSUME NEW t \in Tools \ {u} PROVE SharedAt(t)' /\ Once(t)'
    <3>1. SharedAt(t) /\ Once(t) /\ b \notin users[t] /\ b \notin ToSet(queue[t])
      BY <1>3, <1>4
    <3>2. users'[t] = users[t] /\ queue'[t] = queue[t]
      BY <2>1, <2>2
    <3>3. users[t] \subseteq Bundles /\ ToSet(queue[t]) \subseteq Bundles
      BY <1>5
    <3>4. SharedAt(t)'
      BY <1>2, <3>1, <3>2, <3>3 DEF SharedAt, Holding
    <3> QED
      BY <3>1, <3>2, <3>4 DEF Once
  <2> QED
    BY <2>5, <2>6, <2>7 DEF MInv
<1>8. CASE ~Served(u)
  <2> DEFINE q == queue[u]
  <2>1. queue' = [queue EXCEPT ![u] = Append(@, b)] /\ users' = users
    BY <1>0, <1>8 DEF Request
  <2>2. queue'[u] = Append(q, b) /\ \A t \in Tools \ {u} : queue'[t] = queue[t]
    BY <1>1, <2>1 DEF Floor
  <2>3. /\ Append(q, b) \in Seq(Bundles) /\ Append(q, b) # <<>> /\ ToSet(Append(q, b)) = ToSet(q) \cup {b}
        /\ \A i, j \in DOMAIN Append(q, b) : Append(q, b)[i] = Append(q, b)[j] => i = j
    <3>1. q \in Seq(Bundles) /\ b \in Bundles \ ToSet(q) /\ \A i, j \in DOMAIN q : q[i] = q[j] => i = j
      BY <1>1, <1>3, <1>4, <1>5 DEF Once
    <3> HIDE DEF q
    <3> QED
      BY <3>1, QueueAppend
  <2>4. Floor'
    <3>1. users' \in [Tools -> SUBSET Bundles] /\ queue' \in [Tools -> Seq(Bundles)]
      BY <1>1, <2>1, <2>2, <2>3 DEF Floor
    <3> QED
      BY <1>1, <1>a, <1>b, <1>c, <3>1, FloorKeeps
  <2>5. Once(u)'
    BY <2>2, <2>3 DEF Once
  <2>6. SharedAt(u)'
    BY <1>1, <1>2, <1>3, <1>4, <1>5, <1>6, <1>8, <2>1, <2>2, <2>3 DEF SharedAt, Holding, Served
  <2>7. ASSUME NEW t \in Tools \ {u} PROVE SharedAt(t)' /\ Once(t)'
    <3>1. SharedAt(t) /\ Once(t) /\ b \notin users[t] /\ b \notin ToSet(queue[t])
      BY <1>3, <1>4
    <3>2. users'[t] = users[t] /\ queue'[t] = queue[t]
      BY <2>1, <2>2
    <3>3. users[t] \subseteq Bundles /\ ToSet(queue[t]) \subseteq Bundles
      BY <1>5
    <3>4. SharedAt(t)'
      BY <1>2, <3>1, <3>2, <3>3 DEF SharedAt, Holding
    <3> QED
      BY <3>1, <3>2, <3>4 DEF Once
  <2> QED
    BY <2>4, <2>5, <2>6, <2>7 DEF MInv
<1> QED
  BY <1>7, <1>8

LEMMA ReleaseKeeps ==
  ASSUME MInv, NEW b \in Bundles, At(b) \in Holding, NEW r \in BundleStates, Moves(b, r),
         r.op = bundle[b].op, r.at = "leaving", r.piece = 0, Released(b)
  PROVE  MInv'
<1>0. PICK u : u = Tool(b)
  OBVIOUS
<1>1. Floor /\ u \in Tools
  BY <1>0, ToolIsTool DEF MInv
<1>a. Fits(b, r)
  BY <1>1, FitsNow, BundleFacts DEF Fits
<1>2. /\ At(b)' = "leaving" /\ Tool(b)' = u
      /\ \A c \in Bundles \ {b} : At(c)' = At(c) /\ Tool(c)' = Tool(c) /\ bundle'[c] = bundle[c]
      /\ bundle'[b] = r /\ bundle' \in [Bundles -> BundleStates]
  BY <1>0, <1>1, OthersStay
<1>3. \A t \in Tools : SharedAt(t) /\ Once(t)
  BY DEF MInv
<1>4. b \in users[u] /\ (\A t \in Tools : b \notin ToSet(queue[t])) /\ \A t \in Tools \ {u} : b \notin users[t]
  BY <1>0, <1>1, <1>3 DEF SharedAt, Holding
<1>5. \A t \in Tools : users[t] \subseteq Bundles /\ queue[t] \in Seq(Bundles) /\ ToSet(queue[t]) \subseteq Bundles
  BY <1>1, UsersAreBundles
<1>6. IsFiniteSet(users[u]) /\ Cardinality(users[u]) \in Nat /\ Machines[u] \in Nat
  BY <1>1, UsersFinite
<1>7. IsFiniteSet(users[u] \ {b}) /\ Cardinality(users[u] \ {b}) = Cardinality(users[u]) - 1
  BY <1>4, <1>6, FS_RemoveElement
<1>9. ASSUME users' \in [Tools -> SUBSET Bundles], queue' \in [Tools -> Seq(Bundles)] PROVE Floor'
  BY <1>1, <1>a, <1>9, FloorKeeps
<1>10. ASSUME NEW t \in Tools \ {u}, users'[t] = users[t], queue'[t] = queue[t] PROVE SharedAt(t)' /\ Once(t)'
  <2>1. SharedAt(t) /\ Once(t) /\ b \notin users[t] /\ b \notin ToSet(queue[t])
    BY <1>3, <1>4
  <2>2. users[t] \subseteq Bundles /\ ToSet(queue[t]) \subseteq Bundles
    BY <1>5
  <2>3. SharedAt(t)'
    BY <1>2, <1>10, <2>1, <2>2 DEF SharedAt, Holding
  <2> QED
    BY <1>10, <2>1, <2>3 DEF Once
<1>11. CASE queue[u] = <<>>
  <2>1. users' = [users EXCEPT ![u] = @ \ {b}] /\ queue' = queue
    BY <1>0, <1>11 DEF Released
  <2>2. users'[u] = users[u] \ {b} /\ \A t \in Tools \ {u} : users'[t] = users[t]
    BY <1>1, <2>1 DEF Floor
  <2>3. Floor'
    BY <1>1, <1>9, <2>1 DEF Floor
  <2>4. ToSet(queue[u]) = {}
    BY <1>11 DEF ToSet
  <2>5. Cardinality(users[u] \ {b}) <= Machines[u]
    BY <1>1, <1>3, <1>6, <1>7 DEF SharedAt
  <2>6. SharedAt(u)' /\ Once(u)'
    <3>3. SharedAt(u) /\ Once(u) /\ users[u] \subseteq Bundles /\ queue'[u] = <<>> /\ ToSet(queue'[u]) = {}
      BY <1>1, <1>3, <1>5, <1>11, <2>1, <2>4
    <3>4. \A c \in users'[u] : Tool(c)' = u /\ At(c)' \in Holding \cup {"asking"}
      BY <1>2, <2>2, <3>3 DEF SharedAt
    <3>5. \A c \in Bundles : At(c)' \in Holding /\ Tool(c)' = u => c \in users'[u]
      BY <1>2, <2>2, <3>3 DEF SharedAt, Holding
    <3>6. \A c \in Bundles : At(c)' = "asking" /\ Tool(c)' = u => c \in users'[u]
      BY <1>2, <1>11, <2>2, <2>4, <3>3 DEF SharedAt
    <3>7. Once(u)'
      BY <2>1, <3>3 DEF Once
    <3> QED
      BY <2>2, <2>5, <3>3, <3>4, <3>5, <3>6, <3>7 DEF SharedAt
  <2> QED
    BY <1>10, <2>1, <2>2, <2>3, <2>6 DEF MInv
<1>12. CASE queue[u] # <<>>
  <2> DEFINE q == queue[u]
             h == Head(q)
             A == (users[u] \ {b}) \cup {h}
  <2>1. users' = [users EXCEPT ![u] = A] /\ queue' = [queue EXCEPT ![u] = Tail(q)]
    BY <1>0, <1>12 DEF Released
  <2>2. /\ users'[u] = A /\ queue'[u] = Tail(q)
        /\ \A t \in Tools \ {u} : users'[t] = users[t] /\ queue'[t] = queue[t]
    BY <1>1, <2>1 DEF Floor
  <2>3. /\ h \in Bundles /\ Tail(q) \in Seq(Bundles)
        /\ ToSet(q) = ToSet(Tail(q)) \cup {h} /\ h \notin ToSet(Tail(q))
        /\ \A i, j \in DOMAIN Tail(q) : Tail(q)[i] = Tail(q)[j] => i = j
    <3>1. q \in Seq(Bundles) /\ q # <<>> /\ \A i, j \in DOMAIN q : q[i] = q[j] => i = j
      BY <1>1, <1>3, <1>5, <1>12 DEF Once
    <3> HIDE DEF q
    <3> QED
      BY <3>1, QueueHead
  <2>4. h \notin users[u] /\ h # b /\ At(h) = "asking" /\ Tool(h) = u
    BY <1>1, <1>3, <1>4, <2>3 DEF SharedAt
  <2>5. Cardinality(A) = Cardinality(users[u])
    <3>1. Cardinality(A) = Cardinality(users[u] \ {b}) + 1
      BY <1>7, <2>4, FS_AddElement
    <3> QED
      BY <1>6, <1>7, <3>1
  <2>6. Floor'
    <3>1. users' \in [Tools -> SUBSET Bundles] /\ queue' \in [Tools -> Seq(Bundles)]
      BY <1>1, <1>5, <2>1, <2>3 DEF Floor
    <3> QED
      BY <1>9, <3>1
  <2>7. Once(u)'
    BY <2>2, <2>3 DEF Once
  <2> HIDE DEF h, q
  <2>8. SharedAt(u)'
    <3>1. SharedAt(u) /\ ToSet(q) \subseteq Bundles /\ users[u] \subseteq Bundles /\ q = queue[u]
      BY <1>1, <1>3, <1>5 DEF q
    <3>2. Cardinality(A) <= Machines[u] /\ Cardinality(A) >= Machines[u]
      BY <1>12, <2>5, <3>1 DEF SharedAt
    <3>3. \A c \in A : Tool(c)' = u /\ At(c)' \in Holding \cup {"asking"}
      BY <1>2, <2>3, <2>4, <3>1 DEF SharedAt
    <3>4. \A c \in Bundles : At(c)' \in Holding /\ Tool(c)' = u => c \in A
      BY <1>2, <3>1 DEF SharedAt, Holding
    <3>5. \A c \in ToSet(Tail(q)) : Tool(c)' = u /\ At(c)' = "asking" /\ c \notin A
      BY <1>2, <1>4, <2>3, <2>4, <3>1 DEF SharedAt, q
    <3>6. \A c \in Bundles : At(c)' = "asking" /\ Tool(c)' = u => c \in A \cup ToSet(Tail(q))
      BY <1>2, <2>3, <3>1 DEF SharedAt
    <3> QED
      BY <2>2, <3>2, <3>3, <3>4, <3>5, <3>6 DEF SharedAt
  <2> QED
    BY <1>10, <2>2, <2>6, <2>7, <2>8 DEF MInv
<1> QED
  BY <1>11, <1>12

\* The pieces of a bundle are worked one after the other.
LEMMA PieceByPiece ==
  ASSUME bundle \in [Bundles -> BundleStates], NEW b \in Bundles, NextPiece(b)
  PROVE  \/ /\ bundle[b].piece + 1 < Size(b) /\ UNCHANGED <<users, queue>>
            /\ bundle' = [bundle EXCEPT ![b] = [bundle[b] EXCEPT !.at = "working", !.piece = @ + 1]]
            /\ At(b)' = "working"
         \/ /\ ~(bundle[b].piece + 1 < Size(b)) /\ Released(b)
            /\ bundle' = [bundle EXCEPT ![b] = [bundle[b] EXCEPT !.at = "leaving", !.piece = 0]]
            /\ At(b)' = "leaving"
<1>1. CASE bundle[b].piece + 1 < Size(b)
  <2>1. /\ UNCHANGED <<users, queue>>
        /\ bundle' = [bundle EXCEPT ![b] = [bundle[b] EXCEPT !.at = "working", !.piece = @ + 1]]
    BY <1>1 DEF NextPiece
  <2>2. At(b)' = "working"
    BY <2>1 DEF At, BundleStates
  <2> QED
    BY <1>1, <2>1, <2>2
<1>2. CASE ~(bundle[b].piece + 1 < Size(b))
  <2>1. /\ Released(b)
        /\ bundle' = [bundle EXCEPT ![b] = [bundle[b] EXCEPT !.at = "leaving", !.piece = 0]]
    BY <1>2 DEF NextPiece
  <2>2. At(b)' = "leaving"
    BY <2>1 DEF At, BundleStates
  <2> QED
    BY <1>2, <2>1, <2>2
<1> QED
  BY <1>1, <1>2

\* The quiet steps.
LEMMA QuietSteps ==
  ASSUME MInv, NEW b \in Bundles,
         \/ StartBundle(b) \/ Begin(b) \/ Repaired(b) \/ Move(b) \/ Finish(b)
         \/ (Process(b) \/ Rework(b)) /\ UNCHANGED <<users, queue>> /\ At(b)' # "leaving"
  PROVE  MInv'
<1> DEFINE r == bundle'[b]
<1>1. Floor /\ bundle[b] \in BundleStates /\ Fits(b, bundle[b]) /\ bundle \in [Bundles -> BundleStates]
      /\ Tool(b) \in Tools /\ (\A t \in Tools : SharedAt(t))
  BY FitsNow, ToolIsTool DEF MInv, Floor, BundleStates
<1>2. users' = users /\ queue' = queue
  BY DEF StartBundle, Begin, Repaired, Move, Finish
<1>3. At(b) \in Holding => b \in users[Tool(b)]
  BY <1>1 DEF SharedAt
<1>4. ASSUME NEW q \in BundleStates, bundle' = [bundle EXCEPT ![b] = q], Fits(b, q),
             \/ q.op = bundle[b].op /\ q.at \in Holding /\ At(b) \in Holding \cup {"asking"} /\ b \in users[Tool(b)]
             \/ At(b) \notin Holding \cup {"asking"} /\ q.at \notin Holding \cup {"asking"}
      PROVE  MInv'
  <2>1. Moves(b, q)
    BY <1>4 DEF Moves
  <2>2. Floor'
    BY <1>1, <1>2, <1>4, <2>1, FloorKeeps DEF Floor
  <2>3. \A t \in Tools : SharedAt(t)' /\ Once(t)'
    BY <1>2, <1>4, <2>1, QuietKeeps
  <2> QED
    BY <2>2, <2>3 DEF MInv
<1>5. CASE StartBundle(b)
  <2> DEFINE q == [bundle[b] EXCEPT !.at = "arriving"]
  <2>1. At(b) = "delayed" /\ bundle' = [bundle EXCEPT ![b] = q]
    BY <1>1, <1>5 DEF StartBundle, Goes
  <2>2. q \in BundleStates /\ Fits(b, q) /\ q.at = "arriving"
    BY <1>1, <2>1 DEF BundleStates, Places, Fits, At
  <2> QED
    BY <1>4, <2>1, <2>2 DEF Holding
<1>6. CASE Begin(b) \/ Repaired(b)
  <2> DEFINE q(at) == [bundle[b] EXCEPT !.at = at]
  <2>1. /\ At(b) \in {"asking", "broken"} /\ b \in users[Tool(b)]
        /\ bundle' = [bundle EXCEPT ![b] = q("working")] \/ bundle' = [bundle EXCEPT ![b] = q("broken")]
    BY <1>1, <1>3, <1>6 DEF Begin, Repaired, Goes, Holding
  <2>2. ASSUME NEW at \in {"working", "broken"}
        PROVE  q(at) \in BundleStates /\ Fits(b, q(at)) /\ q(at).at = at /\ q(at).op = bundle[b].op
    BY <1>1, <2>1 DEF BundleStates, Places, Fits, At
  <2> QED
    BY <1>4, <2>1, <2>2 DEF Holding
<1>7. CASE Move(b)
  <2> DEFINE q == [bundle[b] EXCEPT !.at = "arriving", !.op = @ + 1]
  <2>1. At(b) = "leaving" /\ bundle' = [bundle EXCEPT ![b] = q] /\ bundle[b].op < Len(Steps(b))
    BY <1>1, <1>7 DEF Move
  <2>2. q \in BundleStates /\ Fits(b, q) /\ q.at = "arriving"
    <3>1. Len(Steps(b)) \in Nat
      BY BundleFacts
    <3>2. q \in BundleStates /\ q.at = "arriving" /\ q.op = bundle[b].op + 1 /\ q.piece = bundle[b].piece
      <4>1. PICK n \in Nat : n = bundle[b].op + 1
        BY <1>1 DEF BundleStates
      <4>2. q = [bundle[b] EXCEPT !.at = "arriving", !.op = n]
        BY <1>1, <4>1 DEF BundleStates
      <4> HIDE DEF q
      <4> QED
        BY <1>1, <4>1, <4>2 DEF BundleStates, Places
    <3>3. bundle[b].piece = 0 /\ 0 < Size(b) /\ bundle[b].op + 1 \in 1..Len(Steps(b))
      BY <1>1, <2>1, <3>1, BundleFacts DEF Fits, At
    <3> HIDE DEF q
    <3> QED
      BY <3>2, <3>3 DEF Fits
  <2> QED
    BY <1>4, <2>1, <2>2 DEF Holding
<1>8. CASE Finish(b)
  <2> DEFINE q == [bundle[b] EXCEPT !.at = "finished"]
  <2>1. At(b) = "leaving" /\ bundle' = [bundle EXCEPT ![b] = q] /\ bundle[b].op = Len(Steps(b))
    BY <1>1, <1>8 DEF Finish, Goes
  <2>2. q \in BundleStates /\ Fits(b, q) /\ q.at = "finished"
    BY <1>1, <2>1 DEF BundleStates, Places, Fits, At
  <2> QED
    BY <1>4, <2>1, <2>2 DEF Holding
<1>9. CASE (Process(b) \/ Rework(b)) /\ UNCHANGED <<users, queue>> /\ At(b)' # "leaving"
  <2> DEFINE p == [bundle[b] EXCEPT !.at = "working", !.piece = @ + 1]
             w == [bundle[b] EXCEPT !.at = "reworking"]
  <2>1. At(b) \in {"working", "reworking"} /\ b \in users[Tool(b)]
    BY <1>1, <1>3, <1>9 DEF Process, Rework, Holding
  <2>2. \/ bundle[b].piece + 1 < Size(b) /\ bundle' = [bundle EXCEPT ![b] = p]
        \/ bundle' = [bundle EXCEPT ![b] = w]
    <3>1. CASE NextPiece(b)
      BY <1>1, <1>9, <3>1, PieceByPiece
    <3>2. CASE Goes(b, "reworking")
      BY <1>1, <3>2 DEF Goes
    <3> QED
      BY <1>9, <3>1, <3>2 DEF Process, Rework
  <2>3. w \in BundleStates /\ Fits(b, w) /\ w.at = "reworking" /\ w.op = bundle[b].op
    BY <1>1, <2>1 DEF BundleStates, Places, Fits, At
  <2>4. ASSUME bundle[b].piece + 1 < Size(b)
        PROVE  p \in BundleStates /\ Fits(b, p) /\ p.at = "working" /\ p.op = bundle[b].op
    <3>1. p \in BundleStates /\ p.at = "working" /\ p.op = bundle[b].op /\ p.piece = bundle[b].piece + 1
      <4>1. PICK n \in Nat : n = bundle[b].piece + 1
        BY <1>1 DEF BundleStates
      <4>2. p = [bundle[b] EXCEPT !.at = "working", !.piece = n]
        BY <1>1, <4>1 DEF BundleStates
      <4> HIDE DEF p
      <4> QED
        BY <1>1, <4>1, <4>2 DEF BundleStates, Places
    <3> HIDE DEF p
    <3> QED
      BY <1>1, <2>4, <3>1 DEF Fits
  <2> QED
    BY <1>4, <2>1, <2>2, <2>3, <2>4 DEF Holding
<1> QED
  BY <1>5, <1>6, <1>7, <1>8, <1>9

\* The last piece of a bundle at an operation.
LEMMA LastPiece ==
  ASSUME MInv, NEW b \in Bundles, Process(b) \/ Rework(b), At(b)' = "leaving"
  PROVE  /\ bundle[b].piece + 1 = Size(b) /\ Released(b)
         /\ bundle' = [bundle EXCEPT ![b] = [bundle[b] EXCEPT !.at = "leaving", !.piece = 0]]
         /\ MInv'
<1> DEFINE r == [bundle[b] EXCEPT !.at = "leaving", !.piece = 0]
<1>1. Floor /\ bundle[b] \in BundleStates /\ Fits(b, bundle[b]) /\ bundle \in [Bundles -> BundleStates]
  BY FitsNow DEF MInv, Floor, BundleStates
<1>2. At(b) \in Holding
  BY DEF Process, Rework, Holding
<1>3. ~(bundle[b].piece + 1 < Size(b)) /\ bundle' = [bundle EXCEPT ![b] = r] /\ Released(b)
  <2>1. CASE NextPiece(b)
    BY <1>1, <2>1, PieceByPiece
  <2>2. CASE Goes(b, "reworking")
    BY <1>1, <2>2 DEF Goes, At, BundleStates
  <2> QED
    BY <2>1, <2>2 DEF Process, Rework
<1>4. bundle[b].piece + 1 = Size(b)
  BY <1>1, <1>3, BundleFacts DEF Fits, BundleStates
<1>5. r \in BundleStates /\ r.op = bundle[b].op /\ r.at = "leaving" /\ r.piece = 0
  BY <1>1 DEF BundleStates, Places
<1>6. Moves(b, r)
  BY <1>3 DEF Moves
<1> HIDE DEF r
<1>7. MInv'
  BY <1>2, <1>3, <1>5, <1>6, ReleaseKeeps
<1> QED
  BY <1>3, <1>4, <1>7 DEF r

LEMMA MachinesStep == MInv /\ [SimulationNext]_simulationVars => MInv'
<1> SUFFICES ASSUME MInv, [SimulationNext]_simulationVars PROVE MInv'
  OBVIOUS
<1>1. CASE UNCHANGED <<bundle, users, queue>>
  BY <1>1 DEF MInv, Floor, SharedAt, Once, At, Tool, Op
<1>2. ASSUME NEW b \in Bundles, Step(b) PROVE MInv'
  <2>1. CASE (Process(b) \/ Rework(b)) /\ At(b)' = "leaving"
    BY <2>1, LastPiece
  <2>2. CASE (Process(b) \/ Rework(b)) /\ At(b)' # "leaving"
    <3>1. Floor /\ bundle \in [Bundles -> BundleStates]
      BY DEF MInv, Floor, BundleStates
    <3>2. UNCHANGED <<users, queue>>
      BY <2>2, <3>1 DEF Process, Rework, NextPiece, At, BundleStates
    <3> QED
      BY <2>2, <3>2, QuietSteps
  <2> QED
    BY <1>2, <2>1, <2>2, QuietSteps, RequestKeeps DEF Step
<1> QED
  BY <1>1, <1>2 DEF SimulationNext, Stop, simulationVars

\* One number of a sum.
LEMMA SumAtLeast ==
  ASSUME NEW f, NEW S, IsFiniteSet(S), \A x \in S : f[x] \in Nat, NEW x \in S
  PROVE  f[x] <= SumFunctionOnSet(f, S)
<1>1. IsFiniteSet({}) /\ x \notin {} /\ \A y \in {} : f[y] \in Nat
  BY FS_EmptySet
<1>2. SumFunctionOnSet(f, {} \cup {x}) = SumFunctionOnSet(f, {}) + f[x]
  BY <1>1, SumAdd
<1>3. SumFunctionOnSet(f, {x}) = f[x]
  BY <1>2, SumEmpty
<1>4. {x} \in SUBSET S
  OBVIOUS
<1> QED
  BY <1>3, <1>4, SumMonotone

\* A tool that an operation needs has a machine.
LEMMA SomeMachine ==
  ASSUME NEW p \in Products, NEW i \in DOMAIN Route[p]
  PROVE  Machines[Route[p][i].tool] >= 1
<1> DEFINE t == Route[p][i].tool
           operators == [q \in Products |-> [j \in DOMAIN Route[q] |-> Route[q][j].operators]]
           using(q) == {j \in DOMAIN Route[q] : Route[q][j].tool = t}
           of == [q \in Products |-> SumFunctionOnSet(operators[q], using(q))]
<1>1. ASSUME NEW q \in Products
      PROVE  IsFiniteSet(using(q)) /\ \A j \in using(q) : operators[q][j] \in Nat \ {0}
  <2>1. Route[q] \in Seq(Operations)
    BY RouteAssumption DEF Operations
  <2>2. DOMAIN Route[q] = 1..Len(Route[q]) /\ Len(Route[q]) \in Nat
        /\ \A j \in DOMAIN Route[q] : Route[q][j] \in Operations
    BY <2>1, LenProperties
  <2>3. PICK n \in Nat : n = Len(Route[q])
    BY <2>2
  <2>4. IsFiniteSet(1..n)
    BY FS_Interval
  <2>5. IsFiniteSet(using(q))
    BY <2>2, <2>3, <2>4, FS_Subset
  <2> QED
    BY <2>2, <2>5 DEF Operations
<1>2. \A q \in Products : of[q] = SumFunctionOnSet(operators[q], using(q))
  OBVIOUS
<1>3. t \in Tools
  <2>1. Route[p] \in Seq(Operations)
    BY RouteAssumption DEF Operations
  <2>2. Route[p][i] \in Operations
    BY <2>1, LenProperties
  <2> QED
    BY <2>2 DEF Operations
<1>4. Machines[t] = SumFunctionOnSet(of, Products)
  BY <1>3 DEF Machines
<1>5. i \in using(p)
  OBVIOUS
<1> HIDE DEF operators, using, of
<1>6. \A q \in Products : of[q] \in Nat
  BY <1>1, <1>2, SumType
<1>7. operators[p][i] >= 1 /\ operators[p][i] \in Nat
  BY <1>1, <1>5
<1>8. operators[p][i] <= of[p]
  BY <1>1, <1>2, <1>5, SumAtLeast
<1>9. of[p] <= SumFunctionOnSet(of, Products) /\ SumFunctionOnSet(of, Products) \in Nat
  BY <1>6, DemandAssumption, SumAtLeast, SumType
<1> HIDE DEF t
<1>10. Machines[t] >= 1
  BY <1>4, <1>6, <1>7, <1>8, <1>9
<1> QED
  BY <1>10 DEF t

\* Of the bundles of a product that are delayed the first is not held up.
LEMMA FirstDelayed ==
  ASSUME Floor, NEW b \in Bundles, At(b) = "delayed"
  PROVE  \E c \in Bundles : GoesOn(c)
<1> DEFINE S == {n \in 1..BundlesNeeded(b[1]) : At(<<b[1], n>>) = "delayed"}
           Less == OpToRel(<, Nat)
<1>1. /\ b[1] \in Products /\ b[2] \in 1..BundlesNeeded(b[1]) /\ b = <<b[1], b[2]>>
      /\ BundlesNeeded(b[1]) \in Nat
  BY BundleFacts, NeededType
<1>2. S \subseteq Nat /\ b[2] \in S
  BY <1>1
<1>3. PICK n \in S : \A m \in S : ~(<<m, n>> \in Less)
  <2> HIDE DEF S, Less
  <2> QED
    BY <1>2, NatLessThanWellFounded, WFMin DEF Less
<1> HIDE DEF Less
<1>4. n \in 1..BundlesNeeded(b[1]) /\ At(<<b[1], n>>) = "delayed" /\ <<b[1], n>> \in Bundles
  BY <1>1, <1>3 DEF Bundles
<1>5. n > 1 => At(<<b[1], n - 1>>) # "delayed"
  <2> SUFFICES ASSUME n > 1, n - 1 \in S PROVE FALSE
    BY <1>1, <1>4
  <2>1. <<n - 1, n>> \in Less
    <3>1. n \in Nat /\ n - 1 \in Nat
      BY <1>1, <1>4
    <3> DEFINE k == n - 1
    <3>2. k < n /\ k \in Nat
      BY <3>1
    <3> HIDE DEF k
    <3>3. <<k, n>> \in Less
      BY <3>1, <3>2, Zenon DEF Less, OpToRel
    <3> QED
      BY <3>3 DEF k
  <2> QED
    BY <1>3, <2>1
<1> QED
  BY <1>4, <1>5 DEF GoesOn

\* Who waits for a machine waits for somebody who has one, and who has one does
\* not wait for another: there are no rings of waiting.
LEMMA SomebodyDoes == MInv => SomebodyGoesOn
<1> SUFFICES ASSUME MInv, NEW b \in Bundles, At(b) # "finished" PROVE \E c \in Bundles : GoesOn(c)
  BY DEF SomebodyGoesOn, Finished
<1>1. CASE At(b) = "delayed"
  BY <1>1, FirstDelayed DEF MInv
<1>2. CASE At(b) = "asking"
  <2> DEFINE t == Tool(b)
  <2>1. t \in Tools /\ Machines[t] >= 1
    <3>1. /\ b[1] \in Products /\ Steps(b) \in Seq(Operations)
          /\ bundle[b].op \in DOMAIN Steps(b) /\ t = Steps(b)[bundle[b].op].tool
      BY BundleFacts DEF MInv, Floor, Tool, Op
    <3> QED
      BY <3>1, SomeMachine, ToolIsTool DEF Steps, MInv
  <2>2. b \in users[t] \/ queue[t] # <<>>
    BY <1>2, <2>1 DEF MInv, SharedAt, ToSet
  <2>3. users[t] # {}
    <3>1. ASSUME users[t] = {} PROVE FALSE
      <4>1. Cardinality(users[t]) = 0
        BY <3>1, FS_EmptySet
      <4>2. queue[t] # <<>>
        BY <2>2, <3>1
      <4>3. 0 >= Machines[t] /\ Machines[t] \in Nat
        BY <2>1, <4>1, <4>2, UsersFinite DEF MInv, SharedAt
      <4> QED
        BY <2>1, <4>3
    <3> QED
      BY <3>1
  <2>4. PICK c \in users[t] : TRUE
    BY <2>3
  <2>5. c \in Bundles /\ Tool(c) = t /\ At(c) \in Holding \cup {"asking"}
    BY <2>1, <2>4 DEF MInv, SharedAt, Floor
  <2> QED
    BY <2>4, <2>5 DEF GoesOn, Holding
<1>3. CASE At(b) \notin {"delayed", "asking", "finished"}
  BY <1>3 DEF GoesOn
<1> QED
  BY <1>1, <1>2, <1>3

\* Every bundle is at an operation of its product, pieces are worked one by one
\* and only at a machine, and what holds machines or waits for them is bundles
\* (engine.py _bundle_process).
THEOREM FloorCorrect == SimulationSpec => []Floor
<1>1. MInv => Floor
  BY DEF MInv
<1> QED
  BY <1>1, MachinesInit, MachinesStep, PTL DEF SimulationSpec

\* Machines are never overbooked, idle while a bundle waits for one of its
\* tool, or held by somebody who does not work there, and bundles never all
\* wait for each other, for any products, routes and tools (engine.py _bundle_process, simpy.Resource).
THEOREM AlwaysMachinesShared == SimulationSpec => []MachinesShared
<1>1. MInv => MachinesShared
  BY SomebodyDoes DEF MInv, SharedAt, MachinesShared
<1> QED
  BY <1>1, MachinesInit, MachinesStep, PTL DEF SimulationSpec

-----------------------------------------------------------------------------
(* Simulation: the counters.                                               *)

\* Counting one unit more of one thing.
LEMMA UnitsChange ==
  ASSUME NEW f, NEW g, NEW s, IsFiniteSet(s), NEW x \in s,
         \A y \in s : f[y] \in Nat, \A y \in s \ {x} : g[y] = f[y], g[x] = f[x] + 1
  PROVE  Cardinality(Units(g, s)) = Cardinality(Units(f, s)) + 1
<1> DEFINE r == s \ {x}
<1>1. s = r \cup {x} /\ x \notin r /\ IsFiniteSet(r) /\ (\A y \in r : f[y] \in Nat) /\ f[x] \in Nat /\ g[x] \in Nat
  BY FS_Subset
<1>2. Units(g, r) = Units(f, r)
  BY DEF Units
<1> HIDE DEF r
<1>3. IsFiniteSet(Units(f, r)) /\ Cardinality(Units(f, r)) \in Nat
  BY <1>1, UnitsFinite
<1>4. Cardinality(Units(f, s)) = Cardinality(Units(f, r)) + f[x]
  BY <1>1, <1>3, UnitsAdd
<1>5. Cardinality(Units(g, s)) = Cardinality(Units(g, r)) + g[x]
  BY <1>1, <1>2, <1>3, UnitsAdd
<1> QED
  BY <1>1, <1>2, <1>3, <1>4, <1>5

MetricsType ==
  metrics \in [wip : Int, max_wip : Int, completed : Int,
               in_system : [Products -> Int], throughput : [Products -> Int],
               pieces : [Tools -> Int]]

CInv == MInv /\ MetricsType /\ WorkInProcess /\ EveryPieceCounted

sizes == [b \in Bundles |-> Size(b)]

LEMMA PiecesAreUnits ==
  ASSUME NEW S \in SUBSET Bundles
  PROVE  /\ Pieces(S) = Units(sizes, S) /\ IsFiniteSet(S)
         /\ IsFiniteSet(Pieces(S)) /\ Cardinality(Pieces(S)) \in Nat
<1>1. \A b \in S : sizes[b] = Size(b) /\ sizes[b] \in Nat
  BY BundleFacts DEF sizes
<1>2. Pieces(S) = Units(sizes, S)
  BY <1>1 DEF Pieces, Units
<1>3. IsFiniteSet(S)
  BY BundlesFinite, FS_Subset
<1> QED
  BY <1>1, <1>2, <1>3, UnitsFinite

LEMMA PiecesAdd ==
  ASSUME NEW S \in SUBSET Bundles, NEW b \in Bundles \ S
  PROVE  Cardinality(Pieces(S \cup {b})) = Cardinality(Pieces(S)) + Size(b)
<1>1. sizes[b] = Size(b) /\ sizes[b] \in Nat
  BY BundleFacts DEF sizes
<1>2. /\ Pieces(S) = Units(sizes, S) /\ IsFiniteSet(Units(sizes, S))
      /\ Pieces(S \cup {b}) = Units(sizes, S \cup {b})
  BY PiecesAreUnits
<1>3. Cardinality(Units(sizes, S \cup {b})) = Cardinality(Units(sizes, S)) + sizes[b]
  BY <1>1, <1>2, UnitsAdd
<1> QED
  BY <1>1, <1>2, <1>3

LEMMA OfProductAdd ==
  ASSUME NEW S \in SUBSET Bundles, NEW b \in Bundles \ S, NEW p, NEW q, q = b[1]
  PROVE  /\ OfProduct(S, p) \in SUBSET Bundles /\ b \notin OfProduct(S, p)
         /\ Cardinality(OfProduct(S, p)) \in Nat
         /\ p = q => /\ OfProduct(S \cup {b}, p) = OfProduct(S, p) \cup {b}
                        /\ Cardinality(OfProduct(S \cup {b}, p)) = Cardinality(OfProduct(S, p)) + 1
         /\ p # q => OfProduct(S \cup {b}, p) = OfProduct(S, p)
<1>1. OfProduct(S, p) \in SUBSET Bundles /\ b \notin OfProduct(S, p)
  BY DEF OfProduct
<1>2. IsFiniteSet(OfProduct(S, p)) /\ Cardinality(OfProduct(S, p)) \in Nat
  BY <1>1, PiecesAreUnits, FS_CardinalityType
<1>3. Cardinality(OfProduct(S, p) \cup {b}) = Cardinality(OfProduct(S, p)) + 1
  BY <1>1, <1>2, FS_AddElement
<1>4. /\ p = q => OfProduct(S \cup {b}, p) = OfProduct(S, p) \cup {b}
      /\ p # q => OfProduct(S \cup {b}, p) = OfProduct(S, p)
  BY DEF OfProduct
<1> HIDE DEF OfProduct
<1> QED
  BY <1>1, <1>2, <1>3, <1>4

Slots(t) == UNION {{<<b, i>> : i \in {j \in DOMAIN Steps(b) : Steps(b)[j].tool = t}} : b \in Bundles}

through == [s \in Bundles \X Nat |-> Through(s[1], s[2])]

LEMMA SlotsFinite ==
  ASSUME NEW t
  PROVE  /\ IsFiniteSet(Slots(t)) /\ Slots(t) \subseteq Bundles \X Nat
         /\ \A s \in Slots(t) : s = <<s[1], s[2]>> /\ s[2] \in DOMAIN Steps(s[1]) /\ Steps(s[1])[s[2]].tool = t
<1> DEFINE own(b) == {<<b, i>> : i \in {j \in DOMAIN Steps(b) : Steps(b)[j].tool = t}}
           T == {own(b) : b \in Bundles}
           h == [b \in Bundles |-> own(b)]
<1>1. \A b \in Bundles : DOMAIN Steps(b) = 1..Len(Steps(b)) /\ Len(Steps(b)) \in Nat
  BY BundleFacts, LenProperties
<1>2. ASSUME NEW b \in Bundles PROVE IsFiniteSet(own(b))
  <2>1. IsFiniteSet(DOMAIN Steps(b))
    BY <1>1, FS_Interval
  <2>2. IsFiniteSet({b})
    BY FS_Singleton
  <2>3. IsFiniteSet({b} \X DOMAIN Steps(b))
    BY <2>1, <2>2, FS_Product
  <2>4. own(b) \in SUBSET ({b} \X DOMAIN Steps(b))
    OBVIOUS
  <2> QED
    BY <2>3, <2>4, FS_Subset
<1>3. h \in Surjection(Bundles, T)
  BY DEF Surjection
<1>4. IsFiniteSet(T)
  BY <1>3, BundlesFinite, FS_Surjection
<1>5. \A x \in T : IsFiniteSet(x)
  BY <1>2
<1>6. IsFiniteSet(UNION T)
  BY <1>4, <1>5, FS_UNION
<1>7. Slots(t) = UNION T
  BY DEF Slots
<1>8. Slots(t) \subseteq Bundles \X Nat
  BY <1>1 DEF Slots
<1> QED
  BY <1>6, <1>7, <1>8 DEF Slots

LEMMA ProcessedAreUnits ==
  ASSUME NEW t
  PROVE  Processed(t) = Units(through, Slots(t))
<1>1. \A s \in Slots(t) : through[s] = Through(s[1], s[2])
  BY SlotsFinite DEF through
<1>2. Processed(t) \subseteq Units(through, Slots(t))
  <2> SUFFICES ASSUME NEW b \in Bundles, NEW i \in DOMAIN Steps(b), Steps(b)[i].tool = t
               PROVE  {<<b, i>>} \X (1..Through(b, i)) \subseteq Units(through, Slots(t))
    BY DEF Processed
  <2>1. <<b, i>> \in Slots(t)
    BY DEF Slots
  <2>2. through[<<b, i>>] = Through(b, i)
    BY <1>1, <2>1
  <2> QED
    BY <2>1, <2>2 DEF Units
<1>3. Units(through, Slots(t)) \subseteq Processed(t)
  <2> SUFFICES ASSUME NEW s \in Slots(t)
               PROVE  {s} \X (1..through[s]) \subseteq Processed(t)
    BY DEF Units
  <2>a. PICK b \in Bundles : \E i \in {j \in DOMAIN Steps(b) : Steps(b)[j].tool = t} : s = <<b, i>>
    BY DEF Slots
  <2>1. PICK i \in {j \in DOMAIN Steps(b) : Steps(b)[j].tool = t} : s = <<b, i>>
    BY <2>a
  <2>2. through[s] = Through(b, i)
    BY <1>1, <2>1
  <2> QED
    BY <2>1, <2>2 DEF Processed
<1> QED
  BY <1>2, <1>3

LEMMA ThroughType ==
  ASSUME Floor, NEW b \in Bundles, NEW i \in Nat
  PROVE  Through(b, i) \in Nat
<1>1. bundle[b] \in BundleStates /\ Size(b) \in Nat
  BY BundleFacts DEF Floor, BundleStates
<1> QED
  BY <1>1 DEF Through, BundleStates

\* A step at which no piece goes through an operation, and one at which one does.
LEMMA PiecesCounted ==
  ASSUME EveryPieceCounted, MetricsType, Floor, Floor',
         NEW b \in Bundles, NEW o, o = bundle[b].op,
         \A c \in Bundles \ {b} : \A i \in DOMAIN Steps(c) : Through(c, i)' = Through(c, i),
         \/ /\ \A i \in DOMAIN Steps(b) : Through(b, i)' = Through(b, i)
            /\ metrics'.pieces = metrics.pieces
         \/ /\ \A i \in DOMAIN Steps(b) \ {o} : Through(b, i)' = Through(b, i)
            /\ Through(b, o)' = Through(b, o) + 1
            /\ metrics'.pieces = [metrics.pieces EXCEPT ![Tool(b)] = @ + 1]
  PROVE  EveryPieceCounted'
<1> SUFFICES ASSUME NEW t \in Tools
             PROVE  metrics'.pieces[t] = Cardinality(Processed(t)')
  BY DEF EveryPieceCounted
<1> DEFINE S == Slots(t)
           f == through
           x == <<b, o>>
<1>1. PICK g : g = through'
  OBVIOUS
<1>2. Processed(t) = Units(f, S) /\ Processed(t)' = Units(g, S)
  <2>1. Processed(t) = Units(f, S)
    BY ProcessedAreUnits
  <2>2. (Processed(t) = Units(f, S))'
    BY ProcessedAreUnits, PTL
  <2> QED
    BY <1>1, <2>1, <2>2 DEF Units, Slots
<1>3. /\ IsFiniteSet(S) /\ S \subseteq Bundles \X Nat
      /\ \A s \in S : s = <<s[1], s[2]>> /\ s[2] \in DOMAIN Steps(s[1]) /\ Steps(s[1])[s[2]].tool = t
  BY SlotsFinite
<1>4. \A s \in S : f[s] = Through(s[1], s[2]) /\ g[s] = Through(s[1], s[2])' /\ f[s] \in Nat
  <2> TAKE s \in S
  <2>1. s[1] \in Bundles /\ s[2] \in Nat
    BY <1>3
  <2>2. Through(s[1], s[2]) \in Nat
    BY <2>1, ThroughType
  <2> QED
    BY <1>1, <1>3, <2>2 DEF through
<1>5. metrics.pieces[t] = Cardinality(Units(f, S))
  BY <1>2 DEF EveryPieceCounted
<1>6. o \in 1..Len(Steps(b)) /\ DOMAIN Steps(b) = 1..Len(Steps(b))
  BY BundleFacts, LenProperties DEF Floor
<1>7. x \in S <=> t = Tool(b)
  BY <1>3, <1>6 DEF Slots, Tool, Op
<1>8. \A s \in S \ {x} : g[s] = f[s]
  BY <1>3, <1>4
<1> HIDE DEF S, f
<1>9. ASSUME \A s \in S : g[s] = f[s] PROVE Cardinality(Units(g, S)) = Cardinality(Units(f, S))
  BY <1>9 DEF Units
<1>10. CASE metrics'.pieces = metrics.pieces /\ \A i \in DOMAIN Steps(b) : Through(b, i)' = Through(b, i)
  <2>1. \A s \in S : g[s] = f[s]
    BY <1>3, <1>4, <1>8, <1>10
  <2> QED
    BY <1>2, <1>5, <1>9, <1>10, <2>1
<1>11. CASE /\ Through(b, o)' = Through(b, o) + 1
            /\ metrics'.pieces = [metrics.pieces EXCEPT ![Tool(b)] = @ + 1]
  <2>1. CASE t = Tool(b)
    <3>1. x \in S /\ g[x] = f[x] + 1
      BY <1>4, <1>7, <1>11, <2>1
    <3> HIDE DEF x
    <3>2. Cardinality(Units(g, S)) = Cardinality(Units(f, S)) + 1
      BY <1>3, <1>4, <1>8, <3>1, UnitsChange
    <3>3. metrics'.pieces[t] = metrics.pieces[t] + 1
      BY <1>11, <2>1 DEF MetricsType
    <3> QED
      BY <1>2, <1>5, <3>2, <3>3
  <2>2. CASE t # Tool(b)
    <3>1. metrics'.pieces[t] = metrics.pieces[t]
      BY <1>11, <2>2 DEF MetricsType
    <3>2. \A s \in S : g[s] = f[s]
      BY <1>7, <1>8, <2>2
    <3> QED
      BY <1>2, <1>5, <1>9, <3>1, <3>2
  <2> QED
    BY <2>1, <2>2
<1> QED
  BY <1>10, <1>11

\* Who is on the floor, and who is done, follows from the places.
LEMMA SameFloor ==
  ASSUME CInv, NEW b \in Bundles, NEW r \in BundleStates, Moves(b, r),
         At(b) \notin {"delayed", "finished"}, r.at \notin {"delayed", "finished"},
         \A f \in {"wip", "max_wip", "completed", "in_system", "throughput"} : metrics'[f] = metrics[f]
  PROVE  WorkInProcess'
<1>1. /\ At(b)' = r.at /\ \A c \in Bundles \ {b} : At(c)' = At(c)
  BY OthersStay DEF CInv, MInv
<1>2. InSystem' = InSystem /\ Finished' = Finished
  BY <1>1 DEF InSystem, Finished
<1>3. /\ metrics'.wip = metrics.wip /\ metrics'.max_wip = metrics.max_wip
      /\ metrics'.completed = metrics.completed /\ metrics'.in_system = metrics.in_system
      /\ metrics'.throughput = metrics.throughput
  OBVIOUS
<1> QED
  BY <1>2, <1>3 DEF CInv, WorkInProcess, OfProduct, Pieces

LEMMA StartCounts ==
  ASSUME CInv, NEW b \in Bundles, StartBundle(b)
  PROVE  MetricsType' /\ WorkInProcess' /\ metrics'.pieces = metrics.pieces
<1> DEFINE wip == metrics.wip + Size(b)
           r == [bundle[b] EXCEPT !.at = "arriving"]
<1>0. PICK q \in Products : q = b[1]
  BY BundleFacts
<1>1. Floor /\ MetricsType /\ WorkInProcess /\ bundle[b] \in BundleStates /\ Size(b) \in Nat
  BY BundleFacts DEF CInv, MInv, Floor, BundleStates
<1>2. r \in BundleStates /\ r.at = "arriving" /\ Moves(b, r) /\ At(b) = "delayed"
  BY <1>1 DEF StartBundle, Goes, Moves, BundleStates, Places, Floor
<1>3. At(b)' = "arriving" /\ \A c \in Bundles \ {b} : At(c)' = At(c)
  BY <1>1, <1>2, OthersStay
<1>4. InSystem' = InSystem \cup {b} /\ Finished' = Finished /\ InSystem \in SUBSET Bundles /\ b \notin InSystem
  BY <1>2, <1>3 DEF InSystem, Finished
<1>5. wip \in Int
  BY <1>1 DEF MetricsType
<1>6. /\ metrics'.wip = wip /\ metrics'.max_wip = IF wip > metrics.max_wip THEN wip ELSE metrics.max_wip
      /\ metrics'.in_system = [metrics.in_system EXCEPT ![q] = @ + 1]
      /\ metrics'.completed = metrics.completed /\ metrics'.throughput = metrics.throughput
      /\ metrics'.pieces = metrics.pieces
  BY <1>0, <1>1 DEF StartBundle, MetricsType
<1>7. MetricsType'
  <2>1. PICK w \in Int : w = wip
    BY <1>5
  <2>2. PICK m \in Int : m = IF wip > metrics.max_wip THEN wip ELSE metrics.max_wip
    BY <1>1, <1>5 DEF MetricsType
  <2>3. PICK n \in [Products -> Int] : n = [metrics.in_system EXCEPT ![q] = @ + 1]
    <3>1. metrics.in_system \in [Products -> Int]
      BY <1>1 DEF MetricsType
    <3>2. [metrics.in_system EXCEPT ![q] = @ + 1] \in [Products -> Int]
      BY <3>1
    <3> QED
      BY <3>2
  <2>4. metrics' = [metrics EXCEPT !.wip = w, !.max_wip = m, !.in_system = n]
    BY <1>0, <1>1, <2>1, <2>2, <2>3 DEF StartBundle, MetricsType
  <2> QED
    BY <1>1, <2>4 DEF MetricsType
<1>8. Cardinality(Pieces(InSystem)') = wip
  BY <1>1, <1>4, PiecesAdd DEF WorkInProcess
<1>9. wip <= metrics'.max_wip
  BY <1>1, <1>5, <1>6 DEF MetricsType
<1>10. ASSUME NEW p \in Products
       PROVE  metrics'.in_system[p] = Cardinality(OfProduct(InSystem, p)')
  <2>1. metrics'.in_system[p] = IF p = q THEN metrics.in_system[p] + 1 ELSE metrics.in_system[p]
    BY <1>1, <1>6 DEF MetricsType
  <2>2. OfProduct(InSystem, p)' = OfProduct(InSystem \cup {b}, p)
    BY <1>4 DEF OfProduct
  <2>3. metrics.in_system[p] = Cardinality(OfProduct(InSystem, p))
    BY <1>1 DEF WorkInProcess
  <2>4. /\ Cardinality(OfProduct(InSystem, p)) \in Nat
        /\ p = q => Cardinality(OfProduct(InSystem \cup {b}, p)) = Cardinality(OfProduct(InSystem, p)) + 1
        /\ p # q => OfProduct(InSystem \cup {b}, p) = OfProduct(InSystem, p)
    BY <1>0, <1>4, OfProductAdd
  <2> QED
    BY <2>1, <2>2, <2>3, <2>4
<1> QED
  BY <1>1, <1>4, <1>6, <1>7, <1>8, <1>9, <1>10 DEF WorkInProcess, OfProduct, Pieces

LEMMA FinishCounts ==
  ASSUME CInv, NEW b \in Bundles, Finish(b)
  PROVE  MetricsType' /\ WorkInProcess' /\ metrics'.pieces = metrics.pieces
<1> DEFINE r == [bundle[b] EXCEPT !.at = "finished"]
           I == InSystem \ {b}
<1>0. PICK q \in Products : q = b[1]
  BY BundleFacts
<1>1. Floor /\ MetricsType /\ WorkInProcess /\ bundle[b] \in BundleStates /\ Size(b) \in Nat
  BY BundleFacts DEF CInv, MInv, Floor, BundleStates
<1>2. r \in BundleStates /\ r.at = "finished" /\ Moves(b, r) /\ At(b) = "leaving"
  BY <1>1 DEF Finish, Goes, Moves, BundleStates, Places, Floor
<1>3. At(b)' = "finished" /\ \A c \in Bundles \ {b} : At(c)' = At(c)
  BY <1>1, <1>2, OthersStay
<1>4. /\ InSystem' = I /\ InSystem = I \cup {b} /\ I \in SUBSET Bundles /\ b \notin I
      /\ Finished' = Finished \cup {b} /\ Finished \in SUBSET Bundles /\ b \notin Finished
  BY <1>2, <1>3 DEF InSystem, Finished
<1>5. /\ metrics'.wip = metrics.wip - Size(b) /\ metrics'.max_wip = metrics.max_wip
      /\ metrics'.completed = metrics.completed + 1
      /\ metrics'.in_system = [metrics.in_system EXCEPT ![q] = @ - 1]
      /\ metrics'.throughput = [metrics.throughput EXCEPT ![q] = @ + Size(b)]
      /\ metrics'.pieces = metrics.pieces
  BY <1>0, <1>1 DEF Finish, Completed, MetricsType
<1>6. MetricsType'
  <2>1. metrics.wip - Size(b) \in Int /\ metrics.completed + 1 \in Int
    BY <1>1 DEF MetricsType
  <2>2. PICK w \in Int, c \in Int : w = metrics.wip - Size(b) /\ c = metrics.completed + 1
    BY <2>1
  <2>3. metrics.in_system \in [Products -> Int] /\ metrics.throughput \in [Products -> Int]
    BY <1>1 DEF MetricsType
  <2>4. /\ [metrics.in_system EXCEPT ![q] = @ - 1] \in [Products -> Int]
        /\ [metrics.throughput EXCEPT ![q] = @ + Size(b)] \in [Products -> Int]
    BY <1>1, <2>3
  <2>5. PICK n \in [Products -> Int], m \in [Products -> Int] :
          /\ n = [metrics.in_system EXCEPT ![q] = @ - 1]
          /\ m = [metrics.throughput EXCEPT ![q] = @ + Size(b)]
    BY <2>4
  <2>6. metrics' = [metrics EXCEPT !.wip = w, !.completed = c, !.throughput = m, !.in_system = n]
    BY <1>0, <1>1, <2>2, <2>5 DEF Finish, Completed, MetricsType
  <2> QED
    BY <1>1, <2>6 DEF MetricsType
<1> HIDE DEF I, r
<1>7. metrics'.wip = Cardinality(Pieces(InSystem)') /\ metrics'.wip <= metrics'.max_wip
  <2>1. Cardinality(Pieces(I \cup {b})) = Cardinality(Pieces(I)) + Size(b) /\ Cardinality(Pieces(I)) \in Nat
    BY <1>4, PiecesAdd, PiecesAreUnits
  <2>2. metrics.wip = Cardinality(Pieces(I \cup {b})) /\ metrics.wip <= metrics.max_wip
        /\ metrics.max_wip \in Int
    BY <1>1, <1>4 DEF WorkInProcess, MetricsType
  <2>3. Pieces(InSystem)' = Pieces(I)
    BY <1>4 DEF Pieces
  <2> QED
    BY <1>1, <1>5, <2>1, <2>2, <2>3
<1>8. metrics'.completed = Cardinality(Finished')
  <2>1. IsFiniteSet(Finished) /\ Cardinality(Finished) \in Nat
    BY <1>4, PiecesAreUnits, FS_CardinalityType
  <2>2. Cardinality(Finished \cup {b}) = Cardinality(Finished) + 1
    BY <1>4, <2>1, FS_AddElement
  <2>3. metrics.completed = Cardinality(Finished)
    BY <1>1 DEF WorkInProcess
  <2> QED
    BY <1>4, <1>5, <2>2, <2>3
<1>9. ASSUME NEW p \in Products
      PROVE  metrics'.in_system[p] = Cardinality(OfProduct(InSystem, p)')
  <2>1. metrics'.in_system[p] = IF p = q THEN metrics.in_system[p] - 1 ELSE metrics.in_system[p]
    BY <1>1, <1>5 DEF MetricsType
  <2>2. OfProduct(InSystem, p)' = OfProduct(I, p)
    BY <1>4 DEF OfProduct
  <2>3. metrics.in_system[p] = Cardinality(OfProduct(I \cup {b}, p))
    BY <1>1, <1>4 DEF WorkInProcess
  <2>4. /\ Cardinality(OfProduct(I, p)) \in Nat
        /\ p = q => Cardinality(OfProduct(I \cup {b}, p)) = Cardinality(OfProduct(I, p)) + 1
        /\ p # q => OfProduct(I \cup {b}, p) = OfProduct(I, p)
    <3>1. I \in SUBSET Bundles /\ b \in Bundles \ I
      BY <1>4
    <3> QED
      BY <1>0, <3>1, OfProductAdd
  <2> QED
    BY <2>1, <2>2, <2>3, <2>4
<1>10. ASSUME NEW p \in Products
       PROVE  metrics'.throughput[p] = Cardinality(Pieces(OfProduct(Finished, p))')
  <2> DEFINE F == OfProduct(Finished, p)
  <2>1. metrics'.throughput[p] = IF p = q THEN metrics.throughput[p] + Size(b) ELSE metrics.throughput[p]
    BY <1>1, <1>5 DEF MetricsType
  <2>2. Pieces(OfProduct(Finished, p))' = Pieces(OfProduct(Finished \cup {b}, p))
    BY <1>4 DEF OfProduct, Pieces
  <2>3. metrics.throughput[p] = Cardinality(Pieces(F))
    BY <1>1 DEF WorkInProcess
  <2>4. /\ F \in SUBSET Bundles /\ b \notin F
        /\ p = q => OfProduct(Finished \cup {b}, p) = F \cup {b}
        /\ p # q => OfProduct(Finished \cup {b}, p) = F
    BY <1>0, <1>4, OfProductAdd
  <2> HIDE DEF F
  <2>5. Cardinality(Pieces(F \cup {b})) = Cardinality(Pieces(F)) + Size(b)
    BY <2>4, PiecesAdd
  <2> QED
    BY <2>1, <2>2, <2>3, <2>4, <2>5
<1> QED
  BY <1>5, <1>6, <1>7, <1>8, <1>9, <1>10 DEF WorkInProcess, OfProduct, Pieces

\* What a step does to the pieces that have been through an operation.
LEMMA OthersThrough ==
  ASSUME Floor, NEW b \in Bundles, NEW r \in BundleStates, Moves(b, r)
  PROVE  \A c \in Bundles \ {b} : \A i \in DOMAIN Steps(c) : Through(c, i)' = Through(c, i)
<1>1. \A c \in Bundles \ {b} : bundle'[c] = bundle[c] /\ At(c)' = At(c)
  BY OthersStay
<1> QED
  BY <1>1 DEF Through

\* The pieces of b that have been through operation i, if r is where b is.
ThroughAt(b, r, i) ==
  IF i < r.op \/ r.at = "finished" THEN Size(b)
  ELSE IF i > r.op THEN 0
  ELSE CASE r.at = "leaving" -> Size(b)
         [] r.at = "reworking" -> r.piece + 1
         [] OTHER -> r.piece

LEMMA CountersInit == SimulationInit => CInv
<1> SUFFICES ASSUME SimulationInit PROVE CInv
  OBVIOUS
<1>1. MInv
  BY MachinesInit
<1>2. MetricsType
  BY DEF SimulationInit, MetricsType
<1>3. InSystem = {} /\ Finished = {}
  BY DEF SimulationInit, InSystem, Finished, At
<1>4. WorkInProcess
  <2>1. Pieces({}) = {} /\ \A p : OfProduct({}, p) = {}
    BY DEF Pieces, OfProduct
  <2>2. /\ metrics.wip = 0 /\ metrics.max_wip = 0 /\ metrics.completed = 0 /\ Cardinality({}) = 0
        /\ \A p \in Products : metrics.in_system[p] = 0 /\ metrics.throughput[p] = 0
    BY FS_EmptySet DEF SimulationInit
  <2>3. /\ Pieces(InSystem) = {}
        /\ \A p \in Products : OfProduct(InSystem, p) = {} /\ Pieces(OfProduct(Finished, p)) = {}
    BY <1>3, <2>1
  <2>4. metrics.wip <= metrics.max_wip
    BY <2>2
  <2> QED
    BY <1>3, <2>2, <2>3, <2>4 DEF WorkInProcess
<1>5. EveryPieceCounted
  <2> SUFFICES ASSUME NEW t \in Tools PROVE Processed(t) = {}
    BY FS_EmptySet DEF SimulationInit, EveryPieceCounted
  <2>1. \A b \in Bundles : \A i \in DOMAIN Steps(b) : i \in Nat \ {0}
    BY BundleFacts, LenProperties
  <2>2. \A b \in Bundles : \A i \in DOMAIN Steps(b) : Through(b, i) = 0
    BY <2>1 DEF Through, SimulationInit, At
  <2> QED
    BY <2>2 DEF Processed
<1> QED
  BY <1>1, <1>2, <1>4, <1>5 DEF CInv

LEMMA CountersStep ==
  ASSUME CInv, NEW b \in Bundles, Step(b)
  PROVE  CInv'
<1>0. MInv'
  <2>1. [SimulationNext]_simulationVars
    BY DEF SimulationNext
  <2> QED
    BY <2>1, MachinesStep DEF CInv
<1>1. /\ MInv /\ Floor /\ Floor' /\ MetricsType /\ WorkInProcess /\ EveryPieceCounted
      /\ bundle[b] \in BundleStates /\ bundle \in [Bundles -> BundleStates] /\ Fits(b, bundle[b])
      /\ Len(Steps(b)) \in Nat /\ Size(b) \in Nat \ {0} /\ DOMAIN Steps(b) = 1..Len(Steps(b))
  BY <1>0, FitsNow, BundleFacts, LenProperties DEF CInv, MInv, Floor, BundleStates
<1>2. PICK o \in DOMAIN Steps(b), n \in Nat : o = bundle[b].op /\ n = bundle[b].piece
  BY <1>1 DEF Fits, BundleStates
<1>3. PICK r \in BundleStates : r = bundle'[b]
  BY <1>0 DEF MInv, Floor, BundleStates
<1>4. Moves(b, r) /\ At(b)' = r.at
  <2>1. \E q : bundle' = [bundle EXCEPT ![b] = q]
    BY <1>1 DEF Step, StartBundle, Request, Begin, Repaired, Process, Rework, NextPiece, Move, Finish, Goes
  <2> QED
    BY <1>1, <1>3, <2>1 DEF Moves, At
<1>5. \A c \in Bundles \ {b} : \A i \in DOMAIN Steps(c) : Through(c, i)' = Through(c, i)
  BY <1>1, <1>4, OthersThrough
<1>a. \A i \in DOMAIN Steps(b) :
        /\ Through(b, i)' = ThroughAt(b, r, i) /\ Through(b, i) = ThroughAt(b, bundle[b], i)
        /\ i \in Nat
  BY <1>1, <1>3, <1>4 DEF Through, ThroughAt, At
<1>b. ASSUME NEW q, q.op \in Nat, q.piece \in Nat, NEW i \in Nat
      PROVE  /\ i < q.op \/ q.at = "finished" => ThroughAt(b, q, i) = Size(b)
             /\ i > q.op /\ q.at # "finished" => ThroughAt(b, q, i) = 0
             /\ i = q.op /\ q.at = "leaving" => ThroughAt(b, q, i) = Size(b)
             /\ i = q.op /\ q.at = "reworking" => ThroughAt(b, q, i) = q.piece + 1
             /\ i = q.op /\ q.at \notin {"leaving", "reworking", "finished"} => ThroughAt(b, q, i) = q.piece
  BY <1>b DEF ThroughAt
<1>c. bundle[b].op \in Nat /\ bundle[b].piece \in Nat /\ r.op \in Nat /\ r.piece \in Nat /\ o \in 1..Len(Steps(b))
  BY <1>1, <1>2 DEF BundleStates
<1>6. ASSUME metrics' = metrics, \A i \in DOMAIN Steps(b) : Through(b, i)' = Through(b, i),
             At(b) \notin {"delayed", "finished"}, r.at \notin {"delayed", "finished"}
      PROVE  CInv'
  <2>1. EveryPieceCounted'
    BY <1>1, <1>2, <1>5, <1>6, PiecesCounted
  <2>2. WorkInProcess'
    BY <1>4, <1>6, SameFloor
  <2> QED
    BY <1>0, <1>1, <1>6, <2>1, <2>2 DEF CInv, MetricsType
<1>7. CASE StartBundle(b) \/ Finish(b)
  <2>1. MetricsType' /\ WorkInProcess' /\ metrics'.pieces = metrics.pieces
    BY <1>7, StartCounts, FinishCounts
  <2>2. \A i \in DOMAIN Steps(b) : Through(b, i)' = Through(b, i)
    <3>1. /\ r.op = o /\ r.piece = n
          /\ \/ At(b) = "delayed" /\ r.at = "arriving"
             \/ At(b) = "leaving" /\ r.at = "finished" /\ o = Len(Steps(b))
      BY <1>1, <1>2, <1>3, <1>7 DEF StartBundle, Finish, Goes, BundleStates
    <3> QED
      BY <1>1, <1>2, <1>a, <1>b, <1>c, <3>1 DEF At
  <2>3. EveryPieceCounted'
    BY <1>1, <1>2, <1>5, <2>1, <2>2, PiecesCounted
  <2> QED
    BY <1>0, <2>1, <2>3 DEF CInv
<1>8. CASE Request(b) \/ Begin(b) \/ Repaired(b)
  <2>1. /\ r.op = o /\ r.piece = n /\ metrics' = metrics
        /\ At(b) \in {"arriving", "asking", "broken"} /\ r.at \in {"asking", "working", "broken"}
    BY <1>1, <1>2, <1>3, <1>8 DEF Request, Begin, Repaired, Goes, BundleStates
  <2>2. \A i \in DOMAIN Steps(b) : Through(b, i)' = Through(b, i)
    BY <1>1, <1>2, <1>a, <1>b, <1>c, <2>1 DEF At
  <2> QED
    BY <1>6, <2>1, <2>2
<1>9. CASE Move(b)
  <2>1. /\ r.op = o + 1 /\ r.piece = n /\ metrics' = metrics /\ o + 1 <= Len(Steps(b))
        /\ At(b) = "leaving" /\ r.at = "arriving" /\ n = 0
    BY <1>1, <1>2, <1>3, <1>9 DEF Move, Fits, At, BundleStates
  <2>2. \A i \in DOMAIN Steps(b) : Through(b, i)' = Through(b, i)
    <3> TAKE i \in DOMAIN Steps(b)
    <3>1. i \in Nat /\ o \in Nat /\ bundle[b].op = o /\ bundle[b].piece = 0 /\ bundle[b].at = "leaving"
          /\ r.op = o + 1 /\ r.piece = 0 /\ r.at = "arriving"
      BY <1>2, <1>a, <1>c, <2>1 DEF At
    <3>2. CASE i <= o
      BY <1>a, <1>b, <1>c, <3>1, <3>2
    <3>3. CASE i = o + 1
      BY <1>a, <1>b, <1>c, <3>1, <3>3
    <3>4. CASE i > o + 1
      BY <1>a, <1>b, <1>c, <3>1, <3>4
    <3> QED
      BY <3>1, <3>2, <3>3, <3>4
  <2> QED
    BY <1>6, <2>1, <2>2
<1>10. CASE Rework(b)
  <2>1. /\ r.op = o /\ metrics' = metrics /\ At(b) = "reworking"
        /\ \/ r.at = "working" /\ r.piece = n + 1
           \/ r.at = "leaving" /\ n + 1 = Size(b)
    BY <1>1, <1>2, <1>3, <1>10 DEF Rework, NextPiece, Fits, BundleStates
  <2>2. \A i \in DOMAIN Steps(b) : Through(b, i)' = Through(b, i)
    BY <1>1, <1>2, <1>a, <1>b, <1>c, <2>1 DEF At
  <2> QED
    BY <1>6, <2>1, <2>2
<1>11. CASE Process(b)
  <2>1. /\ r.op = o /\ At(b) = "working"
        /\ \/ r.at = "working" /\ r.piece = n + 1
           \/ r.at = "reworking" /\ r.piece = n
           \/ r.at = "leaving" /\ n + 1 = Size(b)
    BY <1>1, <1>2, <1>3, <1>11 DEF Process, NextPiece, Goes, Fits, BundleStates
  <2>2. /\ \A i \in DOMAIN Steps(b) \ {o} : Through(b, i)' = Through(b, i)
        /\ Through(b, o)' = Through(b, o) + 1
    BY <1>1, <1>2, <1>a, <1>b, <1>c, <2>1 DEF At
  <2>3. PICK u \in Tools : u = Tool(b)
    BY <1>1, ToolIsTool
  <2>4. /\ metrics'.pieces = [metrics.pieces EXCEPT ![u] = @ + 1]
        /\ \A f \in {"wip", "max_wip", "completed", "in_system", "throughput"} : metrics'[f] = metrics[f]
    BY <1>1, <1>11, <2>3 DEF Process, MetricsType
  <2>5. MetricsType'
    <3>1. metrics.pieces \in [Tools -> Int]
      BY <1>1 DEF MetricsType
    <3>2. PICK m \in [Tools -> Int] : m = [metrics.pieces EXCEPT ![u] = @ + 1]
      <4>1. [metrics.pieces EXCEPT ![u] = @ + 1] \in [Tools -> Int]
        BY <3>1
      <4> QED
        BY <4>1
    <3>3. metrics' = [metrics EXCEPT !.pieces = m]
      BY <1>1, <1>11, <2>3, <3>2 DEF Process, MetricsType
    <3> QED
      BY <1>1, <3>3 DEF MetricsType
  <2>6. EveryPieceCounted'
    BY <1>1, <1>2, <1>5, <2>2, <2>3, <2>4, PiecesCounted
  <2>7. WorkInProcess'
    BY <1>4, <2>1, <2>4, SameFloor
  <2> QED
    BY <1>0, <2>5, <2>6, <2>7 DEF CInv
<1> QED
  BY <1>7, <1>8, <1>9, <1>10, <1>11 DEF Step

\* Whatever the products, routes, machines and demands, and in whatever order
\* the processes go on, the counters add up: what a bundle is counted for it
\* has been through, and what has not been through is somewhere between
\* (engine.py _bundle_process, metrics).
THEOREM AlwaysCountersAgree == SimulationSpec => []CountersAgree
<1>1. CInv /\ [SimulationNext]_simulationVars => CInv'
  <2> SUFFICES ASSUME CInv, [SimulationNext]_simulationVars PROVE CInv'
    OBVIOUS
  <2>1. CASE UNCHANGED <<bundle, users, queue, metrics>>
    <3>1. MInv'
      BY MachinesStep DEF CInv
    <3>2. /\ InSystem' = InSystem /\ Finished' = Finished /\ metrics' = metrics
          /\ \A t \in Tools : Processed(t)' = Processed(t)
      BY <2>1 DEF InSystem, Finished, Processed, Through, At
    <3> QED
      BY <3>1, <3>2 DEF CInv, MetricsType, WorkInProcess, EveryPieceCounted, OfProduct, Pieces
  <2> QED
    BY <2>1, CountersStep DEF SimulationNext, Stop, simulationVars
<1>2. CInv => CountersAgree
  BY DEF CInv, CountersAgree
<1> QED
  BY <1>1, <1>2, CountersInit, PTL DEF SimulationSpec

\* Bundles of a product, all of the same size.
LEMMA PiecesOfProduct ==
  ASSUME NEW p \in Products
  PROVE  Cardinality(Pieces(OfProduct(Bundles, p))) = BundlesNeeded(p) * Demand[p].size
<1> DEFINE n == BundlesNeeded(p)
           k == Demand[p].size
           own == {p} \X (1..n)
<1>1. n \in Nat /\ k \in Nat
  BY NeededType, WantedType
<1>2. OfProduct(Bundles, p) = own
  BY DEF OfProduct, Bundles
<1>3. Pieces(own) = own \X (1..k)
  BY DEF Pieces, Size
<1> HIDE DEF n, k
<1>4. IsFiniteSet({p}) /\ Cardinality({p}) = 1
  BY FS_Singleton
<1>5. ASSUME NEW m \in Nat PROVE IsFiniteSet(1..m) /\ Cardinality(1..m) = m
  <2>1. Cardinality(1..m) = IF 1 > m THEN 0 ELSE m - 1 + 1
    BY FS_Interval
  <2> QED
    BY <2>1, FS_Interval
<1>a. IsFiniteSet(own) /\ Cardinality(own) = Cardinality({p}) * Cardinality(1..n)
  <2>1. IsFiniteSet(1..n)
    BY <1>1, <1>5
  <2> QED
    BY <1>4, <2>1, FS_Product
<1>b. Cardinality(own) = n
  <2>1. Cardinality(1..n) = n
    BY <1>1, <1>5
  <2> QED
    BY <1>1, <1>4, <1>a, <2>1
<1> HIDE DEF own
<1>6. Cardinality(own \X (1..k)) = Cardinality(own) * Cardinality(1..k)
  <2>1. IsFiniteSet(1..k)
    BY <1>1, <1>5
  <2> QED
    BY <1>a, <2>1, FS_Product
<1>7. Cardinality(1..k) = k
  BY <1>1, <1>5
<1> QED
  BY <1>1, <1>2, <1>3, <1>b, <1>6, <1>7 DEF n, k

\* For any demand, mix and bundle size: once every bundle is finished, what was
\* made of each product covers its demand of the horizon with less than one bundle
\* to spare, and nothing is left on the floor (engine.py _generate_bundles and
\* the counters of _bundle_process).
THEOREM AlwaysDemandMet == SimulationSpec => []DemandMet
<1>1. CountersAgree => DemandMet
  <2> SUFFICES ASSUME CountersAgree, Finished = Bundles PROVE
        /\ metrics.wip = 0
        /\ \A p \in Products : Route[p] # <<>> =>
             LET made == metrics.throughput[p] * Wanted(p)[2] IN
               Wanted(p)[1] <= made /\ made < Wanted(p)[1] + Demand[p].size * Wanted(p)[2]
    BY DEF DemandMet
  <2>1. metrics.wip = 0
    <3>1. InSystem = {}
      BY DEF InSystem, Finished
    <3>2. Pieces(InSystem) = {}
      BY <3>1 DEF Pieces
    <3> QED
      BY <3>2, FS_EmptySet DEF CountersAgree, WorkInProcess
  <2>2. ASSUME NEW p \in Products, Route[p] # <<>>
        PROVE  LET made == metrics.throughput[p] * Wanted(p)[2] IN
                 Wanted(p)[1] <= made /\ made < Wanted(p)[1] + Demand[p].size * Wanted(p)[2]
    <3> DEFINE n == BundlesNeeded(p)
               k == Demand[p].size
               d == Wanted(p)[2]
               w == Wanted(p)[1]
    <3>1. metrics.throughput[p] = n * k
      BY PiecesOfProduct DEF CountersAgree, WorkInProcess
    <3>2. n \in Nat /\ k \in Nat /\ d \in Nat /\ w <= n * (d * k) /\ n * (d * k) < w + d * k
      BY <2>2, NeededType, WantedType
    <3> HIDE DEF n, k, d, w
    <3>3. (n * k) * d = n * (d * k) /\ k * d = d * k
      BY <3>2
    <3> QED
      BY <3>1, <3>2, <3>3 DEF n, k, d, w
  <2> QED
    BY <2>1, <2>2
<1> QED
  BY <1>1, AlwaysCountersAgree, PTL

-----------------------------------------------------------------------------
(* Staffing: what the inductive invariants are made of.                    *)

\* A row as it will be when plan p is committed.
RowAfter(t, p, i) ==
  IF i \in DOMAIN p.set
  THEN [c \in DOMAIN t[i] |-> IF c \in p.set[i].cols THEN p.set[i].val[c] ELSE t[i][c]]
  ELSE t[i]

Values == (1..MaxShare) \cup BOOLEAN \cup Bounds
Entries == UNION {[C -> [old : Values, new : Values]] : C \in SUBSET LineColumns}

\* A plan changes rows of one employee only, and adds at most one of the same.
PlanOf(p, table, t, rows, columns) ==
  /\ p.table = table /\ p.emp \in Employees
  /\ DOMAIN p.set \subseteq DOMAIN t
  /\ \A i \in DOMAIN p.set :
       /\ t[i].emp = p.emp
       /\ p.set[i].cols \subseteq columns /\ p.set[i].val \in rows /\ p.set[i].old \in rows
  /\ p.add = <<>> \/ \E r \in rows : r.emp = p.emp /\ p.add = <<r>>

LinePlan(p) == PlanOf(p, "line", line, LineRows, LineColumns)
PoolPlan(p) == PlanOf(p, "pool", pool, PoolRows, PoolColumns)

Tables ==
  /\ line \in Seq(LineRows) /\ trail \in Seq(Seq(Entries)) /\ Len(trail) = Len(line)
  /\ pool \in Seq(PoolRows)
  /\ today \in Days
  /\ irregular \in [Employees -> SUBSET Marks]
  /\ session = [s \in Sessions |-> session[s]]

Plans == \A s \in Sessions : Idle(s) \/ LinePlan(session[s]) \/ PoolPlan(session[s])

\* Two requests about one employee leave the mark.
Alone ==
  \A s, t \in Sessions :
    s # t /\ ~Idle(s) /\ ~Idle(t) /\ session[s].emp = session[t].emp => "raced" \in irregular[session[s].emp]

\* A plan that nothing overlapped still holds the rows as they are.
Fresh(p) == "raced" \notin irregular[p.emp] => \A i \in DOMAIN p.set : p.set[i].old = line[i]

ActiveAfter(p) == {i \in DOMAIN line : RowAfter(line, p, i).emp = p.emp /\ IsActive(RowAfter(line, p, i))}
SharesAfter(p) == [i \in DOMAIN line |-> RowAfter(line, p, i).share]

\* What a plan will leave is within the limits.
FitsLimits(p) ==
  irregular[p.emp] \cap {"raced", "reopened"} = {} =>
    /\ Cardinality(ActiveAfter(p)) + Len(p.add) <= MaxActive
    /\ SumFunctionOnSet(SharesAfter(p), ActiveAfter(p)) + (IF p.add = <<>> THEN 0 ELSE p.add[1].share) <= MaxShare
    /\ "promoted" \notin irregular[p.emp] =>
         Cardinality({i \in ActiveAfter(p) : RowAfter(line, p, i).primary})
           + (IF p.add # <<>> /\ p.add[1].primary THEN 1 ELSE 0) <= 1

\* A plan lends an employee for no day that is taken.
Free(p) ==
  irregular[p.emp] \cap {"raced", "crowded", "edited"} = {} =>
    /\ \A i \in DOMAIN p.set : RowAfter(pool, p, i).client = NoClient
    /\ p.add # <<>> /\ p.add[1].client # NoClient =>
         \A i \in AssignedOf(p.emp) : \A d \in Days : ~(Covers(pool[i], d) /\ Covers(p.add[1], d))

SBase == Tables /\ Plans /\ Alone

-----------------------------------------------------------------------------
(* Rows and plans.                                                         *)

\* What a plan does to a row of a table.
LEMMA RowChanged ==
  ASSUME NEW r \in LineRows, NEW val \in LineRows, NEW cols \in SUBSET LineColumns, NEW q,
         q = [c \in DOMAIN r |-> IF c \in cols THEN val[c] ELSE r[c]]
  PROVE  /\ q \in LineRows /\ q.emp = r.emp
         /\ \A c \in LineColumns : q[c] = IF c \in cols THEN val[c] ELSE r[c]
<1>1. DOMAIN r = {"emp", "key", "share", "primary", "end"}
  BY DEF LineRows
<1> QED
  BY <1>1 DEF LineRows, LineColumns

LEMMA PoolRowChanged ==
  ASSUME NEW r \in PoolRows, NEW val \in PoolRows, NEW cols \in SUBSET PoolColumns, NEW q,
         q = [c \in DOMAIN r |-> IF c \in cols THEN val[c] ELSE r[c]]
  PROVE  /\ q \in PoolRows /\ q.emp = r.emp
         /\ \A c \in PoolColumns : q[c] = IF c \in cols THEN val[c] ELSE r[c]
<1>1. DOMAIN r = {"emp", "client", "from", "to"}
  BY DEF PoolRows
<1> QED
  BY <1>1 DEF PoolRows, PoolColumns

LEMMA RowAfterLine ==
  ASSUME Tables, NEW p, LinePlan(p), NEW i \in DOMAIN line
  PROVE  /\ RowAfter(line, p, i) \in LineRows /\ RowAfter(line, p, i).emp = line[i].emp
         /\ line[i] \in LineRows
         /\ i \notin DOMAIN p.set => RowAfter(line, p, i) = line[i]
         /\ i \in DOMAIN p.set =>
              \A c \in LineColumns :
                RowAfter(line, p, i)[c] = IF c \in p.set[i].cols THEN p.set[i].val[c] ELSE line[i][c]
<1>1. line[i] \in LineRows
  BY LenProperties, ElementOfSeq DEF Tables
<1>2. CASE i \notin DOMAIN p.set
  BY <1>1, <1>2 DEF RowAfter
<1>3. CASE i \in DOMAIN p.set
  <2>1. p.set[i].cols \in SUBSET LineColumns /\ p.set[i].val \in LineRows
    BY <1>3 DEF LinePlan, PlanOf
  <2>2. PICK r \in LineRows, val \in LineRows, cols \in SUBSET LineColumns :
          r = line[i] /\ val = p.set[i].val /\ cols = p.set[i].cols
    BY <1>1, <2>1
  <2>3. PICK q : q = [c \in DOMAIN r |-> IF c \in cols THEN val[c] ELSE r[c]]
    OBVIOUS
  <2>4. q = RowAfter(line, p, i)
    BY <1>3, <2>2, <2>3 DEF RowAfter
  <2>5. /\ q \in LineRows /\ q.emp = r.emp
        /\ \A c \in LineColumns : q[c] = IF c \in cols THEN val[c] ELSE r[c]
    BY <2>3, RowChanged
  <2> QED
    BY <1>1, <1>3, <2>2, <2>4, <2>5
<1> QED
  BY <1>2, <1>3

LEMMA RowAfterPool ==
  ASSUME Tables, NEW p, PoolPlan(p), NEW i \in DOMAIN pool
  PROVE  /\ RowAfter(pool, p, i) \in PoolRows /\ RowAfter(pool, p, i).emp = pool[i].emp
         /\ pool[i] \in PoolRows
         /\ i \notin DOMAIN p.set => RowAfter(pool, p, i) = pool[i]
         /\ i \in DOMAIN p.set =>
              \A c \in PoolColumns :
                RowAfter(pool, p, i)[c] = IF c \in p.set[i].cols THEN p.set[i].val[c] ELSE pool[i][c]
<1>1. pool[i] \in PoolRows
  BY LenProperties, ElementOfSeq DEF Tables
<1>2. CASE i \notin DOMAIN p.set
  BY <1>1, <1>2 DEF RowAfter
<1>3. CASE i \in DOMAIN p.set
  <2>1. p.set[i].cols \in SUBSET PoolColumns /\ p.set[i].val \in PoolRows
    BY <1>3 DEF PoolPlan, PlanOf
  <2>2. PICK r \in PoolRows, val \in PoolRows, cols \in SUBSET PoolColumns :
          r = pool[i] /\ val = p.set[i].val /\ cols = p.set[i].cols
    BY <1>1, <2>1
  <2>3. PICK q : q = [c \in DOMAIN r |-> IF c \in cols THEN val[c] ELSE r[c]]
    OBVIOUS
  <2>4. q = RowAfter(pool, p, i)
    BY <1>3, <2>2, <2>3 DEF RowAfter
  <2>5. /\ q \in PoolRows /\ q.emp = r.emp
        /\ \A c \in PoolColumns : q[c] = IF c \in cols THEN val[c] ELSE r[c]
    BY <2>3, PoolRowChanged
  <2> QED
    BY <1>1, <1>3, <2>2, <2>4, <2>5
<1> QED
  BY <1>2, <1>3

\* A sequence with at most one element added.
LEMMA Joined ==
  ASSUME NEW R, NEW k \in Seq(R), NEW a \in Seq(R), Len(a) \in {0, 1}, NEW w, w = k \o a
  PROVE  /\ w \in Seq(R) /\ Len(w) = Len(k) + Len(a) /\ DOMAIN w = 1..Len(w) /\ DOMAIN k = 1..Len(k)
         /\ Len(k) \in Nat /\ Len(w) \in Nat
         /\ \A i \in DOMAIN k : w[i] = k[i]
         /\ Len(a) = 1 => w[Len(k) + 1] = a[1]
<1>1. /\ w \in Seq(R) /\ Len(w) = Len(k) + Len(a)
      /\ \A i \in 1..(Len(k) + Len(a)) : w[i] = IF i <= Len(k) THEN k[i] ELSE a[i - Len(k)]
  BY ConcatProperties
<1>2. DOMAIN w = 1..Len(w) /\ DOMAIN k = 1..Len(k) /\ Len(k) \in Nat /\ Len(w) \in Nat
  BY <1>1, LenProperties
<1>3. \A i \in DOMAIN k : w[i] = k[i]
  BY <1>1, <1>2
<1>4. Len(a) = 1 => w[Len(k) + 1] = a[1]
  <2>1. Len(a) = 1 => Len(k) + 1 \in 1..(Len(k) + Len(a)) /\ ~(Len(k) + 1 <= Len(k)) /\ (Len(k) + 1) - Len(k) = 1
    BY <1>2
  <2> QED
    BY <1>1, <2>1
<1> QED
  BY <1>1, <1>2, <1>3, <1>4

\* The table after a commit: the rows in place, and the one added.
LEMMA AfterCommit ==
  ASSUME NEW R, NEW t \in Seq(R), NEW p, p.add = <<>> \/ \E r \in R : p.add = <<r>>,
         \A i \in DOMAIN t : RowAfter(t, p, i) \in R
  PROVE  /\ Written(t, p) \in Seq(R) /\ Len(Written(t, p)) = Len(t) + Len(p.add)
         /\ p.add \in Seq(R) /\ Len(p.add) \in {0, 1} /\ (p.add = <<>> <=> Len(p.add) = 0)
         /\ DOMAIN t = 1..Len(t) /\ Len(t) \in Nat
         /\ \A i \in DOMAIN t : Written(t, p)[i] = RowAfter(t, p, i)
         /\ p.add # <<>> => Written(t, p)[Len(t) + 1] = p.add[1] /\ p.add[1] \in R
<1> DEFINE kept == [i \in DOMAIN t |-> RowAfter(t, p, i)]
<1>1. DOMAIN t = 1..Len(t) /\ Len(t) \in Nat
  BY LenProperties
<1>2. kept \in Seq(R) /\ Len(kept) = Len(t)
  BY <1>1
<1>3. p.add \in Seq(R) /\ Len(p.add) \in {0, 1} /\ (p.add = <<>> <=> Len(p.add) = 0)
      /\ (p.add # <<>> => p.add[1] \in R)
  <2>1. CASE p.add = <<>>
    BY <2>1
  <2>2. CASE \E r \in R : p.add = <<r>>
    <3>1. PICK r \in R : p.add = <<r>>
      BY <2>2
    <3>2. <<r>> \in Seq(R) /\ Len(<<r>>) = 1 /\ <<r>>[1] = r /\ <<r>> # <<>>
      OBVIOUS
    <3> QED
      BY <3>1, <3>2
  <2> QED
    BY <2>1, <2>2
<1>4. Written(t, p) = kept \o p.add
  BY DEF Written, RowAfter
<1>5. \A i \in DOMAIN t : kept[i] = RowAfter(t, p, i)
  OBVIOUS
<1> HIDE DEF kept
<1>6. PICK k \in Seq(R), a \in Seq(R) : k = kept /\ a = p.add
  BY <1>2, <1>3
<1>7. PICK w : w = Written(t, p) /\ w = k \o a
  BY <1>4, <1>6
<1>8. /\ w \in Seq(R) /\ Len(w) = Len(k) + Len(a)
      /\ \A i \in DOMAIN k : w[i] = k[i]
      /\ Len(a) = 1 => w[Len(k) + 1] = a[1]
  BY <1>3, <1>6, <1>7, Joined
<1>9. DOMAIN k = DOMAIN t /\ Len(k) = Len(t)
  BY <1>1, <1>2, <1>6, LenProperties
<1> QED
  BY <1>1, <1>3, <1>5, <1>6, <1>7, <1>8, <1>9

-----------------------------------------------------------------------------
(* What an action does, plan by plan.                                      *)

\* Request s leaves plan p.
Left(s, p, marks) ==
  /\ Idle(s) /\ session' = [session EXCEPT ![s] = p]
  /\ irregular' = [irregular EXCEPT ![p.emp] =
       @ \cup marks \cup
         (IF {t \in Sessions \ {s} : ~Idle(t) /\ session[t].emp = p.emp} = {} THEN {} ELSE {"raced"})]
  /\ UNCHANGED <<employee, line, trail, pool, today>>

LEMMA PlanLeft ==
  ASSUME NEW s, NEW e, NEW table, NEW changes, NEW added, NEW marks, Plan(s, e, table, changes, added, marks),
         NEW p, p = [table |-> table, emp |-> e, set |-> changes, add |-> added]
  PROVE  /\ Left(s, p, marks)
         /\ p.table = table /\ p.emp = e /\ p.set = changes /\ p.add = added
BY DEF Plan, Left

LEMMA LeftFacts ==
  ASSUME Tables, NEW s \in Sessions, NEW p, p.emp \in Employees, NEW marks \in SUBSET Marks, Left(s, p, marks)
  PROVE  /\ session'[s] = p /\ (\A t \in Sessions \ {s} : session'[t] = session[t])
         /\ session' = [t \in Sessions |-> session'[t]]
         /\ irregular' \in [Employees -> SUBSET Marks]
         /\ \A f \in Employees : irregular[f] \subseteq irregular'[f]
         /\ \A f \in Employees \ {p.emp} : irregular'[f] = irregular[f]
         /\ marks \subseteq irregular'[p.emp]
         /\ \A t \in Sessions \ {s} : ~Idle(t) /\ session[t].emp = p.emp => "raced" \in irregular'[p.emp]
         /\ line' = line /\ trail' = trail /\ pool' = pool /\ today' = today
<1>1. /\ session'[s] = p /\ (\A t \in Sessions \ {s} : session'[t] = session[t])
      /\ session' = [t \in Sessions |-> session'[t]]
  BY DEF Tables, Left
<1> DEFINE M == IF {t \in Sessions \ {s} : ~Idle(t) /\ session[t].emp = p.emp} = {} THEN {} ELSE {"raced"}
<1>2. M \subseteq Marks
  BY DEF Marks
<1>3. \A t \in Sessions \ {s} : ~Idle(t) /\ session[t].emp = p.emp => "raced" \in M
  OBVIOUS
<1>4. irregular' = [irregular EXCEPT ![p.emp] = @ \cup marks \cup M] /\ irregular \in [Employees -> SUBSET Marks]
  BY DEF Left, Tables
<1> HIDE DEF M
<1>5. /\ irregular' \in [Employees -> SUBSET Marks]
      /\ irregular'[p.emp] = irregular[p.emp] \cup marks \cup M
      /\ \A f \in Employees \ {p.emp} : irregular'[f] = irregular[f]
  BY <1>2, <1>4
<1> QED
  BY <1>1, <1>3, <1>5 DEF Left

\* A new plan leaves the base as it is.
LEMMA LeftKeeps ==
  ASSUME SBase, NEW s \in Sessions, NEW p, NEW marks \in SUBSET Marks, Left(s, p, marks),
         LinePlan(p) \/ PoolPlan(p)
  PROVE  SBase'
<1>1. p.emp \in Employees /\ Tables /\ Plans /\ Alone
  BY DEF LinePlan, PoolPlan, PlanOf, SBase
<1>2. /\ session'[s] = p /\ (\A t \in Sessions \ {s} : session'[t] = session[t])
      /\ session' = [t \in Sessions |-> session'[t]]
      /\ irregular' \in [Employees -> SUBSET Marks]
      /\ \A f \in Employees : irregular[f] \subseteq irregular'[f]
      /\ \A t \in Sessions \ {s} : ~Idle(t) /\ session[t].emp = p.emp => "raced" \in irregular'[p.emp]
      /\ line' = line /\ trail' = trail /\ pool' = pool /\ today' = today
  BY <1>1, LeftFacts
<1>3. Tables'
  BY <1>1, <1>2 DEF Tables
<1>4. Plans'
  <2> SUFFICES ASSUME NEW t \in Sessions
               PROVE  (Idle(t) \/ LinePlan(session[t]) \/ PoolPlan(session[t]))'
    BY DEF Plans
  <2>1. CASE t = s
    BY <1>2, <2>1 DEF LinePlan, PoolPlan, PlanOf
  <2>2. CASE t # s
    BY <1>1, <1>2, <2>2 DEF Plans, Idle, LinePlan, PoolPlan, PlanOf
  <2> QED
    BY <2>1, <2>2
<1>5. Alone'
  <2> SUFFICES ASSUME NEW t \in Sessions, NEW u \in Sessions, t # u, ~Idle(t)', ~Idle(u)',
                      session'[t].emp = session'[u].emp
               PROVE  "raced" \in irregular'[session'[t].emp]
    BY DEF Alone
  <2>1. CASE t # s /\ u # s
    <3>1. /\ session'[t] = session[t] /\ session'[u] = session[u] /\ ~Idle(t) /\ ~Idle(u)
          /\ "raced" \in irregular[session[t].emp]
      BY <1>1, <1>2, <2>1 DEF Alone, Idle
    <3>2. session[t].emp \in Employees
      BY <1>1, <3>1 DEF Plans, LinePlan, PoolPlan, PlanOf
    <3> QED
      BY <1>2, <3>1, <3>2
  <2>2. CASE t = s \/ u = s
    BY <1>2, <2>2 DEF Idle
  <2> QED
    BY <2>1, <2>2
<1> QED
  BY <1>3, <1>4, <1>5 DEF SBase

LEMMA ChangeFacts ==
  ASSUME NEW r, NEW cols, NEW val
  PROVE  /\ Change(r, cols, val).old = r /\ Change(r, cols, val).val = val
         /\ Change(r, cols, val).cols \subseteq cols
         /\ \A c \in cols : c \in Change(r, cols, val).cols <=> val[c] # r[c]
BY DEF Change

\* The plan of a request that revises one assignment.
LEMMA RevisePlan ==
  ASSUME SBase, NEW i \in DOMAIN line, NEW cols \in SUBSET LineColumns, NEW val \in LineRows,
         NEW p, p.table = "line", p.emp = line[i].emp, p.add = <<>>,
         DOMAIN p.set = {i}, p.set[i] = Change(line[i], cols, val)
  PROVE  LinePlan(p)
<1>1. Tables /\ line[i] \in LineRows
  BY LenProperties, ElementOfSeq DEF SBase, Tables
<1>2. p.set[i].old = line[i] /\ p.set[i].val = val /\ p.set[i].cols \subseteq cols
  BY ChangeFacts
<1> QED
  BY <1>1, <1>2 DEF LinePlan, PlanOf, LineRows

LEMMA UpdatePlan ==
  ASSUME SBase, NEW s \in Sessions, NEW i \in DOMAIN line, NEW u \in Updates, UpdateAssignment(s, i, u)
  PROVE  \E p : \E after \in LineRows : \E marks \in SUBSET Marks :
           /\ ~IsActive(line[i]) /\ IsActive(after) => "reopened" \in marks
           /\ after.primary /\ ~line[i].primary => "promoted" \in marks
           /\ LinePlan(p) /\ Left(s, p, marks) /\ p.emp = line[i].emp /\ p.table = "line"
           /\ DOMAIN p.set = {i} /\ p.set[i].old = line[i] /\ p.add = <<>>
           /\ \A c \in LineColumns : RowAfter(line, p, i)[c] = after[c]
           /\ \/ after.share = line[i].share
              \/ Allocated(ActiveOf(p.emp) \ {i}) + after.share <= MaxShare
<1>1. line[i] \in LineRows /\ u.cols \in SUBSET LineColumns /\ u.val \in LineRows
  BY LenProperties, ElementOfSeq, UpdatesAssumption DEF SBase, Tables
<1> DEFINE after == [c \in DOMAIN line[i] |-> IF c \in u.cols THEN u.val[c] ELSE line[i][c]]
           marks == (IF ~IsActive(line[i]) /\ IsActive(after) THEN {"reopened"} ELSE {})
                    \cup (IF after.primary /\ ~line[i].primary THEN {"promoted"} ELSE {})
<1>2. /\ after \in LineRows /\ after.emp = line[i].emp
      /\ \A c \in LineColumns : after[c] = IF c \in u.cols THEN u.val[c] ELSE line[i][c]
  BY <1>1, RowChanged
<1>3. PICK changes : changes = [x \in {i} |-> Change(line[i], u.cols, after)]
  OBVIOUS
<1>4. /\ Plan(s, line[i].emp, "line", changes, <<>>, marks)
      /\ "share" \in u.cols => Allocated(ActiveOf(line[i].emp) \ {i}) + u.val.share <= MaxShare
  BY <1>3 DEF UpdateAssignment
<1>5. DOMAIN changes = {i} /\ changes[i] = Change(line[i], u.cols, after)
  BY <1>3
<1> HIDE DEF marks, after
<1>6. PICK p : p = [table |-> "line", emp |-> line[i].emp, set |-> changes, add |-> <<>>]
  OBVIOUS
<1>7. Left(s, p, marks) /\ p.table = "line" /\ p.emp = line[i].emp /\ p.set = changes /\ p.add = <<>>
  BY <1>4, <1>6, PlanLeft
<1>8. /\ LinePlan(p) /\ p.set[i].old = line[i]
      /\ \A c \in LineColumns : RowAfter(line, p, i)[c] = after[c]
  <2>1. \A c \in LineColumns \ u.cols : after[c] = line[i][c]
    BY <1>2
  <2>2. DOMAIN p.set = {i} /\ p.set[i] = Change(line[i], u.cols, after)
    BY <1>5, <1>7
  <2>3. p.table = "line" /\ p.emp = line[i].emp /\ p.add = <<>>
    BY <1>7
  <2>4. u.cols \in SUBSET LineColumns /\ after \in LineRows
    BY <1>1, <1>2 DEF LineColumns
  <2>5. LinePlan(p)
    BY <2>2, <2>3, <2>4, RevisePlan
  <2>6. p.set[i].old = line[i] /\ p.set[i].val = after
        /\ \A c \in u.cols : c \in p.set[i].cols <=> after[c] # line[i][c]
    BY <2>2, ChangeFacts
  <2>7. p.set[i].cols \subseteq u.cols
    BY <2>2, ChangeFacts
  <2>8. \A c \in LineColumns : RowAfter(line, p, i)[c] = after[c]
    BY <1>1, <2>1, <2>2, <2>5, <2>6, <2>7, RowAfterLine DEF SBase
  <2> QED
    BY <2>5, <2>6, <2>8
<1>9. \/ after.share = line[i].share
      \/ Allocated(ActiveOf(p.emp) \ {i}) + after.share <= MaxShare
  BY <1>2, <1>4, <1>7 DEF LineColumns
<1>10. /\ marks \in SUBSET Marks
       /\ ~IsActive(line[i]) /\ IsActive(after) => "reopened" \in marks
       /\ after.primary /\ ~line[i].primary => "promoted" \in marks
  BY DEF marks, Marks
<1> QED
  BY <1>2, <1>5, <1>7, <1>8, <1>9, <1>10

LEMMA EndPlan ==
  ASSUME SBase, NEW s \in Sessions, NEW i \in DOMAIN line, EndAssignment(s, i)
  PROVE  \E p : /\ LinePlan(p) /\ Left(s, p, {}) /\ p.emp = line[i].emp /\ p.table = "line"
               /\ DOMAIN p.set = {i} /\ p.set[i].old = line[i] /\ p.add = <<>>
               /\ RowAfter(line, p, i).end = today
               /\ \A c \in LineColumns \ {"end"} : RowAfter(line, p, i)[c] = line[i][c]
<1> DEFINE val == [line[i] EXCEPT !.end = today]
<1>1. line[i] \in LineRows /\ today \in Bounds
  BY LenProperties, ElementOfSeq DEF SBase, Tables, Bounds
<1>2. val \in LineRows /\ val.end = today /\ \A c \in LineColumns \ {"end"} : val[c] = line[i][c]
  BY <1>1 DEF LineRows, LineColumns
<1>3. PICK changes : changes = [x \in {i} |-> Change(line[i], {"end"}, val)]
  OBVIOUS
<1>4. Plan(s, line[i].emp, "line", changes, <<>>, {})
  BY <1>3 DEF EndAssignment
<1>5. DOMAIN changes = {i} /\ changes[i] = Change(line[i], {"end"}, val)
  BY <1>3
<1> HIDE DEF val
<1>6. PICK p : p = [table |-> "line", emp |-> line[i].emp, set |-> changes, add |-> <<>>]
  OBVIOUS
<1>7. Left(s, p, {}) /\ p.table = "line" /\ p.emp = line[i].emp /\ p.set = changes /\ p.add = <<>>
  BY <1>4, <1>6, PlanLeft
<1>8. /\ LinePlan(p) /\ p.set[i].old = line[i]
      /\ \A c \in LineColumns : RowAfter(line, p, i)[c] = val[c]
  <2>1. \A c \in LineColumns \ {"end"} : val[c] = line[i][c]
    BY <1>2
  <2>2. DOMAIN p.set = {i} /\ p.set[i] = Change(line[i], {"end"}, val)
    BY <1>5, <1>7
  <2>3. p.table = "line" /\ p.emp = line[i].emp /\ p.add = <<>>
    BY <1>7
  <2>4. {"end"} \in SUBSET LineColumns /\ val \in LineRows
    BY <1>1, <1>2 DEF LineColumns
  <2>5. LinePlan(p)
    BY <2>2, <2>3, <2>4, RevisePlan
  <2>6. p.set[i].old = line[i] /\ p.set[i].val = val
        /\ \A c \in {"end"} : c \in p.set[i].cols <=> val[c] # line[i][c]
    BY <2>2, ChangeFacts
  <2>7. p.set[i].cols \subseteq {"end"}
    BY <2>2, ChangeFacts
  <2>8. \A c \in LineColumns : RowAfter(line, p, i)[c] = val[c]
    BY <1>1, <2>1, <2>2, <2>5, <2>6, <2>7, RowAfterLine DEF SBase
  <2> QED
    BY <2>5, <2>6, <2>8
<1> QED
  BY <1>2, <1>5, <1>7, <1>8 DEF LineColumns

LEMMA CreatePlan ==
  ASSUME SBase, NEW s \in Sessions, NEW r \in NewAssignments, CreateAssignment(s, r)
  PROVE  \E p : \E q \in LineRows :
           /\ LinePlan(p) /\ Left(s, p, {}) /\ p.emp = r.emp /\ p.table = "line" /\ p.add = <<q>>
           /\ q.share = r.share /\ q.primary = (r.primary \/ ActiveOf(r.emp) = {}) /\ q.end = r.end
           /\ DOMAIN p.set = {i \in ActiveOf(r.emp) : q.primary /\ line[i].primary}
           /\ \A i \in DOMAIN p.set :
                /\ p.set[i].old = line[i] /\ ~RowAfter(line, p, i).primary
                /\ \A c \in LineColumns \ {"primary"} : RowAfter(line, p, i)[c] = line[i][c]
           /\ Cardinality(ActiveOf(r.emp)) < MaxActive
           /\ Allocated(ActiveOf(r.emp)) + r.share <= MaxShare
<1> DEFINE q == [r EXCEPT !.primary = r.primary \/ ActiveOf(r.emp) = {}]
           D == {i \in ActiveOf(r.emp) : (r.primary \/ ActiveOf(r.emp) = {}) /\ line[i].primary}
           val(i) == [line[i] EXCEPT !.primary = FALSE]
           ch(i) == Change(line[i], {"primary"}, val(i))
<1>a. PICK changes : changes = [i \in D |-> ch(i)]
  OBVIOUS
<1> DEFINE
           p == [table |-> "line", emp |-> r.emp, set |-> changes, add |-> <<q>>]
<1>1. r \in LineRows /\ Tables /\ \A i \in DOMAIN line : line[i] \in LineRows
  BY NewAssumption, LenProperties, ElementOfSeq DEF SBase, Tables
<1>2. /\ q \in LineRows /\ q.emp = r.emp /\ q.share = r.share /\ q.end = r.end
      /\ q.primary = (r.primary \/ ActiveOf(r.emp) = {})
  BY <1>1 DEF LineRows
<1>3. ASSUME NEW i \in D
      PROVE  /\ i \in DOMAIN line /\ line[i].emp = r.emp /\ val(i) \in LineRows /\ ~val(i).primary
             /\ \A c \in LineColumns \ {"primary"} : val(i)[c] = line[i][c]
  <2>1. i \in DOMAIN line /\ line[i].emp = r.emp
    BY DEF ActiveOf
  <2> QED
    BY <1>1, <2>1 DEF LineRows, LineColumns
<1>4. /\ Plan(s, r.emp, "line", changes, <<q>>, {})
      /\ Cardinality(ActiveOf(r.emp)) < MaxActive /\ Allocated(ActiveOf(r.emp)) + r.share <= MaxShare
  BY <1>a DEF CreateAssignment
<1>5. /\ Left(s, p, {}) /\ p.table = "line" /\ p.emp = r.emp /\ p.add = <<q>>
      /\ p.set = changes
  BY <1>4, PlanLeft
<1> HIDE DEF p, val, q
<1>6. ASSUME NEW i \in D
      PROVE  /\ ch(i).old = line[i] /\ ch(i).val = val(i) /\ ch(i).cols \subseteq {"primary"}
             /\ "primary" \in ch(i).cols <=> val(i).primary # line[i].primary
  BY ChangeFacts
<1> HIDE DEF ch
<1>7. DOMAIN p.set = D /\ \A i \in D : p.set[i] = ch(i)
  BY <1>a, <1>5
<1>8. LinePlan(p)
  <2>1. \A i \in D : /\ i \in DOMAIN line /\ line[i].emp = r.emp /\ p.set[i].cols \subseteq LineColumns
                     /\ p.set[i].val \in LineRows /\ p.set[i].old \in LineRows
    BY <1>1, <1>3, <1>6, <1>7 DEF LineColumns
  <2>2. r.emp \in Employees
    BY <1>1 DEF LineRows
  <2> HIDE DEF D
  <2> QED
    BY <1>2, <1>5, <1>7, <2>1, <2>2 DEF LinePlan, PlanOf
<1>9. ASSUME NEW i \in D
      PROVE  /\ p.set[i].old = line[i] /\ ~RowAfter(line, p, i).primary
             /\ \A c \in LineColumns \ {"primary"} : RowAfter(line, p, i)[c] = line[i][c]
  <2>1. \A c \in LineColumns :
           RowAfter(line, p, i)[c] = IF c \in p.set[i].cols THEN p.set[i].val[c] ELSE line[i][c]
    BY <1>1, <1>3, <1>7, <1>8, RowAfterLine
  <2>2. RowAfter(line, p, i).primary = FALSE
    BY <1>1, <1>3, <1>6, <1>7, <2>1 DEF LineColumns, LineRows
  <2> QED
    BY <1>3, <1>6, <1>7, <2>1, <2>2
<1>10. D = {i \in ActiveOf(r.emp) : q.primary /\ line[i].primary}
  BY <1>2
<1> HIDE DEF D
<1> QED
  BY <1>2, <1>4, <1>5, <1>7, <1>8, <1>9, <1>10

\* The plan of a request that adds a row to the pool.
LEMMA AddPlan ==
  ASSUME SBase, NEW s, NEW q \in PoolRows, NEW marks, Plan(s, q.emp, "pool", None, <<q>>, marks)
  PROVE  \E p : /\ PoolPlan(p) /\ Left(s, p, marks) /\ p.emp = q.emp /\ p.table = "pool"
               /\ DOMAIN p.set = {} /\ p.add = <<q>>
<1>1. PICK p : p = [table |-> "pool", emp |-> q.emp, set |-> None, add |-> <<q>>]
  OBVIOUS
<1>2. Left(s, p, marks) /\ p.table = "pool" /\ p.emp = q.emp /\ p.set = None /\ p.add = <<q>>
  BY <1>1, PlanLeft
<1>3. DOMAIN p.set = {}
  BY <1>2 DEF None
<1>4. PoolPlan(p)
  BY <1>2, <1>3 DEF PoolPlan, PlanOf, PoolRows
<1> QED
  BY <1>2, <1>3, <1>4

\* The plan of a request that writes columns of a row of the pool.
LEMMA EditPlan ==
  ASSUME SBase, NEW i \in DOMAIN pool, NEW cols \in SUBSET PoolColumns, NEW val \in PoolRows,
         NEW p, p.table = "pool", p.emp = pool[i].emp, p.add = <<>>,
         DOMAIN p.set = {i}, p.set[i] = Change(pool[i], cols, val)
  PROVE  PoolPlan(p)
<1>1. Tables /\ pool[i] \in PoolRows
  BY LenProperties, ElementOfSeq DEF SBase, Tables
<1>2. p.set[i].old = pool[i] /\ p.set[i].val = val /\ p.set[i].cols \subseteq cols
  BY ChangeFacts
<1> QED
  BY <1>1, <1>2 DEF PoolPlan, PlanOf, PoolRows

LEMMA AssignPlan ==
  ASSUME SBase, NEW s \in Sessions, NEW e \in Employees, NEW c \in Clients, NEW w \in Windows,
         AssignToClient(s, e, c, w[1], w[2])
  PROVE  \E p : \E q \in PoolRows : \E marks \in SUBSET Marks :
           /\ PoolPlan(p) /\ Left(s, p, marks) /\ p.emp = e /\ p.table = "pool"
           /\ DOMAIN p.set = {} /\ p.add = <<q>>
           /\ AssignedOf(e) = {} \/ \E i \in AssignedOf(e) : ~Conflicts(pool[i], q.from, q.to)
           /\ Cardinality(AssignedOf(e)) > 1 => "crowded" \in marks
<1>1. PICK from \in Bounds, to \in Bounds : from = w[1] /\ to = w[2]
  BY WindowsAssumption
<1>2. PICK q \in PoolRows : q = [emp |-> e, client |-> c, from |-> from, to |-> to]
  BY DEF PoolRows
<1>3. PICK marks \in SUBSET Marks : marks = IF Cardinality(AssignedOf(e)) > 1 THEN {"crowded"} ELSE {}
  BY DEF Marks
<1>4. q.emp = e /\ q.from = from /\ q.to = to
  BY <1>2
<1>5. /\ AssignedOf(e) = {} \/ \E i \in AssignedOf(e) : ~Conflicts(pool[i], from, to)
      /\ Plan(s, q.emp, "pool", None, <<q>>, marks)
  BY <1>1, <1>2, <1>3, <1>4 DEF AssignToClient
<1>6. PICK p : /\ PoolPlan(p) /\ Left(s, p, marks) /\ p.emp = q.emp /\ p.table = "pool"
               /\ DOMAIN p.set = {} /\ p.add = <<q>>
  BY <1>5, AddPlan
<1> QED
  BY <1>3, <1>4, <1>5, <1>6

LEMMA UnassignPlan ==
  ASSUME SBase, NEW s \in Sessions, NEW i \in DOMAIN pool, Unassign(s, i)
  PROVE  \E p : /\ PoolPlan(p) /\ Left(s, p, {}) /\ p.emp = pool[i].emp /\ p.table = "pool"
               /\ DOMAIN p.set = {i} /\ p.add = <<>> /\ RowAfter(pool, p, i).client = NoClient
<1>1. pool[i] \in PoolRows /\ today \in Bounds
  BY LenProperties, ElementOfSeq DEF SBase, Tables, Bounds
<1>2. PICK val \in PoolRows : val = [pool[i] EXCEPT !.client = NoClient, !.to = today]
  BY <1>1 DEF PoolRows
<1>3. val.client = NoClient
  BY <1>1, <1>2 DEF PoolRows
<1>4. PICK changes : changes = [x \in {i} |-> Change(pool[i], {"client", "to"}, val)]
  OBVIOUS
<1>5. Plan(s, pool[i].emp, "pool", changes, <<>>, {})
  BY <1>2, <1>4 DEF Unassign
<1>6. DOMAIN changes = {i} /\ changes[i] = Change(pool[i], {"client", "to"}, val)
  BY <1>4
<1>7. {"client", "to"} \in SUBSET PoolColumns
  BY DEF PoolColumns
<1>8. PICK p : p = [table |-> "pool", emp |-> pool[i].emp, set |-> changes, add |-> <<>>]
  OBVIOUS
<1>9. Left(s, p, {}) /\ p.table = "pool" /\ p.emp = pool[i].emp /\ p.set = changes /\ p.add = <<>>
  BY <1>5, <1>8, PlanLeft
<1>10. DOMAIN p.set = {i} /\ p.set[i] = Change(pool[i], {"client", "to"}, val)
  BY <1>6, <1>9
<1>11. PoolPlan(p)
  BY <1>7, <1>9, <1>10, EditPlan
<1>12. /\ p.set[i].val = val /\ p.set[i].cols \subseteq {"client", "to"}
       /\ "client" \in p.set[i].cols <=> val.client # pool[i].client
  BY <1>10, ChangeFacts
<1>13. RowAfter(pool, p, i).client = NoClient
  BY <1>1, <1>3, <1>10, <1>11, <1>12, RowAfterPool DEF PoolColumns, SBase
<1> QED
  BY <1>9, <1>10, <1>11, <1>13

\* An entry written without the check.
LEMMA EntryPlan ==
  ASSUME SBase, NEW s \in Sessions, NEW r \in PoolRows,
         \/ AddPoolEntry(s, r)
         \/ \E i \in DOMAIN pool : pool[i].emp = r.emp /\ EditPoolEntry(s, i, r)
  PROVE  \E p : \E marks \in SUBSET Marks :
           /\ PoolPlan(p) /\ Left(s, p, marks) /\ p.emp = r.emp /\ p.table = "pool"
           /\ "edited" \in marks \/ (DOMAIN p.set = {} /\ p.add = <<r>> /\ r.client = NoClient)
<1>1. CASE AddPoolEntry(s, r)
  <2>1. PICK marks \in SUBSET Marks : marks = IF r.client # NoClient THEN {"edited"} ELSE {}
    BY DEF Marks
  <2>2. Plan(s, r.emp, "pool", None, <<r>>, marks)
    BY <1>1, <2>1 DEF AddPoolEntry
  <2> QED
    BY <2>1, <2>2, AddPlan
<1>2. ASSUME NEW i \in DOMAIN pool, pool[i].emp = r.emp, EditPoolEntry(s, i, r)
      PROVE  \E p : /\ PoolPlan(p) /\ Left(s, p, {"edited"}) /\ p.emp = r.emp /\ p.table = "pool"
  <2>1. PICK changes : changes = [x \in {i} |-> Change(pool[i], PoolColumns, r)]
    OBVIOUS
  <2>2. Plan(s, pool[i].emp, "pool", changes, <<>>, {"edited"})
    BY <1>2, <2>1 DEF EditPoolEntry
  <2>3. DOMAIN changes = {i} /\ changes[i] = Change(pool[i], PoolColumns, r)
    BY <2>1
  <2>4. PoolColumns \in SUBSET PoolColumns
    OBVIOUS
  <2>5. PICK p : p = [table |-> "pool", emp |-> pool[i].emp, set |-> changes, add |-> <<>>]
    OBVIOUS
  <2>6. Left(s, p, {"edited"}) /\ p.table = "pool" /\ p.emp = pool[i].emp /\ p.set = changes /\ p.add = <<>>
    BY <2>2, <2>5, PlanLeft
  <2>7. DOMAIN p.set = {i} /\ p.set[i] = Change(pool[i], PoolColumns, r)
    BY <2>3, <2>6
  <2>8. PoolPlan(p)
    BY <2>4, <2>6, <2>7, EditPlan
  <2> QED
    BY <1>2, <2>6, <2>8
<1> QED
  BY <1>1, <1>2 DEF Marks

-----------------------------------------------------------------------------
(* Staffing: what a commit does.                                           *)

LEMMA CellTypes ==
  ASSUME NEW r \in LineRows, NEW c \in LineColumns
  PROVE  r[c] \in Values
BY DEF LineRows, LineColumns, Values

LEMMA UpdateEntryType ==
  ASSUME NEW change, change.cols \in SUBSET LineColumns, change.old \in LineRows, change.val \in LineRows
  PROVE  UpdateEntry(change) \in Entries
<1>1. \A c \in change.cols : change.old[c] \in Values /\ change.val[c] \in Values
  BY CellTypes
<1>2. UpdateEntry(change) \in [change.cols -> [old : Values, new : Values]]
  BY <1>1 DEF UpdateEntry
<1> QED
  BY <1>2 DEF Entries

LEMMA InsertEntryType ==
  ASSUME NEW r \in LineRows
  PROVE  InsertEntry(r) \in Entries /\ DOMAIN InsertEntry(r) = {"share", "primary"} \cup (IF r.end = Null THEN {} ELSE {"end"})
         /\ \A c \in DOMAIN InsertEntry(r) : InsertEntry(r)[c].old = Null /\ InsertEntry(r)[c].new = r[c]
<1> DEFINE C == {"share", "primary"} \cup (IF r.end = Null THEN {} ELSE {"end"})
<1>1. C \subseteq LineColumns
  BY DEF LineColumns
<1>2. \A c \in C : r[c] \in Values /\ Null \in Values
  BY <1>1, CellTypes DEF Values, Bounds, Null
<1>3. InsertEntry(r) = [c \in C |-> [old |-> Null, new |-> r[c]]]
  BY DEF InsertEntry
<1> HIDE DEF C
<1>4. InsertEntry(r) \in [C -> [old : Values, new : Values]]
  BY <1>2, <1>3
<1>5. DOMAIN InsertEntry(r) = C /\ \A c \in C : InsertEntry(r)[c].old = Null /\ InsertEntry(r)[c].new = r[c]
  BY <1>3
<1> QED
  BY <1>1, <1>4, <1>5 DEF Entries, C

\* What a commit does to the lines.
LEMMA CommitLineFacts ==
  ASSUME SBase, NEW s \in Sessions, CommitLine(s), NEW p, p = session[s]
  PROVE  /\ LinePlan(p) /\ ~Idle(s)
         /\ line' \in Seq(LineRows) /\ Len(line') = Len(line) + Len(p.add) /\ Len(p.add) \in {0, 1}
         /\ (p.add = <<>> <=> Len(p.add) = 0)
         /\ DOMAIN line = 1..Len(line) /\ DOMAIN line' = 1..Len(line') /\ Len(line) \in Nat
         /\ \A i \in DOMAIN line : line'[i] = RowAfter(line, p, i)
         /\ p.add # <<>> => /\ line'[Len(line) + 1] = p.add[1]
                            /\ p.add[1] \in LineRows /\ p.add[1].emp = p.emp
         /\ session' = [session EXCEPT ![s] = NoPlan] /\ UNCHANGED <<employee, pool, today, irregular>>
<1>1. Tables /\ p.table = "line"
  BY DEF SBase, CommitLine
<1>2. ~Idle(s) /\ ~PoolPlan(p)
  BY <1>1 DEF Idle, NoPlan, PoolPlan, PlanOf
<1>3. LinePlan(p)
  BY <1>2 DEF SBase, Plans
<1>4. \A i \in DOMAIN line : RowAfter(line, p, i) \in LineRows
  BY <1>1, <1>3, RowAfterLine
<1>5. line \in Seq(LineRows) /\ (p.add = <<>> \/ \E r \in LineRows : p.add = <<r>>)
  BY <1>1, <1>3 DEF Tables, LinePlan, PlanOf
<1>6. line' = Written(line, p)
  BY DEF CommitLine
<1>7. /\ Written(line, p) \in Seq(LineRows) /\ Len(Written(line, p)) = Len(line) + Len(p.add)
      /\ p.add \in Seq(LineRows) /\ Len(p.add) \in {0, 1} /\ (p.add = <<>> <=> Len(p.add) = 0)
      /\ DOMAIN line = 1..Len(line) /\ Len(line) \in Nat
      /\ \A i \in DOMAIN line : Written(line, p)[i] = RowAfter(line, p, i)
      /\ p.add # <<>> => Written(line, p)[Len(line) + 1] = p.add[1] /\ p.add[1] \in LineRows
  BY <1>4, <1>5, AfterCommit
<1>8. p.add # <<>> => p.add[1].emp = p.emp
  BY <1>3 DEF LinePlan, PlanOf
<1>9. DOMAIN line' = 1..Len(line')
  BY <1>6, <1>7, LenProperties
<1>10. session' = [session EXCEPT ![s] = NoPlan] /\ UNCHANGED <<employee, pool, today, irregular>>
  BY DEF CommitLine
<1> QED
  BY <1>2, <1>3, <1>6, <1>7, <1>8, <1>9, <1>10

\* What a commit does to the trail.
LEMMA CommitTrailFacts ==
  ASSUME SBase, NEW s \in Sessions, CommitLine(s), NEW p, p = session[s]
  PROVE  /\ trail' \in Seq(Seq(Entries)) /\ Len(trail') = Len(line')
         /\ \A i \in DOMAIN line : trail[i] \in Seq(Entries)
         /\ \A i \in DOMAIN line :
              trail'[i] = IF i \in DOMAIN p.set /\ p.set[i].cols # {}
                          THEN Append(trail[i], UpdateEntry(p.set[i])) ELSE trail[i]
         /\ p.add # <<>> => trail'[Len(line) + 1] = <<InsertEntry(p.add[1])>>
<1>1. /\ LinePlan(p) /\ Len(line') = Len(line) + Len(p.add) /\ Len(p.add) \in {0, 1}
      /\ (p.add = <<>> <=> Len(p.add) = 0)
      /\ DOMAIN line = 1..Len(line) /\ Len(line) \in Nat /\ (p.add # <<>> => p.add[1] \in LineRows)
  BY CommitLineFacts
<1>2. trail \in Seq(Seq(Entries)) /\ Len(trail) = Len(line)
  BY DEF SBase, Tables
<1>3. \A i \in DOMAIN line : trail[i] \in Seq(Entries)
  BY <1>1, <1>2, ElementOfSeq
<1> DEFINE at(i) == IF i \in DOMAIN p.set /\ p.set[i].cols # {}
                    THEN Append(trail[i], UpdateEntry(p.set[i])) ELSE trail[i]
           k == [i \in DOMAIN line |-> at(i)]
           a == IF p.add = <<>> THEN <<>> ELSE <<<<InsertEntry(p.add[1])>>>>
<1>4. ASSUME NEW i \in DOMAIN line
      PROVE  at(i) \in Seq(Entries)
  <2>1. CASE i \in DOMAIN p.set
    <3>1. UpdateEntry(p.set[i]) \in Entries
      BY <1>1, <2>1, UpdateEntryType DEF LinePlan, PlanOf
    <3>2. Append(trail[i], UpdateEntry(p.set[i])) \in Seq(Entries)
      BY <1>3, <3>1, AppendProperties
    <3> QED
      BY <1>3, <3>2
  <2>2. CASE i \notin DOMAIN p.set
    BY <1>3, <2>2
  <2> QED
    BY <2>1, <2>2
<1>5. a \in Seq(Seq(Entries)) /\ Len(a) = Len(p.add) /\ (p.add # <<>> => a[1] = <<InsertEntry(p.add[1])>>)
  <2>1. CASE p.add = <<>>
    BY <1>1, <2>1
  <2>2. CASE p.add # <<>>
    <3>1. InsertEntry(p.add[1]) \in Entries /\ Len(p.add) = 1
      BY <1>1, <2>2, InsertEntryType
    <3>2. PICK q : q = InsertEntry(p.add[1]) /\ q \in Entries
      BY <3>1
    <3>3. a = <<<<q>>>>
      BY <2>2, <3>2
    <3> QED
      BY <3>1, <3>2, <3>3
  <2> QED
    BY <2>1, <2>2
<1>6. trail' = k \o a
  BY DEF CommitLine, Audited
<1> HIDE DEF at, a
<1>7. k \in Seq(Seq(Entries)) /\ Len(k) = Len(line) /\ DOMAIN k = DOMAIN line /\ \A i \in DOMAIN line : k[i] = at(i)
  BY <1>1, <1>4
<1> HIDE DEF k
<1>8. /\ trail' \in Seq(Seq(Entries)) /\ Len(trail') = Len(k) + Len(a)
      /\ \A i \in DOMAIN k : trail'[i] = k[i]
      /\ Len(a) = 1 => trail'[Len(k) + 1] = a[1]
  BY <1>1, <1>5, <1>6, <1>7, Joined
<1>9. trail' \in Seq(Seq(Entries)) /\ Len(trail') = Len(line')
  BY <1>1, <1>5, <1>7, <1>8
<1>10. \A i \in DOMAIN line : trail'[i] = at(i)
  BY <1>7, <1>8
<1>11. p.add # <<>> => trail'[Len(line) + 1] = <<InsertEntry(p.add[1])>>
  BY <1>1, <1>5, <1>7, <1>8
<1> QED
  BY <1>3, <1>9, <1>10, <1>11 DEF at

\* What a commit does to the pool.
LEMMA CommitPoolFacts ==
  ASSUME SBase, NEW s \in Sessions, CommitPool(s), NEW p, p = session[s]
  PROVE  /\ PoolPlan(p) /\ ~Idle(s)
         /\ pool' \in Seq(PoolRows) /\ Len(pool') = Len(pool) + Len(p.add) /\ Len(p.add) \in {0, 1}
         /\ (p.add = <<>> <=> Len(p.add) = 0)
         /\ DOMAIN pool = 1..Len(pool) /\ DOMAIN pool' = 1..Len(pool') /\ Len(pool) \in Nat
         /\ \A i \in DOMAIN pool : pool'[i] = RowAfter(pool, p, i)
         /\ p.add # <<>> => /\ pool'[Len(pool) + 1] = p.add[1]
                            /\ p.add[1] \in PoolRows /\ p.add[1].emp = p.emp
         /\ session' = [session EXCEPT ![s] = NoPlan] /\ UNCHANGED <<employee, line, trail, today, irregular>>
<1>1. Tables /\ p.table = "pool"
  BY DEF SBase, CommitPool
<1>2. ~Idle(s) /\ ~LinePlan(p)
  BY <1>1 DEF Idle, NoPlan, LinePlan, PlanOf
<1>3. PoolPlan(p)
  BY <1>2 DEF SBase, Plans
<1>4. \A i \in DOMAIN pool : RowAfter(pool, p, i) \in PoolRows
  BY <1>1, <1>3, RowAfterPool
<1>5. pool \in Seq(PoolRows) /\ (p.add = <<>> \/ \E r \in PoolRows : p.add = <<r>>)
  BY <1>1, <1>3 DEF Tables, PoolPlan, PlanOf
<1>6. pool' = Written(pool, p)
  BY DEF CommitPool
<1>7. /\ Written(pool, p) \in Seq(PoolRows) /\ Len(Written(pool, p)) = Len(pool) + Len(p.add)
      /\ p.add \in Seq(PoolRows) /\ Len(p.add) \in {0, 1} /\ (p.add = <<>> <=> Len(p.add) = 0)
      /\ DOMAIN pool = 1..Len(pool) /\ Len(pool) \in Nat
      /\ \A i \in DOMAIN pool : Written(pool, p)[i] = RowAfter(pool, p, i)
      /\ p.add # <<>> => Written(pool, p)[Len(pool) + 1] = p.add[1] /\ p.add[1] \in PoolRows
  BY <1>4, <1>5, AfterCommit
<1>8. p.add # <<>> => p.add[1].emp = p.emp
  BY <1>3 DEF PoolPlan, PlanOf
<1>9. DOMAIN pool' = 1..Len(pool')
  BY <1>6, <1>7, LenProperties
<1>10. session' = [session EXCEPT ![s] = NoPlan] /\ UNCHANGED <<employee, line, trail, today, irregular>>
  BY DEF CommitPool
<1> QED
  BY <1>2, <1>3, <1>6, <1>7, <1>8, <1>9, <1>10

-----------------------------------------------------------------------------
(* Staffing: the base of the invariants is inductive.                      *)

\* A request that ends leaves the plans of the others as they are.
LEMMA PlansStay ==
  ASSUME SBase, NEW s \in Sessions, session' = [session EXCEPT ![s] = NoPlan], irregular' = irregular, Tables',
         DOMAIN line \subseteq DOMAIN line', \A i \in DOMAIN line : line'[i].emp = line[i].emp,
         DOMAIN pool \subseteq DOMAIN pool', \A i \in DOMAIN pool : pool'[i].emp = pool[i].emp
  PROVE  /\ SBase' /\ Idle(s)'
         /\ \A t \in Sessions \ {s} : session'[t] = session[t]
<1>1. session'[s] = NoPlan /\ \A t \in Sessions \ {s} : session'[t] = session[t]
  BY DEF SBase, Tables
<1>2. Plans'
  <2> SUFFICES ASSUME NEW t \in Sessions \ {s}
               PROVE  (Idle(t) \/ LinePlan(session[t]) \/ PoolPlan(session[t]))'
    BY <1>1 DEF Plans, Idle
  <2>1. PICK p : p = session[t]
    OBVIOUS
  <2>2. p = session'[t]
    BY <1>1, <2>1
  <2>3. CASE Idle(t)
    BY <1>1, <2>3 DEF Idle
  <2>4. CASE LinePlan(p)
    <3>1. LinePlan(p)'
      BY <2>4 DEF LinePlan, PlanOf
    <3> QED
      BY <2>2, <3>1
  <2>5. CASE PoolPlan(p)
    <3>1. PoolPlan(p)'
      BY <2>5 DEF PoolPlan, PlanOf
    <3> QED
      BY <2>2, <3>1
  <2> QED
    BY <2>1, <2>3, <2>4, <2>5 DEF SBase, Plans
<1>3. Alone'
  BY <1>1 DEF SBase, Alone, Idle
<1> QED
  BY <1>1, <1>2, <1>3 DEF SBase, Idle

LEMMA CommitLineBase ==
  ASSUME SBase, NEW s \in Sessions, CommitLine(s)
  PROVE  /\ SBase' /\ Idle(s)'
         /\ \A t \in Sessions \ {s} : session'[t] = session[t]
<1>1. PICK p : p = session[s]
  OBVIOUS
<1>2. /\ LinePlan(p) /\ line' \in Seq(LineRows) /\ Len(line') = Len(line) + Len(p.add) /\ Len(p.add) \in {0, 1}
      /\ DOMAIN line = 1..Len(line) /\ DOMAIN line' = 1..Len(line') /\ Len(line) \in Nat
      /\ \A i \in DOMAIN line : line'[i] = RowAfter(line, p, i)
      /\ session' = [session EXCEPT ![s] = NoPlan] /\ UNCHANGED <<employee, pool, today, irregular>>
  BY <1>1, CommitLineFacts
<1>3. trail' \in Seq(Seq(Entries)) /\ Len(trail') = Len(line')
  BY <1>1, CommitTrailFacts
<1>4. Tables'
  BY <1>2, <1>3 DEF SBase, Tables
<1>5. \A i \in DOMAIN line : line'[i].emp = line[i].emp
  BY <1>2, RowAfterLine DEF SBase
<1>6. DOMAIN line \subseteq DOMAIN line' /\ pool' = pool /\ irregular' = irregular
  BY <1>2
<1> QED
  BY <1>2, <1>4, <1>5, <1>6, PlansStay

LEMMA CommitPoolBase ==
  ASSUME SBase, NEW s \in Sessions, CommitPool(s)
  PROVE  /\ SBase' /\ Idle(s)'
         /\ \A t \in Sessions \ {s} : session'[t] = session[t]
<1>1. PICK p : p = session[s]
  OBVIOUS
<1>2. /\ PoolPlan(p) /\ pool' \in Seq(PoolRows) /\ Len(pool') = Len(pool) + Len(p.add) /\ Len(p.add) \in {0, 1}
      /\ DOMAIN pool = 1..Len(pool) /\ DOMAIN pool' = 1..Len(pool') /\ Len(pool) \in Nat
      /\ \A i \in DOMAIN pool : pool'[i] = RowAfter(pool, p, i)
      /\ session' = [session EXCEPT ![s] = NoPlan] /\ UNCHANGED <<employee, line, trail, today, irregular>>
  BY <1>1, CommitPoolFacts
<1>4. Tables'
  BY <1>2 DEF SBase, Tables
<1>5. \A i \in DOMAIN pool : pool'[i].emp = pool[i].emp
  BY <1>2, RowAfterPool DEF SBase
<1>6. DOMAIN pool \subseteq DOMAIN pool' /\ line' = line /\ irregular' = irregular
  BY <1>2
<1> QED
  BY <1>2, <1>4, <1>5, <1>6, PlansStay

LEMMA RollbackBase ==
  ASSUME SBase, NEW s \in Sessions, Rollback(s)
  PROVE  /\ SBase' /\ Idle(s)'
         /\ \A t \in Sessions \ {s} : session'[t] = session[t]
         /\ UNCHANGED <<employee, line, trail, pool, today, irregular>>
<1>1. session' = [session EXCEPT ![s] = NoPlan] /\ UNCHANGED <<employee, line, trail, pool, today, irregular>>
  BY DEF Rollback
<1>2. Tables'
  BY <1>1 DEF SBase, Tables
<1> QED
  BY <1>1, <1>2, PlansStay

LEMMA NewDayBase ==
  ASSUME SBase, NewDay
  PROVE  SBase' /\ today' = today + 1 /\ UNCHANGED <<employee, line, trail, pool, session, irregular>>
<1>1. today' = today + 1 /\ today < MaxDay /\ UNCHANGED <<employee, line, trail, pool, session, irregular>>
  BY DEF NewDay
<1>2. today' \in Days
  BY <1>1, DaysAssumption DEF SBase, Tables, Days
<1>3. Tables'
  BY <1>1, <1>2 DEF SBase, Tables
<1>4. Plans' /\ Alone'
  BY <1>1 DEF SBase, Plans, Alone, Idle, LinePlan, PoolPlan, PlanOf
<1> QED
  BY <1>1, <1>3, <1>4 DEF SBase

LEMMA StaysBase ==
  ASSUME SBase, UNCHANGED <<line, trail, pool, today, session, irregular>>
  PROVE  SBase'
BY DEF SBase, Tables, Plans, Alone, Idle, LinePlan, PoolPlan, PlanOf

LEMMA BaseInit == StaffingInit => SBase
<1> SUFFICES ASSUME StaffingInit PROVE SBase
  OBVIOUS
<1>1. /\ line = <<>> /\ trail = <<>> /\ pool = <<>> /\ today = 1
      /\ session = [s \in Sessions |-> NoPlan] /\ irregular = [e \in Employees |-> {}]
  BY DEF StaffingInit
<1>2. 1 \in Days
  BY DaysAssumption DEF Days
<1>3. Tables
  BY <1>1, <1>2 DEF Tables
<1>4. \A s \in Sessions : Idle(s)
  BY <1>1 DEF Idle
<1> QED
  BY <1>3, <1>4 DEF SBase, Plans, Alone

-----------------------------------------------------------------------------
(* Staffing: the steps.                                                    *)

\* Every request about lines leaves a plan for lines, and about the pool one for the pool.
LEMMA LineLeaves ==
  ASSUME SBase, NEW s \in Sessions,
         \/ \E r \in NewAssignments : CreateAssignment(s, r)
         \/ \E i \in DOMAIN line, u \in Updates : UpdateAssignment(s, i, u)
         \/ \E i \in DOMAIN line : EndAssignment(s, i)
  PROVE  \E p : \E marks \in SUBSET Marks :
           /\ LinePlan(p) /\ Left(s, p, marks) /\ p.table = "line"
           /\ \A x \in DOMAIN p.set : p.set[x].old = line[x]
<1>1. ASSUME NEW r \in NewAssignments, CreateAssignment(s, r)
      PROVE  \E p : \E marks \in SUBSET Marks :
           /\ LinePlan(p) /\ Left(s, p, marks) /\ p.table = "line"
           /\ \A x \in DOMAIN p.set : p.set[x].old = line[x]
  <2>1. PICK p : \E q \in LineRows : /\ LinePlan(p) /\ Left(s, p, {}) /\ p.table = "line"
                                    /\ \A x \in DOMAIN p.set : p.set[x].old = line[x]
    BY <1>1, CreatePlan
  <2> QED
    BY <2>1
<1>2. ASSUME NEW i \in DOMAIN line, NEW u \in Updates, UpdateAssignment(s, i, u)
      PROVE  \E p : \E marks \in SUBSET Marks :
           /\ LinePlan(p) /\ Left(s, p, marks) /\ p.table = "line"
           /\ \A x \in DOMAIN p.set : p.set[x].old = line[x]
  <2>1. PICK p : \E after \in LineRows : \E marks \in SUBSET Marks :
           /\ ~IsActive(line[i]) /\ IsActive(after) => "reopened" \in marks
           /\ after.primary /\ ~line[i].primary => "promoted" \in marks
           /\ LinePlan(p) /\ Left(s, p, marks) /\ p.emp = line[i].emp /\ p.table = "line"
           /\ DOMAIN p.set = {i} /\ p.set[i].old = line[i] /\ p.add = <<>>
           /\ \A c \in LineColumns : RowAfter(line, p, i)[c] = after[c]
           /\ \/ after.share = line[i].share
              \/ Allocated(ActiveOf(p.emp) \ {i}) + after.share <= MaxShare
    BY <1>2, UpdatePlan
  <2>2. PICK marks \in SUBSET Marks :
          LinePlan(p) /\ Left(s, p, marks) /\ p.table = "line" /\ DOMAIN p.set = {i} /\ p.set[i].old = line[i]
    BY <2>1
  <2> QED
    BY <2>2
<1>3. ASSUME NEW i \in DOMAIN line, EndAssignment(s, i)
      PROVE  \E p : \E marks \in SUBSET Marks :
           /\ LinePlan(p) /\ Left(s, p, marks) /\ p.table = "line"
           /\ \A x \in DOMAIN p.set : p.set[x].old = line[x]
  <2>1. PICK p : /\ LinePlan(p) /\ Left(s, p, {}) /\ p.table = "line"
                 /\ DOMAIN p.set = {i} /\ p.set[i].old = line[i]
    BY <1>3, EndPlan
  <2> QED
    BY <2>1
<1> QED
  BY <1>1, <1>2, <1>3

LEMMA WindowRow ==
  ASSUME NEW e \in Employees, NEW c \in Clients \cup {NoClient}, NEW w \in Windows
  PROVE  [emp |-> e, client |-> c, from |-> w[1], to |-> w[2]] \in PoolRows
<1>1. PICK from \in Bounds, to \in Bounds : from = w[1] /\ to = w[2]
  BY WindowsAssumption
<1> QED
  BY <1>1 DEF PoolRows

LEMMA PoolLeaves ==
  ASSUME SBase, NEW s \in Sessions,
         \/ \E e \in Employees, c \in Clients, w \in Windows : AssignToClient(s, e, c, w[1], w[2])
         \/ \E i \in DOMAIN pool : Unassign(s, i)
         \/ \E r \in PoolRows : \/ AddPoolEntry(s, r)
                                \/ \E i \in DOMAIN pool : pool[i].emp = r.emp /\ EditPoolEntry(s, i, r)
  PROVE  \E p : \E marks \in SUBSET Marks : PoolPlan(p) /\ Left(s, p, marks) /\ p.table = "pool"
<1>1. ASSUME NEW e \in Employees, NEW c \in Clients, NEW w \in Windows, AssignToClient(s, e, c, w[1], w[2])
      PROVE  \E p : \E marks \in SUBSET Marks : PoolPlan(p) /\ Left(s, p, marks) /\ p.table = "pool"
  <2>1. PICK p : \E q \in PoolRows : \E marks \in SUBSET Marks : PoolPlan(p) /\ Left(s, p, marks) /\ p.table = "pool"
    BY <1>1, AssignPlan
  <2> QED
    BY <2>1
<1>2. ASSUME NEW i \in DOMAIN pool, Unassign(s, i)
      PROVE  \E p : \E marks \in SUBSET Marks : PoolPlan(p) /\ Left(s, p, marks) /\ p.table = "pool"
  <2>1. PICK p : PoolPlan(p) /\ Left(s, p, {}) /\ p.table = "pool"
    BY <1>2, UnassignPlan
  <2> QED
    BY <2>1
<1>3. ASSUME NEW r \in PoolRows,
             \/ AddPoolEntry(s, r)
             \/ \E i \in DOMAIN pool : pool[i].emp = r.emp /\ EditPoolEntry(s, i, r)
      PROVE  \E p : \E marks \in SUBSET Marks : PoolPlan(p) /\ Left(s, p, marks) /\ p.table = "pool"
  <2>1. PICK p : \E marks \in SUBSET Marks : PoolPlan(p) /\ Left(s, p, marks) /\ p.table = "pool"
    BY <1>3, EntryPlan
  <2> QED
    BY <2>1
<1> QED
  BY <1>1, <1>2, <1>3

\* The steps, by what they do to the tables and to the plans.
LEMMA StaffingSteps ==
  ASSUME SBase, [StaffingNext]_staffingVars
  PROVE  \/ \E s \in Sessions :
              \/ \E r \in NewAssignments : CreateAssignment(s, r)
              \/ \E i \in DOMAIN line, u \in Updates : UpdateAssignment(s, i, u)
              \/ \E i \in DOMAIN line : EndAssignment(s, i)
              \/ CommitLine(s)
              \/ \E e \in Employees, c \in Clients, w \in Windows : AssignToClient(s, e, c, w[1], w[2])
              \/ \E i \in DOMAIN pool : Unassign(s, i)
              \/ \E r \in PoolRows : \/ AddPoolEntry(s, r)
                                     \/ \E i \in DOMAIN pool : pool[i].emp = r.emp /\ EditPoolEntry(s, i, r)
              \/ CommitPool(s)
              \/ Rollback(s)
         \/ NewDay
         \/ UNCHANGED <<line, trail, pool, today, session, irregular>>
<1>1. CASE LineNext
  BY <1>1 DEF LineNext
<1>2. CASE PoolNext
  <2>1. PICK s \in Sessions :
          \/ \E e \in Employees, c \in Clients, w \in Windows : AssignToClient(s, e, c, w[1], w[2])
          \/ \E i \in DOMAIN pool : Unassign(s, i)
          \/ \E e \in Employees, c \in Clients \cup {NoClient}, w \in Windows :
               LET r == [emp |-> e, client |-> c, from |-> w[1], to |-> w[2]]
               IN AddPoolEntry(s, r) \/ \E i \in DOMAIN pool : pool[i].emp = e /\ EditPoolEntry(s, i, r)
          \/ CommitPool(s)
    BY <1>2 DEF PoolNext
  <2>2. ASSUME NEW e \in Employees, NEW c \in Clients \cup {NoClient}, NEW w \in Windows,
               NEW r, r = [emp |-> e, client |-> c, from |-> w[1], to |-> w[2]],
               AddPoolEntry(s, r) \/ \E i \in DOMAIN pool : pool[i].emp = e /\ EditPoolEntry(s, i, r)
        PROVE  r \in PoolRows /\ \/ AddPoolEntry(s, r)
                                 \/ \E i \in DOMAIN pool : pool[i].emp = r.emp /\ EditPoolEntry(s, i, r)
    BY <2>2, WindowRow
  <2> QED
    BY <2>1, <2>2
<1>3. CASE EmployeeNext({"active", "floating"})
  BY <1>3 DEF EmployeeNext, SetEmployee
<1>4. CASE \E s \in Sessions : Rollback(s)
  BY <1>4
<1>5. CASE NewDay
  BY <1>5
<1>6. CASE UNCHANGED staffingVars
  BY <1>6 DEF staffingVars
<1> QED
  BY <1>1, <1>2, <1>3, <1>4, <1>5, <1>6 DEF StaffingNext

-----------------------------------------------------------------------------
(* Staffing: an employee is booked once.                                   *)

\* A plan for the pool lends no day that is taken already.
SPool == SBase /\ BookedOnce /\ \A s \in Sessions : session[s].table = "pool" => Free(session[s])

\* The marks BookedOnce makes an exception for.
Unchecked == {"raced", "crowded", "edited"}

\* StaffingSteps that leave the pool as it is.
LEMMA PoolStays ==
  ASSUME SPool, SBase', pool' = pool, \A f \in Employees : irregular[f] \subseteq irregular'[f],
         \A t \in Sessions : session'[t] = session[t] \/ (session[t].table = "pool" => Free(session[t]))'
  PROVE  SPool'
<1>1. BookedOnce'
  BY DEF SPool, BookedOnce, BookedOncePer, AssignedOf
<1>2. ASSUME NEW t \in Sessions
      PROVE  (session[t].table = "pool" => Free(session[t]))'
  <2>1. CASE session'[t] = session[t] /\ session[t].table = "pool"
    <3>1. PICK p : p = session[t]
      OBVIOUS
    <3>2. Free(p) /\ p.emp \in Employees
      BY <2>1, <3>1 DEF SPool, SBase, Plans, LinePlan, PoolPlan, PlanOf, Idle, NoPlan
    <3>3. Free(p)'
      BY <3>2 DEF Free, RowAfter, AssignedOf
    <3>4. p = session'[t]
      BY <2>1, <3>1
    <3> QED
      BY <3>3, <3>4
  <2>2. CASE session'[t] = session[t] /\ session[t].table # "pool"
    BY <2>2
  <2>3. CASE (session[t].table = "pool" => Free(session[t]))'
    BY <2>3
  <2> QED
    BY <2>1, <2>2, <2>3
<1> QED
  BY <1>1, <1>2 DEF SPool

\* A new plan: what it must satisfy if it is one for the pool.
LEMMA PoolPlanLeft ==
  ASSUME SPool, NEW s \in Sessions, NEW p, NEW marks \in SUBSET Marks, Left(s, p, marks),
         LinePlan(p) \/ PoolPlan(p), p.table = "pool" => Free(p)'
  PROVE  SPool'
<1>1. p.emp \in Employees /\ SBase
  BY DEF LinePlan, PoolPlan, PlanOf, SPool
<1>2. SBase'
  BY <1>1, LeftKeeps
<1>3. /\ session'[s] = p /\ (\A t \in Sessions \ {s} : session'[t] = session[t])
      /\ \A f \in Employees : irregular[f] \subseteq irregular'[f]
      /\ pool' = pool
  BY <1>1, LeftFacts DEF SBase
<1>4. (session[s].table = "pool" => Free(session[s]))'
  BY <1>3
<1> QED
  BY <1>2, <1>3, <1>4, PoolStays

\* Rows that do not conflict share no day.
LEMMA NoCommonDay ==
  ASSUME NEW r \in PoolRows, NEW q \in PoolRows, ~Conflicts(r, q.from, q.to), NEW d \in Days
  PROVE  ~(Covers(r, d) /\ Covers(q, d))
<1>1. r.from \in Bounds /\ r.to \in Bounds /\ q.from \in Bounds /\ q.to \in Bounds
  BY DEF PoolRows
<1>2. Bounds \subseteq Nat /\ d \in Nat
  BY DaysAssumption DEF Bounds, Days, Null
<1>3. PICK a \in Nat, b \in Nat, f \in Nat, t \in Nat : a = r.from /\ b = r.to /\ f = q.from /\ t = q.to
  BY <1>1, <1>2
<1>4. /\ a # Null /\ b # Null /\ f # Null /\ t # Null
      /\ ~(f <= b /\ t >= a)
  BY <1>3 DEF Conflicts
<1>5. ~(a <= d /\ d <= b /\ f <= d /\ d <= t)
  BY <1>2, <1>4
<1> QED
  BY <1>3, <1>4, <1>5 DEF Covers

\* A set with no second element has one at most.
LEMMA OnlyOne ==
  ASSUME NEW S, IsFiniteSet(S), ~(Cardinality(S) > 1), NEW a \in S, NEW b \in S
  PROVE  a = b
<1> SUFFICES ASSUME a # b PROVE FALSE
  OBVIOUS
<1>1. {a, b} \subseteq S
  OBVIOUS
<1>2. Cardinality({a, b}) <= Cardinality(S) /\ Cardinality(S) \in Nat /\ IsFiniteSet({a, b})
  BY <1>1, FS_Subset, FS_CardinalityType
<1>3. Cardinality({a}) = 1 /\ IsFiniteSet({a})
  BY FS_Singleton
<1>4. Cardinality({a} \cup {b}) = Cardinality({a}) + 1
  BY <1>3, FS_AddElement
<1>5. {a} \cup {b} = {a, b}
  OBVIOUS
<1> QED
  BY <1>2, <1>3, <1>4, <1>5

LEMMA DomainFinite ==
  ASSUME NEW R, NEW t \in Seq(R), NEW S, S \subseteq DOMAIN t
  PROVE  IsFiniteSet(S)
<1>1. DOMAIN t = 1..Len(t) /\ Len(t) \in Nat
  BY LenProperties
<1>2. IsFiniteSet(1..Len(t))
  BY <1>1, FS_Interval
<1> QED
  BY <1>1, <1>2, FS_Subset

\* The plan of an assignment lends no day twice.
LEMMA AssignFree ==
  ASSUME SPool, NEW s \in Sessions, NEW e \in Employees, NEW c \in Clients, NEW w \in Windows,
         AssignToClient(s, e, c, w[1], w[2])
  PROVE  SPool'
<1>1. SBase /\ Tables
  BY DEF SPool, SBase
<1>2. PICK p : \E q \in PoolRows : \E marks \in SUBSET Marks :
           /\ PoolPlan(p) /\ Left(s, p, marks) /\ p.emp = e /\ p.table = "pool"
           /\ DOMAIN p.set = {} /\ p.add = <<q>>
           /\ AssignedOf(e) = {} \/ \E i \in AssignedOf(e) : ~Conflicts(pool[i], q.from, q.to)
           /\ Cardinality(AssignedOf(e)) > 1 => "crowded" \in marks
  BY <1>1, AssignPlan
<1>3. PICK q \in PoolRows : \E marks \in SUBSET Marks :
           /\ PoolPlan(p) /\ Left(s, p, marks) /\ p.emp = e /\ p.table = "pool"
           /\ DOMAIN p.set = {} /\ p.add = <<q>>
           /\ AssignedOf(e) = {} \/ \E i \in AssignedOf(e) : ~Conflicts(pool[i], q.from, q.to)
           /\ Cardinality(AssignedOf(e)) > 1 => "crowded" \in marks
  BY <1>2
<1>4. PICK marks \in SUBSET Marks :
           /\ PoolPlan(p) /\ Left(s, p, marks) /\ p.emp = e /\ p.table = "pool"
           /\ DOMAIN p.set = {} /\ p.add = <<q>>
           /\ AssignedOf(e) = {} \/ \E i \in AssignedOf(e) : ~Conflicts(pool[i], q.from, q.to)
           /\ Cardinality(AssignedOf(e)) > 1 => "crowded" \in marks
  BY <1>3
<1>5. marks \subseteq irregular'[p.emp] /\ pool' = pool
  BY <1>1, <1>4, LeftFacts
<1>6. Free(p)'
  <2> SUFFICES ASSUME irregular'[p.emp] \cap Unchecked = {}, NEW i \in AssignedOf(p.emp), NEW d \in Days
               PROVE  ~(Covers(pool[i], d) /\ Covers(q, d))
    BY <1>4, <1>5 DEF Free, AssignedOf, Unchecked
  <2>1. ~(Cardinality(AssignedOf(e)) > 1)
    BY <1>4, <1>5 DEF Unchecked
  <2>2. IsFiniteSet(AssignedOf(e))
    <3>1. AssignedOf(e) \subseteq DOMAIN pool /\ pool \in Seq(PoolRows)
      BY <1>1 DEF AssignedOf, Tables
    <3> QED
      BY <3>1, DomainFinite
  <2>3. PICK j \in AssignedOf(e) : ~Conflicts(pool[j], q.from, q.to)
    BY <1>4
  <2>4. i = j
    BY <1>4, <2>1, <2>2, <2>3, OnlyOne
  <2>5. pool[i] \in PoolRows
    BY <1>1, LenProperties, ElementOfSeq DEF Tables, AssignedOf
  <2> QED
    BY <2>3, <2>4, <2>5, NoCommonDay
<1> QED
  BY <1>4, <1>6, PoolPlanLeft

LEMMA UnassignFree ==
  ASSUME SPool, NEW s \in Sessions, NEW i \in DOMAIN pool, Unassign(s, i)
  PROVE  SPool'
<1>1. SBase /\ Tables
  BY DEF SPool, SBase
<1>2. PICK p : /\ PoolPlan(p) /\ Left(s, p, {}) /\ p.emp = pool[i].emp /\ p.table = "pool"
               /\ DOMAIN p.set = {i} /\ p.add = <<>> /\ RowAfter(pool, p, i).client = NoClient
  BY <1>1, UnassignPlan
<1>3. pool' = pool
  BY <1>2 DEF Left
<1>4. Free(p)'
  BY <1>2, <1>3 DEF Free, RowAfter
<1> QED
  BY <1>2, <1>4, PoolPlanLeft

LEMMA EntryFree ==
  ASSUME SPool, NEW s \in Sessions, NEW r \in PoolRows,
         \/ AddPoolEntry(s, r)
         \/ \E i \in DOMAIN pool : pool[i].emp = r.emp /\ EditPoolEntry(s, i, r)
  PROVE  SPool'
<1>1. SBase /\ Tables
  BY DEF SPool, SBase
<1>2. PICK p : \E marks \in SUBSET Marks :
           /\ PoolPlan(p) /\ Left(s, p, marks) /\ p.emp = r.emp /\ p.table = "pool"
           /\ "edited" \in marks \/ (DOMAIN p.set = {} /\ p.add = <<r>> /\ r.client = NoClient)
  BY <1>1, EntryPlan
<1>3. PICK marks \in SUBSET Marks :
           /\ PoolPlan(p) /\ Left(s, p, marks) /\ p.emp = r.emp /\ p.table = "pool"
           /\ "edited" \in marks \/ (DOMAIN p.set = {} /\ p.add = <<r>> /\ r.client = NoClient)
  BY <1>2
<1>4. marks \subseteq irregular'[p.emp]
  BY <1>1, <1>3, LeftFacts DEF PoolRows
<1>5. Free(p)'
  BY <1>3, <1>4 DEF Free
<1> QED
  BY <1>3, <1>5, PoolPlanLeft

LEMMA CommitFree ==
  ASSUME SPool, NEW s \in Sessions, CommitPool(s)
  PROVE  SPool'
<1>1. PICK p : p = session[s]
  OBVIOUS
<1>2. SBase /\ BookedOnce
  BY DEF SPool
<1>3. /\ PoolPlan(p) /\ ~Idle(s)
      /\ pool' \in Seq(PoolRows) /\ Len(pool') = Len(pool) + Len(p.add) /\ Len(p.add) \in {0, 1}
      /\ (p.add = <<>> <=> Len(p.add) = 0)
      /\ DOMAIN pool = 1..Len(pool) /\ DOMAIN pool' = 1..Len(pool') /\ Len(pool) \in Nat
      /\ \A i \in DOMAIN pool : pool'[i] = RowAfter(pool, p, i)
      /\ p.add # <<>> => pool'[Len(pool) + 1] = p.add[1] /\ p.add[1] \in PoolRows /\ p.add[1].emp = p.emp
      /\ UNCHANGED <<employee, line, trail, today, irregular>>
  BY <1>1, <1>2, CommitPoolFacts
<1>4. SBase' /\ Idle(s)' /\ \A t \in Sessions \ {s} : session'[t] = session[t]
  BY <1>2, CommitPoolBase
<1>5. Free(p)
  BY <1>1, <1>3 DEF SPool, PoolPlan, PlanOf
<1>6. \A i \in DOMAIN pool : pool'[i].emp = pool[i].emp /\ (i \notin DOMAIN p.set => pool'[i] = pool[i])
  BY <1>2, <1>3, RowAfterPool DEF SBase
<1>7. \A i \in DOMAIN pool : pool[i].emp # p.emp => pool'[i] = pool[i]
  BY <1>3, <1>6 DEF PoolPlan, PlanOf
\* Where the rows of an employee come from.
<1>8. \A i \in DOMAIN pool' : i \in DOMAIN pool \/ (p.add # <<>> /\ i = Len(pool) + 1)
  <2>1. PICK n \in Nat, k \in {0, 1} : n = Len(pool) /\ k = Len(p.add)
    BY <1>3
  <2>2. DOMAIN pool' = 1..(n + k) /\ DOMAIN pool = 1..n
    BY <1>3, <2>1
  <2>3. \A i \in 1..(n + k) : i \in 1..n \/ (k # 0 /\ i = n + 1)
    <3>1. CASE k = 0
      BY <2>1, <3>1
    <3>2. CASE k = 1
      BY <2>1, <3>2
    <3> QED
      BY <2>1, <3>1, <3>2
  <2> QED
    BY <1>3, <2>1, <2>2, <2>3
<1>9. ASSUME NEW e \in Employees, e # p.emp
      PROVE  AssignedOf(e)' = AssignedOf(e) /\ \A i \in AssignedOf(e) : pool'[i] = pool[i]
  BY <1>3, <1>6, <1>7, <1>8, <1>9 DEF AssignedOf
<1>10. ASSUME irregular[p.emp] \cap Unchecked = {}
       PROVE  BookedOncePer(p.emp)'
  <2>1. ASSUME NEW i \in AssignedOf(p.emp)', i \in DOMAIN pool
        PROVE  i \in AssignedOf(p.emp) /\ pool'[i] = pool[i]
    <3>1. i \notin DOMAIN p.set
      BY <1>3, <1>5, <1>10, <2>1 DEF Free, Unchecked, AssignedOf
    <3> QED
      BY <1>6, <2>1, <3>1 DEF AssignedOf
  <2>2. ASSUME NEW i \in AssignedOf(p.emp)', i \notin DOMAIN pool
        PROVE  p.add # <<>> /\ i = Len(pool) + 1 /\ pool'[i] = p.add[1] /\ p.add[1].client # NoClient
    BY <1>3, <1>8, <2>2 DEF AssignedOf
  <2>3. ASSUME NEW i \in AssignedOf(p.emp), p.add # <<>>, p.add[1].client # NoClient, NEW d \in Days
        PROVE  ~(Covers(pool[i], d) /\ Covers(p.add[1], d))
    BY <1>5, <1>10, <2>3 DEF Free, Unchecked
  <2>4. BookedOncePer(p.emp)
    BY <1>2, <1>3, <1>10 DEF BookedOnce, Unchecked, PoolPlan, PlanOf
  <2> SUFFICES ASSUME NEW i \in AssignedOf(p.emp)', NEW j \in AssignedOf(p.emp)', i # j, NEW d \in Days
               PROVE  ~(Covers(pool'[i], d) /\ Covers(pool'[j], d))
    BY DEF BookedOncePer
  <2>5. CASE i \in DOMAIN pool /\ j \in DOMAIN pool
    BY <2>1, <2>4, <2>5 DEF BookedOncePer
  <2>6. CASE i \in DOMAIN pool /\ j \notin DOMAIN pool
    BY <2>1, <2>2, <2>3, <2>6
  <2>7. CASE i \notin DOMAIN pool /\ j \in DOMAIN pool
    BY <2>1, <2>2, <2>3, <2>7
  <2>8. CASE i \notin DOMAIN pool /\ j \notin DOMAIN pool
    BY <2>2, <2>8
  <2> QED
    BY <2>5, <2>6, <2>7, <2>8
<1>11. BookedOnce'
  <2> SUFFICES ASSUME NEW e \in Employees, irregular[e] \cap Unchecked = {}
               PROVE  BookedOncePer(e)'
    BY <1>3 DEF BookedOnce, Unchecked
  <2>1. CASE e = p.emp
    BY <1>10, <2>1
  <2>2. CASE e # p.emp
    BY <1>2, <1>9, <2>2 DEF BookedOnce, BookedOncePer, Unchecked
  <2> QED
    BY <2>1, <2>2
<1>12. ASSUME NEW t \in Sessions
       PROVE  (session[t].table = "pool" => Free(session[t]))'
  <2>1. CASE t = s
    BY <1>4, <2>1 DEF Idle, NoPlan
  <2>2. CASE t # s /\ session[t].table = "pool"
    <3>1. PICK q : q = session[t]
      OBVIOUS
    <3>2. q = session'[t] /\ Free(q) /\ PoolPlan(q) /\ ~Idle(t)
      BY <1>2, <1>4, <2>2, <3>1 DEF SPool, SBase, Plans, LinePlan, PlanOf, Idle, NoPlan
    <3>3. CASE q.emp = p.emp
      <4>1. "raced" \in irregular[q.emp]
        BY <1>1, <1>2, <1>3, <2>2, <3>1, <3>2, <3>3 DEF SBase, Alone
      <4>2. Free(q)'
        BY <1>3, <4>1 DEF Free
      <4> QED
        BY <3>2, <4>2
    <3>4. CASE q.emp # p.emp
      <4>1. AssignedOf(q.emp)' = AssignedOf(q.emp) /\ \A i \in AssignedOf(q.emp) : pool'[i] = pool[i]
        BY <1>9, <3>2, <3>4 DEF PoolPlan, PlanOf
      <4>2. \A i \in DOMAIN q.set : pool'[i] = pool[i]
        BY <1>7, <3>2, <3>4 DEF PoolPlan, PlanOf
      <4>3. Free(q)'
        BY <1>3, <3>2, <4>1, <4>2 DEF Free, RowAfter
      <4> QED
        BY <3>2, <4>3
    <3> QED
      BY <3>3, <3>4
  <2>3. CASE t # s /\ session[t].table # "pool"
    BY <1>4, <2>3
  <2> QED
    BY <2>1, <2>2, <2>3
<1> QED
  BY <1>4, <1>11, <1>12 DEF SPool

LEMMA PoolInductive == SPool /\ [StaffingNext]_staffingVars => SPool'
<1> SUFFICES ASSUME SPool, [StaffingNext]_staffingVars PROVE SPool'
  OBVIOUS
<1>1. SBase
  BY DEF SPool
<1>2. ASSUME NEW s \in Sessions,
             \/ \E r \in NewAssignments : CreateAssignment(s, r)
             \/ \E i \in DOMAIN line, u \in Updates : UpdateAssignment(s, i, u)
             \/ \E i \in DOMAIN line : EndAssignment(s, i)
      PROVE  SPool'
  <2>1. PICK p : \E marks \in SUBSET Marks : LinePlan(p) /\ Left(s, p, marks) /\ p.table = "line"
    BY <1>1, <1>2, LineLeaves
  <2> QED
    BY <2>1, PoolPlanLeft
<1>3. ASSUME NEW s \in Sessions, CommitLine(s) PROVE SPool'
  <2>1. /\ SBase' /\ Idle(s)' /\ \A t \in Sessions \ {s} : session'[t] = session[t]
    BY <1>1, <1>3, CommitLineBase
  <2>2. pool' = pool /\ irregular' = irregular
    BY <1>3 DEF CommitLine
  <2>3. (session[s].table = "pool" => Free(session[s]))'
    BY <2>1 DEF Idle, NoPlan
  <2> QED
    BY <2>1, <2>2, <2>3, PoolStays
<1>4. ASSUME NEW s \in Sessions, Rollback(s) PROVE SPool'
  <2>1. /\ SBase' /\ Idle(s)' /\ \A t \in Sessions \ {s} : session'[t] = session[t]
        /\ pool' = pool /\ irregular' = irregular
    BY <1>1, <1>4, RollbackBase
  <2>3. (session[s].table = "pool" => Free(session[s]))'
    BY <2>1 DEF Idle, NoPlan
  <2> QED
    BY <2>1, <2>3, PoolStays
<1>5. CASE NewDay
  <2>1. SBase' /\ UNCHANGED <<pool, session, irregular>>
    BY <1>1, <1>5, NewDayBase
  <2> QED
    BY <2>1, PoolStays
<1>6. CASE UNCHANGED <<line, trail, pool, today, session, irregular>>
  <2>1. SBase'
    BY <1>1, <1>6, StaysBase
  <2> QED
    BY <1>6, <2>1, PoolStays
<1> QED
  BY <1>1, <1>2, <1>3, <1>4, <1>5, <1>6, StaffingSteps, AssignFree, UnassignFree, EntryFree, CommitFree

LEMMA AlwaysPool == StaffingSpec => []SPool
<1>1. StaffingInit => SPool
  <2> SUFFICES ASSUME StaffingInit PROVE SPool
    OBVIOUS
  <2>1. pool = <<>> /\ session = [s \in Sessions |-> NoPlan]
    BY DEF StaffingInit
  <2>2. BookedOnce
    BY <2>1 DEF BookedOnce, BookedOncePer, AssignedOf
  <2> QED
    BY <2>1, <2>2, BaseInit DEF SPool, NoPlan
<1> QED
  BY <1>1, PoolInductive, PTL DEF StaffingSpec

\* Rows, entries of the trail and marks keep their types, every assignment has
\* a trail, and a plan in flight changes existing rows of one employee
\* (employee_line_assignment.py, crud/floating_pool, capture.py).
THEOREM TablesCorrect == StaffingSpec => [](Tables /\ Plans)
<1>1. SPool => Tables /\ Plans
  BY DEF SPool, SBase
<1> QED
  BY <1>1, AlwaysPool, PTL

\* For any employees, clients, windows and requests in flight, no employee the
\* checks cover is lent twice for one day (crud/floating_pool/assignments.py
\* assign_floating_pool_to_client).
THEOREM AlwaysBookedOnce == StaffingSpec => []BookedOnce
<1>1. SPool => BookedOnce
  BY DEF SPool
<1> QED
  BY <1>1, AlwaysPool, PTL

-----------------------------------------------------------------------------
(* Staffing: the trail tells the story of a row.                           *)

\* A plan for lines starts from the rows as they still are.
STrail == SBase /\ TrailTellsAll /\ \A s \in Sessions : session[s].table = "line" => Fresh(session[s])

\* The library's Max is a maximum of every set of numbers up to a bound.
LEMMA MaxIsIn ==
  ASSUME NEW n \in Nat, NEW S, S \subseteq 1..n, S # {}
  PROVE  Max(S) \in S /\ \A x \in S : x <= Max(S)
<1> DEFINE T == {n - x : x \in S}
           Less == OpToRel(<, Nat)
<1>1. T \subseteq Nat /\ T # {}
  <2>1. \A x \in S : n - x \in Nat
    <3> TAKE x \in S
    <3>1. x \in 1..n
      OBVIOUS
    <3> QED
      BY <3>1
  <2>2. PICK x \in S : TRUE
    OBVIOUS
  <2>3. n - x \in T
    OBVIOUS
  <2>4. \A t \in T : t \in Nat
    BY <2>1
  <2> QED
    BY <2>3, <2>4
<1>2. IsWellFoundedOn(Less, Nat)
  BY NatLessThanWellFounded
<1> HIDE DEF T
<1>3. \E m \in T : \A y \in T : ~(<<y, m>> \in Less)
  <2> HIDE DEF Less
  <2> QED
    BY <1>1, <1>2, WFMin
<1>4. PICK m \in T : \A y \in T : ~(y < m)
  BY <1>1, <1>3 DEF OpToRel
<1>5. PICK x \in S : m = n - x
  BY DEF T
<1>6. \A y \in S : x >= y
  <2> TAKE y \in S
  <2>1. n - y \in T /\ ~(n - y < m)
    BY <1>4 DEF T
  <2> QED
    BY <1>5, <2>1
<1>7. Max(S) \in S /\ \A y \in S : Max(S) >= y
  BY <1>6 DEF Max
<1> QED
  BY <1>7

\* An entry that tells every change keeps the row's values the last word; one that
\* also starts from the row carries the story on.
LEMMA StoryGoesOn ==
  ASSUME NEW entries \in Seq(Entries), NEW entry \in Entries, NEW r, NEW after, EndsIn(entries, r),
         \A c \in DOMAIN entry : entry[c].new = after[c],
         \A c \in LineColumns \ DOMAIN entry : after[c] = r[c]
  PROVE  /\ EndsIn(Append(entries, entry), after)
         /\ Chained(entries) /\ (\A c \in DOMAIN entry : entry[c].old = r[c])
              => Chained(Append(entries, entry))
<1> DEFINE N == Len(entries) + 1
<1>1. PICK all : all = Append(entries, entry)
  OBVIOUS
<1>2. PICK n \in Nat : n = Len(entries)
  BY LenProperties
<1>3. /\ all \in Seq(Entries) /\ Len(all) = n + 1 /\ DOMAIN all = 1..(n + 1) /\ DOMAIN entries = 1..n
      /\ all[n + 1] = entry /\ \A k \in 1..n : all[k] = entries[k]
  BY <1>1, <1>2, AppendProperties, LenProperties
<1>4. n + 1 \notin 1..n /\ 1..n \subseteq 1..(n + 1) /\ 1..(n + 1) = 1..n \cup {n + 1}
  OBVIOUS
<1> DEFINE Whole == Chained(entries) /\ (\A c \in DOMAIN entry : entry[c].old = r[c])
<1> SUFFICES ASSUME NEW c \in LineColumns
             PROVE  /\ LastWord(all, c, Naming(all, c)) = after[c]
                    /\ Whole =>
                         \A k \in Naming(all, c) :
                           all[k][c].old = LastWord(all, c, {j \in Naming(all, c) : j < k})
  BY <1>1 DEF EndsIn, Chained
<1>5. /\ LastWord(entries, c, Naming(entries, c)) = r[c]
      /\ Whole => /\ c \in DOMAIN entry => entry[c].old = r[c]
                  /\ \A k \in Naming(entries, c) :
                       entries[k][c].old = LastWord(entries, c, {j \in Naming(entries, c) : j < k})
  BY DEF EndsIn, Chained
<1> HIDE DEF Whole
<1>6. Naming(entries, c) \subseteq 1..n
  BY <1>3 DEF Naming
\* Old words stay.
<1>7. ASSUME NEW S, S \subseteq 1..n
      PROVE  LastWord(all, c, S) = LastWord(entries, c, S)
  <2>1. CASE S = {}
    BY <2>1 DEF LastWord
  <2>2. CASE S # {}
    <3>1. Max(S) \in 1..n
      BY <1>7, <2>2, MaxIsIn
    <3>2. all[Max(S)] = entries[Max(S)]
      BY <1>3, <3>1
    <3> QED
      BY <2>2, <3>2 DEF LastWord
  <2> QED
    BY <2>1, <2>2
<1>8. CASE c \in DOMAIN entry
  <2>1. Naming(all, c) = Naming(entries, c) \cup {n + 1}
    BY <1>3, <1>4, <1>8 DEF Naming
  <2>2. Max(Naming(all, c)) = n + 1
    <3>1. Naming(all, c) \subseteq 1..(n + 1) /\ Naming(all, c) # {}
      BY <1>4, <1>6, <2>1
    <3>2. Max(Naming(all, c)) \in 1..(n + 1) /\ n + 1 <= Max(Naming(all, c))
      BY <2>1, <3>1, MaxIsIn
    <3> QED
      BY <3>2
  <2>3. LastWord(all, c, Naming(all, c)) = after[c]
    BY <1>3, <1>8, <2>1, <2>2 DEF LastWord
  <2>4. ASSUME Whole, NEW k \in Naming(all, c)
        PROVE  all[k][c].old = LastWord(all, c, {j \in Naming(all, c) : j < k})
    <3>1. CASE k = n + 1
      <4>1. {j \in Naming(all, c) : j < k} = Naming(entries, c)
        <5>1. \A j \in Naming(entries, c) : j < n + 1
          BY <1>6
        <5>2. ~(n + 1 < n + 1)
          OBVIOUS
        <5> QED
          BY <2>1, <3>1, <5>1, <5>2
      <4>2. LastWord(all, c, Naming(entries, c)) = r[c]
        BY <1>5, <1>6, <1>7
      <4> QED
        BY <1>3, <1>5, <1>8, <2>4, <3>1, <4>1, <4>2
    <3>2. CASE k # n + 1
      <4>1. k \in Naming(entries, c) /\ k \in 1..n
        BY <1>6, <2>1, <3>2
      <4>2. {j \in Naming(all, c) : j < k} = {j \in Naming(entries, c) : j < k}
        <5>1. ~(n + 1 < k)
          BY <4>1
        <5> QED
          BY <2>1, <5>1
      <4>3. {j \in Naming(entries, c) : j < k} \subseteq 1..n
        BY <1>6
      <4> QED
        BY <1>3, <1>5, <1>7, <2>4, <4>1, <4>2, <4>3
    <3> QED
      BY <3>1, <3>2
  <2> QED
    BY <2>3, <2>4
<1>9. CASE c \notin DOMAIN entry
  <2>1. Naming(all, c) = Naming(entries, c)
    BY <1>3, <1>4, <1>9 DEF Naming
  <2>2. LastWord(all, c, Naming(all, c)) = after[c]
    BY <1>5, <1>6, <1>7, <1>9, <2>1
  <2>3. ASSUME Whole, NEW k \in Naming(all, c)
        PROVE  all[k][c].old = LastWord(all, c, {j \in Naming(all, c) : j < k})
    <3>1. k \in Naming(entries, c) /\ k \in 1..n
      BY <1>6, <2>1
    <3>2. {j \in Naming(entries, c) : j < k} \subseteq 1..n
      BY <1>6
    <3> QED
      BY <1>3, <1>5, <1>7, <2>1, <2>3, <3>1, <3>2
  <2> QED
    BY <2>2, <2>3
<1> QED
  BY <1>8, <1>9

\* The first entry tells the row as it was added.
LEMMA StoryBegins ==
  ASSUME NEW r \in LineRows
  PROVE  EndsIn(<<InsertEntry(r)>>, r) /\ Chained(<<InsertEntry(r)>>)
<1>1. PICK entry : entry = InsertEntry(r)
  OBVIOUS
<1>2. /\ DOMAIN entry = {"share", "primary"} \cup (IF r.end = Null THEN {} ELSE {"end"})
      /\ \A c \in DOMAIN entry : entry[c].old = Null /\ entry[c].new = r[c]
  BY <1>1, InsertEntryType
<1>3. PICK all : all = <<entry>>
  OBVIOUS
<1>4. DOMAIN all = {1} /\ all[1] = entry
  BY <1>3
<1> SUFFICES ASSUME NEW c \in LineColumns
             PROVE  /\ LastWord(all, c, Naming(all, c)) = r[c]
                    /\ \A k \in Naming(all, c) :
                         all[k][c].old = LastWord(all, c, {j \in Naming(all, c) : j < k})
  BY <1>1, <1>3 DEF EndsIn, Chained
<1>5. CASE c \in DOMAIN entry
  <2>1. Naming(all, c) = {1}
    BY <1>4, <1>5 DEF Naming
  <2>2. Max({1}) = 1
    <3>1. Max({1}) \in {1}
      <4>1. {1} \subseteq 1..1 /\ {1} # {}
        OBVIOUS
      <4> QED
        BY <4>1, MaxIsIn
    <3> QED
      BY <3>1
  <2>3. {j \in {1} : j < 1} = {}
    OBVIOUS
  <2> QED
    BY <1>2, <1>4, <1>5, <2>1, <2>2, <2>3 DEF LastWord
<1>6. CASE c \notin DOMAIN entry
  <2>1. Naming(all, c) = {} /\ c = "end" /\ r.end = Null
    BY <1>2, <1>4, <1>6 DEF Naming, LineColumns
  <2> QED
    BY <2>1 DEF LastWord
<1> QED
  BY <1>5, <1>6

LEMMA PlanEmployee ==
  ASSUME SBase, NEW t \in Sessions, session[t].table # "none"
  PROVE  /\ ~Idle(t) /\ session[t].emp \in Employees
         /\ session[t].table = "line" => LinePlan(session[t])
         /\ session[t].table = "pool" => PoolPlan(session[t])
BY DEF SBase, Plans, LinePlan, PoolPlan, PlanOf, Idle, NoPlan

\* StaffingSteps that leave the lines and the trail as they are.
LEMMA TrailStays ==
  ASSUME STrail, SBase', line' = line, trail' = trail, \A f \in Employees : irregular[f] \subseteq irregular'[f],
         \A t \in Sessions : session'[t] = session[t] \/ (session[t].table = "line" => Fresh(session[t]))'
  PROVE  STrail'
<1>1. TrailTellsAll'
  <2>1. \A i \in DOMAIN line : line[i] \in LineRows
    BY LenProperties, ElementOfSeq DEF STrail, SBase, Tables
  <2>2. \A i \in DOMAIN line : line[i].emp \in Employees
    BY <2>1 DEF LineRows
  <2> QED
    BY <2>2 DEF STrail, TrailTellsAll
<1>2. ASSUME NEW t \in Sessions
      PROVE  (session[t].table = "line" => Fresh(session[t]))'
  <2>1. CASE session'[t] = session[t] /\ session[t].table = "line"
    <3>1. PICK p : p = session[t]
      OBVIOUS
    <3>2. Fresh(p) /\ p.emp \in Employees
      BY <2>1, <3>1, PlanEmployee DEF STrail
    <3>3. Fresh(p)'
      BY <3>2 DEF Fresh
    <3>4. p = session'[t]
      BY <2>1, <3>1
    <3> QED
      BY <3>3, <3>4
  <2>2. CASE session'[t] = session[t] /\ session[t].table # "line"
    BY <2>2
  <2>3. CASE (session[t].table = "line" => Fresh(session[t]))'
    BY <2>3
  <2> QED
    BY <2>1, <2>2, <2>3
<1> QED
  BY <1>1, <1>2 DEF STrail

LEMMA TrailPlanLeft ==
  ASSUME STrail, NEW s \in Sessions, NEW p, NEW marks \in SUBSET Marks, Left(s, p, marks),
         LinePlan(p) \/ PoolPlan(p), p.table = "line" => \A i \in DOMAIN p.set : p.set[i].old = line[i]
  PROVE  STrail'
<1>1. p.emp \in Employees /\ SBase
  BY DEF LinePlan, PoolPlan, PlanOf, STrail
<1>2. SBase'
  BY <1>1, LeftKeeps
<1>3. /\ session'[s] = p /\ (\A t \in Sessions \ {s} : session'[t] = session[t])
      /\ \A f \in Employees : irregular[f] \subseteq irregular'[f]
      /\ line' = line /\ trail' = trail
  BY <1>1, LeftFacts DEF SBase
<1>4. (session[s].table = "line" => Fresh(session[s]))'
  BY <1>3 DEF Fresh
<1> QED
  BY <1>2, <1>3, <1>4, TrailStays

\* EndsIn reads nothing of a row but its columns.
LEMMA EndsInColumns ==
  ASSUME NEW entries, NEW r, NEW after, EndsIn(entries, r), \A c \in LineColumns : after[c] = r[c]
  PROVE  EndsIn(entries, after)
BY DEF EndsIn

LEMMA CommitTells ==
  ASSUME STrail, NEW s \in Sessions, CommitLine(s)
  PROVE  STrail'
<1>1. PICK p : p = session[s]
  OBVIOUS
<1>2. SBase /\ Tables /\ TrailTellsAll
  BY DEF STrail, SBase
<1>3. /\ LinePlan(p) /\ ~Idle(s)
      /\ line' \in Seq(LineRows) /\ Len(line') = Len(line) + Len(p.add) /\ Len(p.add) \in {0, 1}
      /\ (p.add = <<>> <=> Len(p.add) = 0)
      /\ DOMAIN line = 1..Len(line) /\ DOMAIN line' = 1..Len(line') /\ Len(line) \in Nat
      /\ \A i \in DOMAIN line : line'[i] = RowAfter(line, p, i)
      /\ p.add # <<>> => line'[Len(line) + 1] = p.add[1] /\ p.add[1] \in LineRows /\ p.add[1].emp = p.emp
      /\ UNCHANGED <<employee, pool, today, irregular>>
  BY <1>1, <1>2, CommitLineFacts
<1>4. /\ \A i \in DOMAIN line : trail[i] \in Seq(Entries)
      /\ \A i \in DOMAIN line :
           trail'[i] = IF i \in DOMAIN p.set /\ p.set[i].cols # {}
                       THEN Append(trail[i], UpdateEntry(p.set[i])) ELSE trail[i]
      /\ p.add # <<>> => trail'[Len(line) + 1] = <<InsertEntry(p.add[1])>>
  BY <1>1, <1>2, CommitTrailFacts
<1>5. SBase' /\ Idle(s)' /\ \A t \in Sessions \ {s} : session'[t] = session[t]
  BY <1>2, CommitLineBase
<1>6. Fresh(p)
  BY <1>1, <1>3 DEF STrail, LinePlan, PlanOf
<1>7. \A i \in DOMAIN line :
        /\ line'[i].emp = line[i].emp
        /\ i \notin DOMAIN p.set => line'[i] = line[i]
        /\ i \in DOMAIN p.set =>
             \A c \in LineColumns : line'[i][c] = IF c \in p.set[i].cols THEN p.set[i].val[c] ELSE line[i][c]
  BY <1>2, <1>3, RowAfterLine
<1>8. ASSUME NEW i \in DOMAIN line
      PROVE  /\ EndsIn(trail'[i], line'[i])
             /\ "raced" \notin irregular[line[i].emp] => Chained(trail'[i])
  <2>1. EndsIn(trail[i], line[i]) /\ ("raced" \notin irregular[line[i].emp] => Chained(trail[i]))
    BY <1>2 DEF TrailTellsAll
  <2>2. CASE i \notin DOMAIN p.set
    BY <1>4, <1>7, <2>1, <2>2
  <2>3. CASE i \in DOMAIN p.set /\ p.set[i].cols = {}
    <3>1. \A c \in LineColumns : line'[i][c] = line[i][c]
      BY <1>7, <2>3
    <3>2. trail'[i] = trail[i]
      BY <1>4, <2>3
    <3> QED
      BY <2>1, <3>1, <3>2, EndsInColumns
  <2>4. CASE i \in DOMAIN p.set /\ p.set[i].cols # {}
    <3>1. PICK change : change = p.set[i]
      OBVIOUS
    <3>2. change.cols \subseteq LineColumns /\ change.old \in LineRows /\ change.val \in LineRows /\ line[i].emp = p.emp
      BY <1>3, <2>4, <3>1 DEF LinePlan, PlanOf
    <3>3. "raced" \notin irregular[line[i].emp] => change.old = line[i]
      BY <1>6, <2>4, <3>1, <3>2 DEF Fresh
    <3>4. PICK entry : entry = UpdateEntry(change)
      OBVIOUS
    <3>5. entry \in Entries
      BY <3>2, <3>4, UpdateEntryType
    <3>6. DOMAIN entry = change.cols
          /\ \A c \in change.cols : entry[c].old = change.old[c] /\ entry[c].new = change.val[c]
      BY <3>4 DEF UpdateEntry
    <3>7. /\ \A c \in DOMAIN entry : entry[c].new = line'[i][c]
          /\ "raced" \notin irregular[line[i].emp] => \A c \in DOMAIN entry : entry[c].old = line[i][c]
      BY <1>7, <2>4, <3>1, <3>2, <3>3, <3>6
    <3>8. \A c \in LineColumns \ DOMAIN entry : line'[i][c] = line[i][c]
      BY <1>7, <2>4, <3>1, <3>6
    <3>9. PICK r, after : r = line[i] /\ after = line'[i]
      OBVIOUS
    <3>10. PICK entries \in Seq(Entries) : entries = trail[i]
      BY <1>4
    <3>11. /\ EndsIn(Append(entries, entry), after)
           /\ "raced" \notin irregular[line[i].emp] => Chained(Append(entries, entry))
      <4>1. /\ \A c \in DOMAIN entry : entry[c].new = after[c]
            /\ "raced" \notin irregular[line[i].emp] => \A c \in DOMAIN entry : entry[c].old = r[c]
        BY <3>7, <3>9
      <4>2. \A c \in LineColumns \ DOMAIN entry : after[c] = r[c]
        BY <3>8, <3>9
      <4>3. EndsIn(entries, r) /\ ("raced" \notin irregular[line[i].emp] => Chained(entries))
        BY <2>1, <3>9, <3>10
      <4> QED
        BY <3>5, <4>1, <4>2, <4>3, StoryGoesOn
    <3>12. trail'[i] = Append(entries, entry)
      BY <1>4, <2>4, <3>1, <3>4, <3>10
    <3> QED
      BY <3>9, <3>11, <3>12
  <2> QED
    BY <2>2, <2>3, <2>4
<1>9. TrailTellsAll'
  <2> SUFFICES ASSUME NEW i \in DOMAIN line'
               PROVE  /\ EndsIn(trail'[i], line'[i])
                      /\ "raced" \notin irregular'[line'[i].emp] => Chained(trail'[i])
    BY DEF TrailTellsAll
  <2>1. CASE i \in DOMAIN line
    BY <1>3, <1>7, <1>8, <2>1
  <2>2. CASE i \notin DOMAIN line
    <3>1. p.add # <<>> /\ i = Len(line) + 1
      <4>1. PICK n \in Nat, k \in {0, 1} : n = Len(line) /\ k = Len(p.add)
        BY <1>3
      <4>2. i \in 1..(n + k) /\ i \notin 1..n
        BY <1>3, <2>2, <4>1
      <4>3. k # 0 /\ i = n + 1
        <5>1. CASE k = 0
          BY <4>1, <4>2, <5>1
        <5>2. CASE k = 1
          BY <4>1, <4>2, <5>2
        <5> QED
          BY <4>1, <5>1, <5>2
      <4> QED
        BY <1>3, <4>1, <4>3
    <3> QED
      BY <1>3, <1>4, <3>1, StoryBegins
  <2> QED
    BY <2>1, <2>2
<1>10. ASSUME NEW t \in Sessions
       PROVE  (session[t].table = "line" => Fresh(session[t]))'
  <2>1. CASE t = s
    BY <1>5, <2>1 DEF Idle, NoPlan
  <2>2. CASE t # s /\ session[t].table = "line"
    <3>1. PICK q : q = session[t]
      OBVIOUS
    <3>2. q = session'[t] /\ Fresh(q) /\ LinePlan(q) /\ ~Idle(t)
      BY <1>2, <1>5, <2>2, <3>1, PlanEmployee DEF STrail
    <3>3. CASE q.emp = p.emp
      <4>1. "raced" \in irregular[q.emp]
        BY <1>1, <1>2, <1>3, <2>2, <3>1, <3>2, <3>3 DEF SBase, Alone
      <4>2. Fresh(q)'
        BY <1>3, <4>1 DEF Fresh
      <4> QED
        BY <3>2, <4>2
    <3>4. CASE q.emp # p.emp
      <4>1. \A i \in DOMAIN q.set : line'[i] = line[i]
        BY <1>3, <1>7, <3>2, <3>4 DEF LinePlan, PlanOf
      <4>2. Fresh(q)'
        BY <1>3, <3>2, <4>1 DEF Fresh
      <4> QED
        BY <3>2, <4>2
    <3> QED
      BY <3>3, <3>4
  <2>3. CASE t # s /\ session[t].table # "line"
    BY <1>5, <2>3
  <2> QED
    BY <2>1, <2>2, <2>3
<1> QED
  BY <1>5, <1>9, <1>10 DEF STrail

LEMMA TrailInductive == STrail /\ [StaffingNext]_staffingVars => STrail'
<1> SUFFICES ASSUME STrail, [StaffingNext]_staffingVars PROVE STrail'
  OBVIOUS
<1>1. SBase
  BY DEF STrail
<1>2. ASSUME NEW s \in Sessions,
             \/ \E r \in NewAssignments : CreateAssignment(s, r)
             \/ \E i \in DOMAIN line, u \in Updates : UpdateAssignment(s, i, u)
             \/ \E i \in DOMAIN line : EndAssignment(s, i)
      PROVE  STrail'
  <2>1. PICK p : \E marks \in SUBSET Marks :
          /\ LinePlan(p) /\ Left(s, p, marks) /\ p.table = "line"
          /\ \A i \in DOMAIN p.set : p.set[i].old = line[i]
    BY <1>1, <1>2, LineLeaves
  <2> QED
    BY <2>1, TrailPlanLeft
<1>3. ASSUME NEW s \in Sessions,
             \/ \E e \in Employees, c \in Clients, w \in Windows : AssignToClient(s, e, c, w[1], w[2])
             \/ \E i \in DOMAIN pool : Unassign(s, i)
             \/ \E r \in PoolRows : \/ AddPoolEntry(s, r)
                                    \/ \E i \in DOMAIN pool : pool[i].emp = r.emp /\ EditPoolEntry(s, i, r)
      PROVE  STrail'
  <2>1. PICK p : \E marks \in SUBSET Marks : PoolPlan(p) /\ Left(s, p, marks) /\ p.table = "pool"
    BY <1>1, <1>3, PoolLeaves
  <2> QED
    BY <2>1, TrailPlanLeft
<1>4. ASSUME NEW s \in Sessions, CommitPool(s) PROVE STrail'
  <2>1. /\ SBase' /\ Idle(s)' /\ \A t \in Sessions \ {s} : session'[t] = session[t]
    BY <1>1, <1>4, CommitPoolBase
  <2>2. line' = line /\ trail' = trail /\ irregular' = irregular
    BY <1>4 DEF CommitPool
  <2>3. (session[s].table = "line" => Fresh(session[s]))'
    BY <2>1 DEF Idle, NoPlan
  <2> QED
    BY <2>1, <2>2, <2>3, TrailStays
<1>5. ASSUME NEW s \in Sessions, Rollback(s) PROVE STrail'
  <2>1. /\ SBase' /\ Idle(s)' /\ \A t \in Sessions \ {s} : session'[t] = session[t]
        /\ line' = line /\ trail' = trail /\ irregular' = irregular
    BY <1>1, <1>5, RollbackBase
  <2>3. (session[s].table = "line" => Fresh(session[s]))'
    BY <2>1 DEF Idle, NoPlan
  <2> QED
    BY <2>1, <2>3, TrailStays
<1>6. CASE NewDay
  <2>1. SBase' /\ UNCHANGED <<line, trail, session, irregular>>
    BY <1>1, <1>6, NewDayBase
  <2> QED
    BY <2>1, TrailStays
<1>7. CASE UNCHANGED <<line, trail, pool, today, session, irregular>>
  <2>1. SBase'
    BY <1>1, <1>7, StaysBase
  <2> QED
    BY <1>7, <2>1, TrailStays
<1> QED
  BY <1>1, <1>2, <1>3, <1>4, <1>5, <1>6, <1>7, StaffingSteps, CommitTells

\* For any assignments, requests and days, the last word of an assignment's
\* trail on every column is the row's; and if the employee's requests never
\* overlapped, the trail tells the whole story (the listeners _insert_changes and
\* _update_changes).
THEOREM AlwaysTrailTellsAll == StaffingSpec => []TrailTellsAll
<1>1. StaffingInit => STrail
  <2> SUFFICES ASSUME StaffingInit PROVE STrail
    OBVIOUS
  <2>1. line = <<>> /\ session = [s \in Sessions |-> NoPlan]
    BY DEF StaffingInit
  <2>2. TrailTellsAll
    BY <2>1 DEF TrailTellsAll
  <2> QED
    BY <2>1, <2>2, BaseInit DEF STrail, NoPlan
<1>2. STrail => TrailTellsAll
  BY DEF STrail
<1> QED
  BY <1>1, <1>2, TrailInductive, PTL DEF StaffingSpec

-----------------------------------------------------------------------------
(* Staffing: the limits of an employee.                                    *)

\* A plan for lines leaves its employee within the limits.
SLimits == SBase /\ LimitsHold /\ \A s \in Sessions : session[s].table = "line" => FitsLimits(session[s])

Shares == [i \in DOMAIN line |-> line[i].share]
PrimariesAfter(p) == {i \in ActiveAfter(p) : RowAfter(line, p, i).primary}
Primaries(e) == {i \in ActiveOf(e) : line[i].primary}

\* A part of a set of rows, with the same numbers, has a smaller sum and fewer elements.
LEMMA PartLess ==
  ASSUME NEW f, NEW g, NEW S, IsFiniteSet(S), \A x \in S : f[x] \in Nat,
         NEW T \in SUBSET S, \A x \in T : g[x] = f[x]
  PROVE  /\ SumFunctionOnSet(g, T) \in Nat /\ SumFunctionOnSet(f, S) \in Nat
         /\ SumFunctionOnSet(g, T) <= SumFunctionOnSet(f, S)
<1>1. IsFiniteSet(T) /\ \A x \in T : f[x] \in Nat
  BY FS_Subset
<1>2. SumFunctionOnSet(g, T) = SumFunctionOnSet(f, T)
  BY <1>1, SumSame
<1>3. SumFunctionOnSet(f, T) <= SumFunctionOnSet(f, S)
  BY SumMonotone
<1>4. SumFunctionOnSet(f, T) \in Nat /\ SumFunctionOnSet(f, S) \in Nat
  BY <1>1, SumType
<1> QED
  BY <1>2, <1>3, <1>4

LEMMA PartFewer ==
  ASSUME NEW S, IsFiniteSet(S), NEW T \in SUBSET S
  PROVE  /\ Cardinality(T) \in Nat /\ Cardinality(S) \in Nat /\ Cardinality(T) <= Cardinality(S)
         /\ IsFiniteSet(T)
BY FS_Subset, FS_CardinalityType

LEMMA ShareTypes ==
  ASSUME NEW t \in Seq(LineRows), NEW S \in SUBSET DOMAIN t
  PROVE  IsFiniteSet(S) /\ \A x \in S : t[x] \in LineRows /\ t[x].share \in Nat
<1>1. IsFiniteSet(S)
  BY DomainFinite
<1>2. \A x \in S : t[x] \in LineRows
  BY LenProperties, ElementOfSeq
<1>3. \A x \in S : t[x].share \in 1..MaxShare
  BY <1>2 DEF LineRows
<1>4. 1..MaxShare \subseteq Nat
  BY DEF MaxShare
<1> QED
  BY <1>1, <1>2, <1>3, <1>4

LEMMA ActiveFacts ==
  ASSUME SBase, NEW e \in Employees
  PROVE  /\ ActiveOf(e) \in SUBSET DOMAIN line /\ IsFiniteSet(ActiveOf(e))
         /\ \A x \in DOMAIN line : Shares[x] = line[x].share /\ Shares[x] \in Nat
         /\ Allocated(ActiveOf(e)) = SumFunctionOnSet(Shares, ActiveOf(e))
         /\ Primaries(e) \in SUBSET ActiveOf(e)
<1>1. line \in Seq(LineRows)
  BY DEF SBase, Tables
<1>2. ActiveOf(e) \in SUBSET DOMAIN line
  BY DEF ActiveOf
<1> QED
  BY <1>1, <1>2, ShareTypes DEF Shares, Allocated, Primaries

\* What the limits say of an employee no mark excepts.
LEMMA LimitsOf ==
  ASSUME LimitsHold, NEW e \in Employees, irregular[e] \cap {"raced", "reopened"} = {}
  PROVE  /\ Cardinality(ActiveOf(e)) <= MaxActive
         /\ Allocated(ActiveOf(e)) <= MaxShare
         /\ "promoted" \notin irregular[e] => Cardinality(Primaries(e)) <= 1
BY DEF LimitsHold, Primaries

LEMMA AfterFacts ==
  ASSUME SBase, NEW p, LinePlan(p)
  PROVE  /\ ActiveAfter(p) \in SUBSET DOMAIN line /\ IsFiniteSet(ActiveAfter(p))
         /\ \A x \in DOMAIN line : /\ SharesAfter(p)[x] = RowAfter(line, p, x).share /\ SharesAfter(p)[x] \in Nat
                                  /\ RowAfter(line, p, x) \in LineRows /\ RowAfter(line, p, x).emp = line[x].emp
         /\ PrimariesAfter(p) \in SUBSET ActiveAfter(p)
<1>1. line \in Seq(LineRows) /\ Tables
  BY DEF SBase, Tables
<1>2. ActiveAfter(p) \in SUBSET DOMAIN line
  BY DEF ActiveAfter
<1>3. \A x \in DOMAIN line : RowAfter(line, p, x) \in LineRows /\ RowAfter(line, p, x).emp = line[x].emp
  BY <1>1, RowAfterLine
<1>4. \A x \in DOMAIN line : RowAfter(line, p, x).share \in Nat
  BY <1>3 DEF LineRows, MaxShare
<1> QED
  BY <1>1, <1>2, <1>3, <1>4, ShareTypes DEF SharesAfter, PrimariesAfter

LEMMA FitsLimitsIs ==
  ASSUME NEW p
  PROVE  FitsLimits(p) <=> (irregular[p.emp] \cap {"raced", "reopened"} = {} =>
           /\ Cardinality(ActiveAfter(p)) + Len(p.add) <= MaxActive
           /\ SumFunctionOnSet(SharesAfter(p), ActiveAfter(p)) + (IF p.add = <<>> THEN 0 ELSE p.add[1].share) <= MaxShare
           /\ "promoted" \notin irregular[p.emp] =>
                Cardinality(PrimariesAfter(p)) + (IF p.add # <<>> /\ p.add[1].primary THEN 1 ELSE 0) <= 1)
BY DEF FitsLimits, PrimariesAfter

\* A plan that leaves no row active that is not, no row primary that is not,
\* and no share but one that was checked, fits.
LEMMA RevisionFits ==
  ASSUME SLimits, NEW p, LinePlan(p), p.add = <<>>, NEW i \in DOMAIN line, line[i].emp = p.emp, DOMAIN p.set = {i},
         NEW marks, marks \subseteq Marks, NEW s \in Sessions, Left(s, p, marks),
         IsActive(RowAfter(line, p, i)) /\ ~IsActive(line[i]) => "reopened" \in marks,
         RowAfter(line, p, i).primary /\ ~line[i].primary => "promoted" \in marks,
         \/ RowAfter(line, p, i).share = line[i].share
         \/ Allocated(ActiveOf(p.emp) \ {i}) + RowAfter(line, p, i).share <= MaxShare
  PROVE  FitsLimits(p)'
<1>1. SBase /\ Tables /\ LimitsHold /\ p.emp \in Employees
  BY DEF SLimits, SBase, LinePlan, PlanOf
<1>2. /\ irregular[p.emp] \subseteq irregular'[p.emp] /\ marks \subseteq irregular'[p.emp]
      /\ line' = line /\ today' = today
  BY <1>1, LeftFacts
<1>3. /\ ActiveOf(p.emp) \in SUBSET DOMAIN line /\ IsFiniteSet(ActiveOf(p.emp))
      /\ \A x \in DOMAIN line : Shares[x] = line[x].share /\ Shares[x] \in Nat
      /\ Allocated(ActiveOf(p.emp)) = SumFunctionOnSet(Shares, ActiveOf(p.emp))
      /\ Primaries(p.emp) \in SUBSET ActiveOf(p.emp)
  BY <1>1, ActiveFacts
<1>4. /\ ActiveAfter(p) \in SUBSET DOMAIN line /\ IsFiniteSet(ActiveAfter(p))
      /\ \A x \in DOMAIN line : /\ SharesAfter(p)[x] = RowAfter(line, p, x).share /\ SharesAfter(p)[x] \in Nat
                               /\ RowAfter(line, p, x) \in LineRows /\ RowAfter(line, p, x).emp = line[x].emp
      /\ PrimariesAfter(p) \in SUBSET ActiveAfter(p)
  BY <1>1, AfterFacts
<1>5. \A x \in DOMAIN line \ {i} : RowAfter(line, p, x) = line[x]
  BY <1>1, RowAfterLine
<1>6. Len(p.add) = 0
  OBVIOUS
<1> SUFFICES ASSUME irregular'[p.emp] \cap {"raced", "reopened"} = {}
             PROVE  /\ Cardinality(ActiveAfter(p)) <= MaxActive
                    /\ SumFunctionOnSet(SharesAfter(p), ActiveAfter(p)) <= MaxShare
                    /\ "promoted" \notin irregular'[p.emp] => Cardinality(PrimariesAfter(p)) <= 1
  <2>1. Cardinality(ActiveAfter(p)) \in Nat /\ Cardinality(PrimariesAfter(p)) \in Nat
    BY <1>4, PartFewer
  <2>2. SumFunctionOnSet(SharesAfter(p), ActiveAfter(p)) \in Nat
    BY <1>4, SumType
  <2>3. ActiveAfter(p)' = ActiveAfter(p)
    BY <1>2 DEF ActiveAfter, IsActive
  <2>4. SharesAfter(p)' = SharesAfter(p)
    BY <1>2 DEF SharesAfter
  <2>5. PrimariesAfter(p)' = PrimariesAfter(p)
    BY <1>2, <2>3 DEF PrimariesAfter
  <2>6. ~(p.add # <<>> /\ p.add[1].primary) /\ p.add = <<>>
    OBVIOUS
  <2>7. FitsLimits(p)' <=> (irregular'[p.emp] \cap {"raced", "reopened"} = {} =>
           /\ Cardinality(ActiveAfter(p)') + Len(p.add) <= MaxActive
           /\ SumFunctionOnSet(SharesAfter(p)', ActiveAfter(p)') + (IF p.add = <<>> THEN 0 ELSE p.add[1].share) <= MaxShare
           /\ "promoted" \notin irregular'[p.emp] =>
                Cardinality(PrimariesAfter(p)') + (IF p.add # <<>> /\ p.add[1].primary THEN 1 ELSE 0) <= 1)
    BY DEF FitsLimits, PrimariesAfter
  <2> QED
    BY <1>6, <2>1, <2>2, <2>3, <2>4, <2>5, <2>6, <2>7
<1>7. /\ Cardinality(ActiveOf(p.emp)) <= MaxActive
      /\ Allocated(ActiveOf(p.emp)) <= MaxShare
      /\ "promoted" \notin irregular[p.emp] => Cardinality(Primaries(p.emp)) <= 1
  BY <1>1, <1>2, LimitsOf
<1>8. ActiveAfter(p) \in SUBSET ActiveOf(p.emp)
  <2> SUFFICES ASSUME NEW x \in ActiveAfter(p) PROVE x \in ActiveOf(p.emp)
    OBVIOUS
  <2>1. x \in DOMAIN line /\ line[x].emp = p.emp /\ IsActive(RowAfter(line, p, x))
    BY <1>4 DEF ActiveAfter
  <2>2. IsActive(line[x])
    BY <1>2, <1>5, <2>1
  <2> QED
    BY <2>1, <2>2 DEF ActiveOf
<1>9. Cardinality(ActiveAfter(p)) <= MaxActive
  BY <1>3, <1>7, <1>8, PartFewer DEF MaxActive
<1>10. SumFunctionOnSet(SharesAfter(p), ActiveAfter(p)) <= MaxShare
  <2>1. PICK f, g : f = Shares /\ g = SharesAfter(p)
    OBVIOUS
  <2>2. \A x \in DOMAIN line \ {i} : g[x] = f[x]
    BY <1>3, <1>4, <1>5, <2>1
  <2>3. PICK A, B : A = ActiveAfter(p) /\ B = ActiveOf(p.emp)
    OBVIOUS
  <2>4. A \in SUBSET B /\ IsFiniteSet(A) /\ IsFiniteSet(B) /\ B \subseteq DOMAIN line
        /\ \A x \in B : f[x] \in Nat /\ g[x] \in Nat
    BY <1>3, <1>4, <1>8, <2>1, <2>3
  <2>5. SumFunctionOnSet(f, B) <= MaxShare
    BY <1>3, <1>7, <2>1, <2>3
  <2>6. CASE i \notin A \/ g[i] = f[i]
    <3>1. \A x \in A : g[x] = f[x]
      BY <2>2, <2>4, <2>6
    <3>2. SumFunctionOnSet(g, A) <= SumFunctionOnSet(f, B) /\ SumFunctionOnSet(g, A) \in Nat /\ SumFunctionOnSet(f, B) \in Nat
      BY <2>4, <3>1, PartLess
    <3> QED
      BY <2>1, <2>3, <2>5, <3>2 DEF MaxShare
  <2>7. CASE i \in A /\ g[i] # f[i]
    <3>1. Allocated(B \ {i}) + g[i] <= MaxShare
      BY <1>3, <1>4, <2>1, <2>3, <2>7
    <3>2. Allocated(B \ {i}) = SumFunctionOnSet(f, B \ {i})
      BY <2>1 DEF Allocated, Shares
    <3>3. PICK C, D : C = A \ {i} /\ D = B \ {i}
      OBVIOUS
    <3>4. C \in SUBSET D /\ IsFiniteSet(D) /\ IsFiniteSet(C) /\ \A x \in D : f[x] \in Nat
      BY <2>4, <3>3, FS_Subset
    <3>5. \A x \in C : g[x] = f[x] /\ g[x] \in Nat
      BY <2>2, <2>4, <3>3
    <3>6. SumFunctionOnSet(g, C) <= SumFunctionOnSet(f, D) /\ SumFunctionOnSet(g, C) \in Nat /\ SumFunctionOnSet(f, D) \in Nat
      BY <3>4, <3>5, PartLess
    <3>7. A = C \cup {i} /\ i \notin C /\ g[i] \in Nat
      BY <2>4, <2>7, <3>3
    <3>8. SumFunctionOnSet(g, C \cup {i}) = SumFunctionOnSet(g, C) + g[i]
      BY <3>4, <3>5, <3>7, SumAdd
    <3>9. SumFunctionOnSet(g, A) <= MaxShare
      <4>1. PICK a \in Nat, b \in Nat, k \in Nat :
              a = SumFunctionOnSet(g, C) /\ b = SumFunctionOnSet(f, D) /\ k = g[i]
        BY <3>6, <3>7
      <4>2. b + k <= MaxShare
        BY <3>1, <3>2, <3>3, <4>1
      <4>3. a <= b
        BY <3>6, <4>1
      <4>4. a + k <= MaxShare
        BY <4>1, <4>2, <4>3 DEF MaxShare
      <4>5. SumFunctionOnSet(g, A) = a + k
        BY <3>7, <3>8, <4>1
      <4> QED
        BY <4>4, <4>5
    <3> QED
      BY <2>1, <2>3, <3>9
  <2> QED
    BY <2>6, <2>7
<1>11. ASSUME "promoted" \notin irregular'[p.emp]
       PROVE  Cardinality(PrimariesAfter(p)) <= 1
  <2>1. PrimariesAfter(p) \in SUBSET Primaries(p.emp)
    <3> SUFFICES ASSUME NEW x \in PrimariesAfter(p) PROVE x \in Primaries(p.emp)
      OBVIOUS
    <3>1. x \in ActiveOf(p.emp) /\ x \in DOMAIN line /\ RowAfter(line, p, x).primary
      BY <1>4, <1>8 DEF PrimariesAfter
    <3>2. line[x].primary
      BY <1>2, <1>5, <1>11, <3>1
    <3> QED
      BY <3>1, <3>2 DEF Primaries
  <2>2. IsFiniteSet(Primaries(p.emp))
    BY <1>3, PartFewer
  <2>3. Cardinality(Primaries(p.emp)) <= 1
    BY <1>2, <1>7, <1>11
  <2> QED
    BY <2>1, <2>2, <2>3, PartFewer
<1> QED
  BY <1>9, <1>10, <1>11

\* StaffingSteps that leave the lines and the day as they are.
LEMMA LimitsStay ==
  ASSUME SLimits, SBase', line' = line, today' = today, \A f \in Employees : irregular[f] \subseteq irregular'[f],
         \A t \in Sessions : session'[t] = session[t] \/ (session[t].table = "line" => FitsLimits(session[t]))'
  PROVE  SLimits'
<1>1. \A e \in Employees : ActiveOf(e)' = ActiveOf(e)
  BY DEF ActiveOf, IsActive
<1>2. \A S : Allocated(S)' = Allocated(S)
  BY DEF Allocated
<1>3. LimitsHold'
  BY <1>1, <1>2 DEF SLimits, LimitsHold
<1>4. ASSUME NEW t \in Sessions
      PROVE  (session[t].table = "line" => FitsLimits(session[t]))'
  <2>1. CASE session'[t] = session[t] /\ session[t].table = "line"
    <3>1. PICK p : p = session[t]
      OBVIOUS
    <3>2. FitsLimits(p) /\ p.emp \in Employees
      BY <2>1, <3>1, PlanEmployee DEF SLimits
    <3>3. ActiveAfter(p)' = ActiveAfter(p)
      BY DEF ActiveAfter, IsActive
    <3>4. SharesAfter(p)' = SharesAfter(p)
      BY DEF SharesAfter
    <3>5. FitsLimits(p)'
      BY <3>2, <3>3, <3>4 DEF FitsLimits
    <3>6. p = session'[t]
      BY <2>1, <3>1
    <3> QED
      BY <3>5, <3>6
  <2>2. CASE session'[t] = session[t] /\ session[t].table # "line"
    BY <2>2
  <2>3. CASE (session[t].table = "line" => FitsLimits(session[t]))'
    BY <2>3
  <2> QED
    BY <2>1, <2>2, <2>3
<1> QED
  BY <1>3, <1>4 DEF SLimits

LEMMA LimitsPlanLeft ==
  ASSUME SLimits, NEW s \in Sessions, NEW p, NEW marks \in SUBSET Marks, Left(s, p, marks),
         LinePlan(p) \/ PoolPlan(p), p.table = "line" => FitsLimits(p)'
  PROVE  SLimits'
<1>1. p.emp \in Employees /\ SBase
  BY DEF LinePlan, PoolPlan, PlanOf, SLimits
<1>2. SBase'
  BY <1>1, LeftKeeps
<1>3. /\ session'[s] = p /\ (\A t \in Sessions \ {s} : session'[t] = session[t])
      /\ \A f \in Employees : irregular[f] \subseteq irregular'[f]
      /\ line' = line /\ today' = today
  BY <1>1, LeftFacts DEF SBase
<1>4. (session[s].table = "line" => FitsLimits(session[s]))'
  BY <1>3
<1> QED
  BY <1>2, <1>3, <1>4, LimitsStay

LEMMA UpdateFits ==
  ASSUME SLimits, NEW s \in Sessions, NEW i \in DOMAIN line, NEW u \in Updates, UpdateAssignment(s, i, u)
  PROVE  SLimits'
<1>1. SBase
  BY DEF SLimits
<1>2. PICK p : \E after \in LineRows : \E marks \in SUBSET Marks :
           /\ ~IsActive(line[i]) /\ IsActive(after) => "reopened" \in marks
           /\ after.primary /\ ~line[i].primary => "promoted" \in marks
           /\ LinePlan(p) /\ Left(s, p, marks) /\ p.emp = line[i].emp /\ p.table = "line"
           /\ DOMAIN p.set = {i} /\ p.set[i].old = line[i] /\ p.add = <<>>
           /\ \A c \in LineColumns : RowAfter(line, p, i)[c] = after[c]
           /\ \/ after.share = line[i].share
              \/ Allocated(ActiveOf(p.emp) \ {i}) + after.share <= MaxShare
  BY <1>1, UpdatePlan
<1>3. PICK after \in LineRows : \E marks \in SUBSET Marks :
           /\ ~IsActive(line[i]) /\ IsActive(after) => "reopened" \in marks
           /\ after.primary /\ ~line[i].primary => "promoted" \in marks
           /\ LinePlan(p) /\ Left(s, p, marks) /\ p.emp = line[i].emp /\ p.table = "line"
           /\ DOMAIN p.set = {i} /\ p.set[i].old = line[i] /\ p.add = <<>>
           /\ \A c \in LineColumns : RowAfter(line, p, i)[c] = after[c]
           /\ \/ after.share = line[i].share
              \/ Allocated(ActiveOf(p.emp) \ {i}) + after.share <= MaxShare
  BY <1>2
<1>4. PICK marks \in SUBSET Marks :
           /\ ~IsActive(line[i]) /\ IsActive(after) => "reopened" \in marks
           /\ after.primary /\ ~line[i].primary => "promoted" \in marks
           /\ LinePlan(p) /\ Left(s, p, marks) /\ p.emp = line[i].emp /\ p.table = "line"
           /\ DOMAIN p.set = {i} /\ p.set[i].old = line[i] /\ p.add = <<>>
           /\ \A c \in LineColumns : RowAfter(line, p, i)[c] = after[c]
           /\ \/ after.share = line[i].share
              \/ Allocated(ActiveOf(p.emp) \ {i}) + after.share <= MaxShare
  BY <1>3
<1>5. /\ RowAfter(line, p, i).share = after.share /\ RowAfter(line, p, i).end = after.end
      /\ RowAfter(line, p, i).primary = after.primary
  BY <1>4 DEF LineColumns
<1>6. IsActive(RowAfter(line, p, i)) <=> IsActive(after)
  BY <1>5 DEF IsActive
<1>7. FitsLimits(p)'
  BY <1>4, <1>5, <1>6, RevisionFits
<1> QED
  BY <1>4, <1>7, LimitsPlanLeft

LEMMA EndFits ==
  ASSUME SLimits, NEW s \in Sessions, NEW i \in DOMAIN line, EndAssignment(s, i)
  PROVE  SLimits'
<1>1. SBase /\ today \in Days
  BY DEF SLimits, SBase, Tables
<1>2. PICK p : /\ LinePlan(p) /\ Left(s, p, {}) /\ p.emp = line[i].emp /\ p.table = "line"
               /\ DOMAIN p.set = {i} /\ p.set[i].old = line[i] /\ p.add = <<>>
               /\ RowAfter(line, p, i).end = today
               /\ \A c \in LineColumns \ {"end"} : RowAfter(line, p, i)[c] = line[i][c]
  BY <1>1, EndPlan
<1>3. RowAfter(line, p, i).share = line[i].share /\ RowAfter(line, p, i).primary = line[i].primary
  BY <1>2 DEF LineColumns
<1>4. ~IsActive(RowAfter(line, p, i))
  BY <1>1, <1>2, DaysAssumption DEF IsActive, Days, Null
<1>5. FitsLimits(p)'
  BY <1>2, <1>3, <1>4, RevisionFits
<1> QED
  BY <1>2, <1>5, LimitsPlanLeft

LEMMA CreateFits ==
  ASSUME SLimits, NEW s \in Sessions, NEW r \in NewAssignments, CreateAssignment(s, r)
  PROVE  SLimits'
<1>1. SBase /\ Tables /\ LimitsHold
  BY DEF SLimits, SBase
<1>2. PICK p : \E q \in LineRows :
           /\ LinePlan(p) /\ Left(s, p, {}) /\ p.emp = r.emp /\ p.table = "line" /\ p.add = <<q>>
           /\ q.share = r.share /\ q.primary = (r.primary \/ ActiveOf(r.emp) = {}) /\ q.end = r.end
           /\ DOMAIN p.set = {i \in ActiveOf(r.emp) : q.primary /\ line[i].primary}
           /\ \A i \in DOMAIN p.set :
                /\ p.set[i].old = line[i] /\ ~RowAfter(line, p, i).primary
                /\ \A c \in LineColumns \ {"primary"} : RowAfter(line, p, i)[c] = line[i][c]
           /\ Cardinality(ActiveOf(r.emp)) < MaxActive
           /\ Allocated(ActiveOf(r.emp)) + r.share <= MaxShare
  BY <1>1, CreatePlan
<1>3. PICK q \in LineRows :
           /\ LinePlan(p) /\ Left(s, p, {}) /\ p.emp = r.emp /\ p.table = "line" /\ p.add = <<q>>
           /\ q.share = r.share /\ q.primary = (r.primary \/ ActiveOf(r.emp) = {}) /\ q.end = r.end
           /\ DOMAIN p.set = {i \in ActiveOf(r.emp) : q.primary /\ line[i].primary}
           /\ \A i \in DOMAIN p.set :
                /\ p.set[i].old = line[i] /\ ~RowAfter(line, p, i).primary
                /\ \A c \in LineColumns \ {"primary"} : RowAfter(line, p, i)[c] = line[i][c]
           /\ Cardinality(ActiveOf(r.emp)) < MaxActive
           /\ Allocated(ActiveOf(r.emp)) + r.share <= MaxShare
  BY <1>2
<1>4. p.emp \in Employees
  BY <1>3 DEF LinePlan, PlanOf
<1>5. irregular[p.emp] \subseteq irregular'[p.emp] /\ line' = line /\ today' = today
  BY <1>1, <1>3, <1>4, LeftFacts
<1>6. /\ ActiveOf(p.emp) \in SUBSET DOMAIN line /\ IsFiniteSet(ActiveOf(p.emp))
      /\ \A x \in DOMAIN line : Shares[x] = line[x].share /\ Shares[x] \in Nat
      /\ Allocated(ActiveOf(p.emp)) = SumFunctionOnSet(Shares, ActiveOf(p.emp))
      /\ Primaries(p.emp) \in SUBSET ActiveOf(p.emp)
  BY <1>1, <1>4, ActiveFacts
<1>7. /\ ActiveAfter(p) \in SUBSET DOMAIN line /\ IsFiniteSet(ActiveAfter(p))
      /\ \A x \in DOMAIN line : /\ SharesAfter(p)[x] = RowAfter(line, p, x).share /\ SharesAfter(p)[x] \in Nat
                               /\ RowAfter(line, p, x) \in LineRows /\ RowAfter(line, p, x).emp = line[x].emp
      /\ PrimariesAfter(p) \in SUBSET ActiveAfter(p)
  BY <1>1, <1>3, AfterFacts
<1>8. \A x \in DOMAIN line \ DOMAIN p.set : RowAfter(line, p, x) = line[x]
  BY <1>1, <1>3, RowAfterLine
<1>9. ASSUME NEW x \in DOMAIN line
      PROVE  RowAfter(line, p, x).share = line[x].share /\ RowAfter(line, p, x).end = line[x].end
  <2>1. CASE x \in DOMAIN p.set
    BY <1>3, <2>1 DEF LineColumns
  <2>2. CASE x \notin DOMAIN p.set
    BY <1>8, <2>2
  <2> QED
    BY <2>1, <2>2
<1>10. ActiveAfter(p) = ActiveOf(p.emp)
  <2>1. ASSUME NEW x \in DOMAIN line
        PROVE  x \in ActiveAfter(p) <=> x \in ActiveOf(p.emp)
    <3>1. RowAfter(line, p, x).emp = line[x].emp /\ RowAfter(line, p, x).end = line[x].end
      BY <1>7, <1>9
    <3>2. IsActive(RowAfter(line, p, x)) <=> IsActive(line[x])
      BY <3>1 DEF IsActive
    <3> QED
      BY <3>1, <3>2 DEF ActiveAfter, ActiveOf
  <2> QED
    BY <1>6, <1>7, <2>1
<1>11. SumFunctionOnSet(SharesAfter(p), ActiveAfter(p)) = Allocated(ActiveOf(p.emp))
  <2>1. PICK f, g, S : f = Shares /\ g = SharesAfter(p) /\ S = ActiveOf(p.emp)
    OBVIOUS
  <2>2. IsFiniteSet(S) /\ \A x \in S : f[x] \in Nat /\ g[x] = f[x]
    <3>1. IsFiniteSet(S) /\ S \subseteq DOMAIN line
      BY <1>6, <2>1
    <3>2. \A x \in DOMAIN line : f[x] = line[x].share /\ f[x] \in Nat
      BY <1>6, <2>1
    <3>3. \A x \in DOMAIN line : g[x] = RowAfter(line, p, x).share
      BY <1>7, <2>1
    <3>4. \A x \in DOMAIN line : g[x] = f[x]
      BY <1>9, <3>2, <3>3
    <3> QED
      BY <3>1, <3>2, <3>4
  <2>3. SumFunctionOnSet(g, S) = SumFunctionOnSet(f, S)
    BY <2>2, SumSame
  <2> QED
    BY <1>6, <1>10, <2>1, <2>3
<1>12. Len(p.add) = 1 /\ p.add[1] = q /\ p.add # <<>>
  <2>1. Len(<<q>>) = 1 /\ <<q>>[1] = q /\ <<q>> # <<>>
    OBVIOUS
  <2> QED
    BY <1>3, <2>1
<1>13. ASSUME irregular'[p.emp] \cap {"raced", "reopened"} = {}, "promoted" \notin irregular'[p.emp]
       PROVE  Cardinality(PrimariesAfter(p)) + (IF q.primary THEN 1 ELSE 0) <= 1
  <2>1. CASE q.primary
    <3>1. PrimariesAfter(p) = {}
      BY <1>3, <1>7, <1>8, <1>10, <2>1 DEF PrimariesAfter
    <3> QED
      BY <2>1, <3>1, FS_EmptySet
  <2>2. CASE ~q.primary
    <3>1. DOMAIN p.set = {}
      BY <1>3, <2>2
    <3>2. PrimariesAfter(p) = Primaries(p.emp)
      BY <1>6, <1>8, <1>10, <3>1 DEF PrimariesAfter, Primaries
    <3>3. Cardinality(Primaries(p.emp)) <= 1
      BY <1>1, <1>4, <1>5, <1>13, LimitsOf
    <3>4. Cardinality(Primaries(p.emp)) \in Nat
      BY <1>6, PartFewer
    <3> QED
      BY <2>2, <3>2, <3>3, <3>4
  <2> QED
    BY <2>1, <2>2
<1>14. Cardinality(ActiveAfter(p)) + Len(p.add) <= MaxActive
  <2>1. Cardinality(ActiveOf(p.emp)) \in Nat
    BY <1>6, FS_CardinalityType
  <2> QED
    BY <1>3, <1>10, <1>12, <2>1 DEF MaxActive
<1>15. FitsLimits(p)'
  <2>1. ActiveAfter(p)' = ActiveAfter(p)
    BY <1>5 DEF ActiveAfter, IsActive
  <2>2. SharesAfter(p)' = SharesAfter(p)
    BY <1>5 DEF SharesAfter
  <2>3. PrimariesAfter(p)' = PrimariesAfter(p)
    BY <1>5, <2>1 DEF PrimariesAfter
  <2>4. FitsLimits(p)' <=> (irregular'[p.emp] \cap {"raced", "reopened"} = {} =>
           /\ Cardinality(ActiveAfter(p)') + Len(p.add) <= MaxActive
           /\ SumFunctionOnSet(SharesAfter(p)', ActiveAfter(p)') + (IF p.add = <<>> THEN 0 ELSE p.add[1].share) <= MaxShare
           /\ "promoted" \notin irregular'[p.emp] =>
                Cardinality(PrimariesAfter(p)') + (IF p.add # <<>> /\ p.add[1].primary THEN 1 ELSE 0) <= 1)
    BY DEF FitsLimits, PrimariesAfter
  <2> QED
    BY <1>3, <1>11, <1>12, <1>13, <1>14, <2>1, <2>2, <2>3, <2>4
<1> QED
  BY <1>3, <1>15, LimitsPlanLeft

LEMMA LaterInactive ==
  ASSUME SBase, NewDay, NEW r \in LineRows, IsActive(r)'
  PROVE  IsActive(r)
<1>1. today \in Nat /\ today' = today + 1 /\ r.end \in Nat
  BY DaysAssumption DEF SBase, Tables, NewDay, LineRows, Bounds, Days, Null
<1> QED
  BY <1>1 DEF IsActive

LEMMA NewDayFits ==
  ASSUME SLimits, NewDay
  PROVE  SLimits'
<1>1. SBase /\ LimitsHold
  BY DEF SLimits
<1>2. SBase' /\ UNCHANGED <<line, session, irregular>>
  BY <1>1, NewDayBase
<1>3. LimitsHold'
  <2> SUFFICES ASSUME NEW e \in Employees, irregular[e] \cap {"raced", "reopened"} = {}
               PROVE  /\ Cardinality(ActiveOf(e)') <= MaxActive
                      /\ Allocated(ActiveOf(e))' <= MaxShare
                      /\ "promoted" \notin irregular[e] => Cardinality({i \in ActiveOf(e)' : line[i].primary}) <= 1
    BY <1>2 DEF LimitsHold
  <2>1. PICK S, T : S = ActiveOf(e) /\ T = ActiveOf(e)'
    OBVIOUS
  <2>2. /\ S \in SUBSET DOMAIN line /\ IsFiniteSet(S)
        /\ \A x \in DOMAIN line : Shares[x] = line[x].share /\ Shares[x] \in Nat
        /\ Allocated(S) = SumFunctionOnSet(Shares, S)
        /\ Primaries(e) \in SUBSET S
    BY <1>1, <2>1, ActiveFacts
  <2>3. Cardinality(S) <= MaxActive /\ Allocated(S) <= MaxShare
        /\ ("promoted" \notin irregular[e] => Cardinality(Primaries(e)) <= 1)
    BY <1>1, <2>1, LimitsOf
  <2>4. T \in SUBSET S
    <3>1. \A x \in DOMAIN line : line[x] \in LineRows
      BY <1>1, LenProperties, ElementOfSeq DEF SBase, Tables
    <3>2. \A x \in DOMAIN line : IsActive(line[x])' => IsActive(line[x])
      <4> TAKE x \in DOMAIN line
      <4>1. PICK r \in LineRows : r = line[x]
        BY <3>1
      <4>2. IsActive(r)' => IsActive(r)
        BY <1>1, LaterInactive
      <4> QED
        BY <1>2, <4>1, <4>2
    <3>3. \A x \in T : x \in DOMAIN line /\ line[x].emp = e /\ IsActive(line[x])'
      BY <1>2, <2>1 DEF ActiveOf
    <3> QED
      BY <2>1, <3>2, <3>3 DEF ActiveOf
  <2>5. Cardinality(T) <= MaxActive
    BY <2>2, <2>3, <2>4, PartFewer DEF MaxActive
  <2>6. Allocated(ActiveOf(e))' <= MaxShare
    <3>1. PICK f : f = Shares
      OBVIOUS
    <3>2. Allocated(ActiveOf(e))' = SumFunctionOnSet(f, T)
      BY <1>2, <2>1, <3>1 DEF Allocated, Shares
    <3>3. \A x \in S : f[x] \in Nat
      BY <2>2, <3>1
    <3>4. SumFunctionOnSet(f, T) <= SumFunctionOnSet(f, S) /\ SumFunctionOnSet(f, T) \in Nat /\ SumFunctionOnSet(f, S) \in Nat
      BY <2>2, <2>4, <3>3, PartLess
    <3>5. SumFunctionOnSet(f, S) <= MaxShare
      BY <2>2, <2>3, <3>1
    <3> QED
      BY <3>2, <3>4, <3>5 DEF MaxShare
  <2>7. ASSUME "promoted" \notin irregular[e]
        PROVE  Cardinality({i \in T : line[i].primary}) <= 1
    <3>1. {i \in T : line[i].primary} \in SUBSET Primaries(e)
      BY <2>1, <2>4 DEF Primaries
    <3>2. IsFiniteSet(Primaries(e)) /\ Cardinality(Primaries(e)) \in Nat
      BY <2>2, PartFewer
    <3>3. Cardinality({i \in T : line[i].primary}) <= Cardinality(Primaries(e))
          /\ Cardinality({i \in T : line[i].primary}) \in Nat
      BY <3>1, <3>2, PartFewer
    <3> QED
      BY <2>3, <2>7, <3>2, <3>3
  <2> QED
    BY <2>1, <2>5, <2>6, <2>7
<1>4. ASSUME NEW t \in Sessions, session[t].table = "line"
      PROVE  FitsLimits(session[t])'
  <2>1. PICK p : p = session[t]
    OBVIOUS
  <2>2. FitsLimits(p) /\ LinePlan(p)
    BY <1>1, <1>4, <2>1, PlanEmployee DEF SLimits
  <2>3. PICK S, T, f : S = ActiveAfter(p) /\ T = ActiveAfter(p)' /\ f = SharesAfter(p)
    OBVIOUS
  <2>4. /\ S \in SUBSET DOMAIN line /\ IsFiniteSet(S)
        /\ \A x \in DOMAIN line : f[x] \in Nat /\ RowAfter(line, p, x) \in LineRows
        /\ PrimariesAfter(p) \in SUBSET S
    BY <1>1, <2>2, <2>3, AfterFacts
  <2>5. f = SharesAfter(p)'
    BY <1>2, <2>3 DEF SharesAfter
  <2>6. T \in SUBSET S
    <3>1. \A x \in DOMAIN line : IsActive(RowAfter(line, p, x))' => IsActive(RowAfter(line, p, x))
      <4> TAKE x \in DOMAIN line
      <4>1. PICK r \in LineRows : r = RowAfter(line, p, x)
        BY <2>4
      <4>2. IsActive(r)' => IsActive(r)
        BY <1>1, LaterInactive
      <4> QED
        BY <1>2, <4>1, <4>2
    <3>2. \A x \in T : x \in DOMAIN line /\ RowAfter(line, p, x).emp = p.emp /\ IsActive(RowAfter(line, p, x))'
      BY <1>2, <2>3 DEF ActiveAfter
    <3> QED
      BY <2>3, <3>1, <3>2 DEF ActiveAfter
  <2>7. Len(p.add) \in Nat /\ (p.add # <<>> => p.add[1].share \in Nat)
    <3>1. CASE p.add = <<>>
      BY <3>1
    <3>2. CASE p.add # <<>>
      <4>1. PICK q \in LineRows : p.add = <<q>>
        BY <2>2, <3>2 DEF LinePlan, PlanOf
      <4>2. Len(<<q>>) = 1 /\ <<q>>[1] = q
        OBVIOUS
      <4> QED
        BY <4>1, <4>2 DEF LineRows, MaxShare
    <3> QED
      BY <3>1, <3>2
  <2>8. Cardinality(T) <= Cardinality(S) /\ Cardinality(T) \in Nat /\ Cardinality(S) \in Nat
    BY <2>4, <2>6, PartFewer
  <2>9. SumFunctionOnSet(f, T) <= SumFunctionOnSet(f, S) /\ SumFunctionOnSet(f, T) \in Nat /\ SumFunctionOnSet(f, S) \in Nat
    BY <2>4, <2>6, PartLess
  <2>10. PICK P, Q : P = PrimariesAfter(p) /\ Q = PrimariesAfter(p)'
    OBVIOUS
  <2>11. Q \in SUBSET P
    BY <1>2, <2>3, <2>6, <2>10 DEF PrimariesAfter
  <2>12. IsFiniteSet(P)
    BY <2>4, <2>10, PartFewer
  <2>13. Cardinality(Q) <= Cardinality(P) /\ Cardinality(Q) \in Nat /\ Cardinality(P) \in Nat
    BY <2>11, <2>12, PartFewer
  <2>14. FitsLimits(p)' <=> (irregular'[p.emp] \cap {"raced", "reopened"} = {} =>
           /\ Cardinality(ActiveAfter(p)') + Len(p.add) <= MaxActive
           /\ SumFunctionOnSet(SharesAfter(p)', ActiveAfter(p)') + (IF p.add = <<>> THEN 0 ELSE p.add[1].share) <= MaxShare
           /\ "promoted" \notin irregular'[p.emp] =>
                Cardinality(PrimariesAfter(p)') + (IF p.add # <<>> /\ p.add[1].primary THEN 1 ELSE 0) <= 1)
    BY DEF FitsLimits, PrimariesAfter
  <2>15. irregular[p.emp] \cap {"raced", "reopened"} = {} =>
           /\ Cardinality(S) + Len(p.add) <= MaxActive
           /\ SumFunctionOnSet(f, S) + (IF p.add = <<>> THEN 0 ELSE p.add[1].share) <= MaxShare
           /\ "promoted" \notin irregular[p.emp] =>
                Cardinality(P) + (IF p.add # <<>> /\ p.add[1].primary THEN 1 ELSE 0) <= 1
    BY <2>2, <2>3, <2>10, FitsLimitsIs
  <2>16. PICK n, k, b : /\ n = Len(p.add) /\ k = (IF p.add = <<>> THEN 0 ELSE p.add[1].share)
                        /\ b = (IF p.add # <<>> /\ p.add[1].primary THEN 1 ELSE 0)
    OBVIOUS
  <2>17. n \in Nat /\ k \in Nat /\ b \in Nat
    BY <2>7, <2>16
  <2>18. irregular[p.emp] \cap {"raced", "reopened"} = {} =>
           /\ Cardinality(T) + n <= MaxActive
           /\ SumFunctionOnSet(f, T) + k <= MaxShare
           /\ "promoted" \notin irregular[p.emp] => Cardinality(Q) + b <= 1
    <3>1. PICK a \in Nat, c \in Nat, d \in Nat, g \in Nat, h \in Nat, j \in Nat :
            /\ a = Cardinality(S) /\ c = Cardinality(T) /\ c <= a
            /\ d = SumFunctionOnSet(f, S) /\ g = SumFunctionOnSet(f, T) /\ g <= d
            /\ h = Cardinality(P) /\ j = Cardinality(Q) /\ j <= h
      BY <2>8, <2>9, <2>13
    <3>2. irregular[p.emp] \cap {"raced", "reopened"} = {} =>
            /\ a + n <= MaxActive
            /\ d + k <= MaxShare
            /\ "promoted" \notin irregular[p.emp] => h + b <= 1
      BY <2>15, <2>16, <3>1
    <3>3. /\ a + n <= MaxActive => c + n <= MaxActive
          /\ d + k <= MaxShare => g + k <= MaxShare
          /\ h + b <= 1 => j + b <= 1
      BY <2>17, <3>1 DEF MaxActive, MaxShare
    <3> QED
      BY <3>1, <3>2, <3>3
  <2>19. FitsLimits(p)'
    BY <1>2, <2>3, <2>5, <2>10, <2>14, <2>16, <2>18
  <2>20. p = session'[t]
    BY <1>2, <2>1
  <2> QED
    BY <2>19, <2>20
<1> QED
  BY <1>2, <1>3, <1>4 DEF SLimits

\* A commit: the plan fitted, so the rows it leaves are within the limits, and
\* so are those of everybody else.
LEMMA CommitFits ==
  ASSUME SLimits, NEW s \in Sessions, CommitLine(s)
  PROVE  SLimits'
<1>1. PICK p : p = session[s]
  OBVIOUS
<1>2. SBase /\ Tables /\ LimitsHold
  BY DEF SLimits, SBase
<1>3. /\ LinePlan(p) /\ ~Idle(s)
      /\ line' \in Seq(LineRows) /\ Len(line') = Len(line) + Len(p.add) /\ Len(p.add) \in {0, 1}
      /\ (p.add = <<>> <=> Len(p.add) = 0)
      /\ DOMAIN line = 1..Len(line) /\ DOMAIN line' = 1..Len(line') /\ Len(line) \in Nat
      /\ \A i \in DOMAIN line : line'[i] = RowAfter(line, p, i)
      /\ p.add # <<>> => line'[Len(line) + 1] = p.add[1] /\ p.add[1] \in LineRows /\ p.add[1].emp = p.emp
      /\ UNCHANGED <<employee, pool, today, irregular>>
  BY <1>1, <1>2, CommitLineFacts
<1>4. SBase' /\ Idle(s)' /\ \A t \in Sessions \ {s} : session'[t] = session[t]
  BY <1>2, CommitLineBase
<1>5. FitsLimits(p) /\ p.emp \in Employees
  BY <1>1, <1>3 DEF SLimits, LinePlan, PlanOf
<1>6. \A i \in DOMAIN line : line'[i].emp = line[i].emp /\ (line[i].emp # p.emp => line'[i] = line[i])
  <2> TAKE i \in DOMAIN line
  <2>1. RowAfter(line, p, i).emp = line[i].emp /\ (i \notin DOMAIN p.set => RowAfter(line, p, i) = line[i])
    BY <1>2, <1>3, RowAfterLine
  <2>2. i \in DOMAIN p.set => line[i].emp = p.emp
    BY <1>3 DEF LinePlan, PlanOf
  <2> QED
    BY <1>3, <2>1, <2>2
<1>7. PICK N \in Nat : N = Len(line)
  BY <1>3
<1>8. /\ DOMAIN line \subseteq DOMAIN line' /\ N + 1 \notin DOMAIN line
      /\ p.add = <<>> => DOMAIN line' = DOMAIN line
      /\ p.add # <<>> => DOMAIN line' = DOMAIN line \cup {N + 1}
  <2>1. CASE p.add = <<>>
    BY <1>3, <1>7, <2>1
  <2>2. CASE p.add # <<>>
    <3>1. Len(p.add) = 1 /\ DOMAIN line' = 1..(N + 1) /\ DOMAIN line = 1..N
      BY <1>3, <1>7, <2>2
    <3>2. 1..(N + 1) = (1..N) \cup {N + 1}
      OBVIOUS
    <3> QED
      BY <2>2, <3>1, <3>2
  <2> QED
    BY <2>1, <2>2
\* The shares as they will be, of every row.
<1> DEFINE G == [i \in DOMAIN line' |-> line'[i].share]
<1>9. PICK g : g = G
  OBVIOUS
<1>10. /\ \A x \in DOMAIN line' : g[x] = line'[x].share /\ g[x] \in Nat
       /\ \A S : Allocated(S)' = SumFunctionOnSet(g, S)
  <2>1. \A x \in DOMAIN line' : line'[x].share \in Nat
    BY <1>3, ShareTypes
  <2> QED
    BY <1>9, <2>1 DEF Allocated
<1> HIDE DEF G
\* The employee of the plan.
<1>11. ASSUME irregular[p.emp] \cap {"raced", "reopened"} = {}
       PROVE  /\ Cardinality(ActiveOf(p.emp)') <= MaxActive
              /\ SumFunctionOnSet(g, ActiveOf(p.emp)') <= MaxShare
              /\ "promoted" \notin irregular[p.emp] =>
                   Cardinality({i \in ActiveOf(p.emp)' : line'[i].primary}) <= 1
  <2>1. PICK S, f, P : S = ActiveAfter(p) /\ f = SharesAfter(p) /\ P = PrimariesAfter(p)
    OBVIOUS
  <2>2. /\ S \in SUBSET DOMAIN line /\ IsFiniteSet(S)
        /\ \A x \in DOMAIN line : f[x] = RowAfter(line, p, x).share /\ f[x] \in Nat
        /\ P \in SUBSET S
    BY <1>2, <1>3, <2>1, AfterFacts
  <2>3. /\ Cardinality(S) + Len(p.add) <= MaxActive
        /\ SumFunctionOnSet(f, S) + (IF p.add = <<>> THEN 0 ELSE p.add[1].share) <= MaxShare
        /\ "promoted" \notin irregular[p.emp] =>
             Cardinality(P) + (IF p.add # <<>> /\ p.add[1].primary THEN 1 ELSE 0) <= 1
    BY <1>5, <1>11, <2>1, FitsLimitsIs
  <2>4. PICK A, B : A = ActiveOf(p.emp)' /\ B = {i \in ActiveOf(p.emp)' : line'[i].primary}
    OBVIOUS
  <2>5. \A x \in DOMAIN line : x \in A <=> x \in S
    BY <1>3, <1>8, <2>1, <2>4 DEF ActiveOf, ActiveAfter, IsActive
  <2>6. \A x \in DOMAIN line : x \in B <=> x \in P
    BY <1>3, <2>1, <2>4, <2>5 DEF PrimariesAfter
  <2>7. A \subseteq DOMAIN line' /\ B \subseteq A
    BY <2>4 DEF ActiveOf
  <2>8. \A x \in S : g[x] = f[x] /\ f[x] \in Nat
    BY <1>3, <1>8, <1>10, <2>2
  <2>9. SumFunctionOnSet(g, S) = SumFunctionOnSet(f, S) /\ SumFunctionOnSet(f, S) \in Nat
    BY <2>2, <2>8, SumSame, SumType
  <2>10. IsFiniteSet(P) /\ Cardinality(P) \in Nat /\ Cardinality(S) \in Nat
    BY <2>2, PartFewer
  <2>11. CASE p.add = <<>>
    <3>1. A \in SUBSET S /\ B \in SUBSET P
      BY <1>8, <2>2, <2>5, <2>6, <2>7, <2>11
    <3>2. Cardinality(S) <= MaxActive /\ SumFunctionOnSet(f, S) <= MaxShare
          /\ ("promoted" \notin irregular[p.emp] => Cardinality(P) <= 1)
      BY <1>3, <2>3, <2>9, <2>10, <2>11
    <3>3. Cardinality(A) <= Cardinality(S) /\ Cardinality(A) \in Nat
      BY <2>2, <3>1, PartFewer
    <3>4. Cardinality(B) <= Cardinality(P) /\ Cardinality(B) \in Nat
      BY <2>10, <3>1, PartFewer
    <3>5. SumFunctionOnSet(g, A) <= SumFunctionOnSet(f, S) /\ SumFunctionOnSet(g, A) \in Nat
      <4>1. /\ \A x \in S : f[x] \in Nat
            /\ \A x \in A : g[x] = f[x]
        BY <2>8, <3>1
      <4> QED
        BY <2>2, <3>1, <4>1, PartLess
    <3>6. Cardinality(A) <= MaxActive
      BY <2>10, <3>2, <3>3 DEF MaxActive
    <3>7. SumFunctionOnSet(g, A) <= MaxShare
      BY <2>9, <3>2, <3>5 DEF MaxShare
    <3>8. "promoted" \notin irregular[p.emp] => Cardinality(B) <= 1
      BY <2>10, <3>2, <3>4
    <3> QED
      BY <2>4, <3>6, <3>7, <3>8
  <2>12. CASE p.add # <<>>
    <3>1. PICK q \in LineRows : q = p.add[1] /\ line'[N + 1] = q /\ Len(p.add) = 1
      BY <1>3, <1>7, <2>12
    <3>2. A \in SUBSET (S \cup {N + 1}) /\ N + 1 \notin S
      BY <1>8, <2>2, <2>5, <2>7, <2>12
    <3>3. N + 1 \in DOMAIN line' /\ g[N + 1] = q.share /\ q.share \in Nat
      BY <1>8, <1>10, <2>12, <3>1
    <3>4. /\ Cardinality(S) + 1 <= MaxActive
          /\ SumFunctionOnSet(f, S) + q.share <= MaxShare
          /\ "promoted" \notin irregular[p.emp] => Cardinality(P) + (IF q.primary THEN 1 ELSE 0) <= 1
      BY <2>3, <2>12, <3>1
    <3>5. IsFiniteSet(S \cup {N + 1}) /\ Cardinality(S \cup {N + 1}) = Cardinality(S) + 1
      BY <2>2, <3>2, FS_AddElement
    <3>6. Cardinality(A) <= Cardinality(S) + 1 /\ Cardinality(A) \in Nat
      BY <3>2, <3>5, PartFewer
    <3>7. Cardinality(A) <= MaxActive
      BY <2>10, <3>4, <3>6 DEF MaxActive
    <3>8. SumFunctionOnSet(g, S \cup {N + 1}) = SumFunctionOnSet(g, S) + g[N + 1]
      <4>1. IsFiniteSet(S) /\ \A x \in S : g[x] \in Nat
        BY <2>2, <2>8
      <4>2. N + 1 \notin S /\ g[N + 1] \in Nat
        BY <3>2, <3>3
      <4> QED
        BY <4>1, <4>2, SumAdd
    <3>9. SumFunctionOnSet(g, A) <= SumFunctionOnSet(g, S \cup {N + 1})
          /\ SumFunctionOnSet(g, A) \in Nat /\ SumFunctionOnSet(g, S \cup {N + 1}) \in Nat
      <4>1. \A x \in S \cup {N + 1} : g[x] \in Nat
        BY <2>8, <3>3
      <4> QED
        BY <3>2, <3>5, <4>1, PartLess
    <3>10. SumFunctionOnSet(g, A) <= MaxShare
      <4>1. PICK a \in Nat, b \in Nat, k \in Nat, d \in Nat :
              /\ a = SumFunctionOnSet(g, A) /\ b = SumFunctionOnSet(g, S \cup {N + 1})
              /\ k = q.share /\ d = SumFunctionOnSet(f, S)
        BY <2>9, <3>3, <3>9
      <4>2. a <= b /\ b = d + k /\ d + k <= MaxShare
        BY <2>9, <3>3, <3>4, <3>8, <3>9, <4>1
      <4>3. a <= MaxShare
        BY <4>1, <4>2 DEF MaxShare
      <4> QED
        BY <4>1, <4>3
    <3>11. ASSUME "promoted" \notin irregular[p.emp]
           PROVE  Cardinality(B) <= 1
      <4>1. N + 1 \notin P /\ B \in SUBSET (P \cup {N + 1})
        BY <1>8, <2>2, <2>6, <2>7, <2>12, <3>2
      <4>2. CASE q.primary
        <5>1. Cardinality(P \cup {N + 1}) = Cardinality(P) + 1 /\ IsFiniteSet(P \cup {N + 1})
          BY <2>10, <4>1, FS_AddElement
        <5>2. Cardinality(B) <= Cardinality(P) + 1 /\ Cardinality(B) \in Nat
          BY <4>1, <5>1, PartFewer
        <5> QED
          BY <2>10, <3>4, <3>11, <4>2, <5>2
      <4>3. CASE ~q.primary
        <5>1. N + 1 \notin B
          BY <2>4, <3>1, <4>3
        <5>2. B \in SUBSET P
          BY <4>1, <5>1
        <5>3. Cardinality(B) <= Cardinality(P) /\ Cardinality(B) \in Nat
          BY <2>10, <5>2, PartFewer
        <5> QED
          BY <2>10, <3>4, <3>11, <4>3, <5>3
      <4> QED
        BY <4>2, <4>3
    <3> QED
      BY <2>4, <3>7, <3>10, <3>11
  <2> QED
    BY <2>11, <2>12
\* The other employees.
<1>12. ASSUME NEW e \in Employees, e # p.emp
       PROVE  /\ ActiveOf(e)' = ActiveOf(e)
              /\ \A x \in ActiveOf(e) : line'[x] = line[x]
  <2>1. p.add # <<>> => line'[N + 1].emp = p.emp
    BY <1>3, <1>7
  <2>2. \A x \in DOMAIN line' : line'[x].emp = e => x \in DOMAIN line /\ line'[x] = line[x]
    <3> TAKE x \in DOMAIN line'
    <3>1. CASE x \in DOMAIN line
      BY <1>6, <1>12, <3>1
    <3>2. CASE x \notin DOMAIN line
      BY <1>8, <1>12, <2>1, <3>2
    <3> QED
      BY <3>1, <3>2
  <2>3. \A x \in DOMAIN line : line[x].emp = e => x \in DOMAIN line' /\ line'[x] = line[x]
    BY <1>6, <1>8, <1>12
  <2> QED
    BY <1>3, <2>2, <2>3 DEF ActiveOf, IsActive
<1>13. LimitsHold'
  <2> SUFFICES ASSUME NEW e \in Employees, irregular[e] \cap {"raced", "reopened"} = {}
               PROVE  /\ Cardinality(ActiveOf(e)') <= MaxActive
                      /\ SumFunctionOnSet(g, ActiveOf(e)') <= MaxShare
                      /\ "promoted" \notin irregular[e] => Cardinality({i \in ActiveOf(e)' : line'[i].primary}) <= 1
    <3>1. \A e \in Employees : Allocated(ActiveOf(e))' = SumFunctionOnSet(g, ActiveOf(e)')
      BY <1>9 DEF Allocated, G
    <3> QED
      BY <1>3, <3>1 DEF LimitsHold
  <2>1. CASE e = p.emp
    BY <1>11, <2>1
  <2>2. CASE e # p.emp
    <3>1. PICK S, f : S = ActiveOf(e) /\ f = Shares
      OBVIOUS
    <3>2. /\ S \in SUBSET DOMAIN line /\ IsFiniteSet(S)
          /\ \A x \in DOMAIN line : f[x] = line[x].share /\ f[x] \in Nat
          /\ Allocated(S) = SumFunctionOnSet(f, S)
      BY <1>2, <3>1, ActiveFacts
    <3>3. Cardinality(S) <= MaxActive /\ Allocated(S) <= MaxShare
          /\ ("promoted" \notin irregular[e] => Cardinality(Primaries(e)) <= 1)
      BY <1>2, <3>1, LimitsOf
    <3>4. ActiveOf(e)' = S /\ \A x \in S : line'[x] = line[x]
      BY <1>12, <2>2, <3>1
    <3>5. SumFunctionOnSet(g, S) = SumFunctionOnSet(f, S)
      <4>1. \A x \in S : f[x] \in Nat /\ g[x] = f[x]
        BY <1>8, <1>10, <3>2, <3>4
      <4> QED
        BY <3>2, <4>1, SumSame
    <3>6. {i \in S : line'[i].primary} = Primaries(e)
      BY <3>1, <3>4 DEF Primaries
    <3> QED
      BY <3>2, <3>3, <3>4, <3>5, <3>6
  <2> QED
    BY <2>1, <2>2
<1>14. ASSUME NEW t \in Sessions
       PROVE  (session[t].table = "line" => FitsLimits(session[t]))'
  <2>1. CASE t = s
    BY <1>4, <2>1 DEF Idle, NoPlan
  <2>2. CASE t # s /\ session[t].table = "line"
    <3>1. PICK q : q = session[t]
      OBVIOUS
    <3>2. q = session'[t] /\ FitsLimits(q) /\ LinePlan(q) /\ ~Idle(t)
      BY <1>2, <1>4, <2>2, <3>1, PlanEmployee DEF SLimits
    <3>3. CASE q.emp = p.emp
      <4>1. "raced" \in irregular[q.emp]
        BY <1>1, <1>2, <1>3, <2>2, <3>1, <3>2, <3>3 DEF SBase, Alone
      <4>2. FitsLimits(q)'
        BY <1>3, <4>1 DEF FitsLimits
      <4> QED
        BY <3>2, <4>2
    <3>4. CASE q.emp # p.emp
      <4>1. ASSUME NEW x \in DOMAIN line'
            PROVE  x \in ActiveAfter(q)' <=> x \in ActiveAfter(q)
        <5>1. CASE x \in DOMAIN line /\ line[x].emp = q.emp
          <6>1. line'[x] = line[x]
            BY <1>6, <3>4, <5>1
          <6> QED
            BY <1>3, <5>1, <6>1 DEF ActiveAfter, RowAfter, IsActive
        <5>2. CASE x \in DOMAIN line /\ line[x].emp # q.emp
          <6>1. x \notin DOMAIN q.set /\ line'[x].emp = line[x].emp
            BY <1>6, <3>2, <5>2 DEF LinePlan, PlanOf
          <6> QED
            BY <5>2, <6>1 DEF ActiveAfter, RowAfter
        <5>3. CASE x \notin DOMAIN line
          <6>1. x \notin DOMAIN q.set
            BY <3>2, <5>3 DEF LinePlan, PlanOf
          <6>2. line'[x].emp = p.emp
            BY <1>3, <1>7, <1>8, <5>3
          <6> QED
            BY <3>4, <5>3, <6>1, <6>2 DEF ActiveAfter, RowAfter
        <5> QED
          BY <5>1, <5>2, <5>3
      <4>2. ActiveAfter(q)' = ActiveAfter(q)
        <5>1. ActiveAfter(q)' \subseteq DOMAIN line' /\ ActiveAfter(q) \subseteq DOMAIN line'
          BY <1>8 DEF ActiveAfter
        <5> QED
          BY <4>1, <5>1
      <4>3. \A x \in ActiveAfter(q) : RowAfter(line, q, x)' = RowAfter(line, q, x) /\ x \in DOMAIN line
        <5> TAKE x \in ActiveAfter(q)
        <5>1. x \in DOMAIN line /\ RowAfter(line, q, x).emp = q.emp
          BY DEF ActiveAfter
        <5>2. line[x].emp = q.emp
          BY <1>2, <3>2, <5>1, RowAfterLine
        <5>3. line'[x] = line[x]
          BY <1>6, <3>4, <5>1, <5>2
        <5> QED
          BY <5>1, <5>3 DEF RowAfter
      <4>4. PICK S, f, h : S = ActiveAfter(q) /\ f = SharesAfter(q) /\ h = SharesAfter(q)'
        OBVIOUS
      <4>5. IsFiniteSet(S) /\ \A x \in DOMAIN line : f[x] = RowAfter(line, q, x).share /\ f[x] \in Nat
        BY <1>2, <3>2, <4>4, AfterFacts
      <4>6. \A x \in DOMAIN line : h[x] = RowAfter(line, q, x)'.share
        BY <1>8, <4>4 DEF SharesAfter
      <4>7. \A x \in S : f[x] \in Nat /\ h[x] = f[x]
        BY <4>3, <4>4, <4>5, <4>6
      <4>8. SumFunctionOnSet(h, S) = SumFunctionOnSet(f, S)
        BY <4>5, <4>7, SumSame
      <4>9. PrimariesAfter(q)' = PrimariesAfter(q)
        BY <4>2, <4>3 DEF PrimariesAfter
      <4>10. FitsLimits(q)' <=> (irregular'[q.emp] \cap {"raced", "reopened"} = {} =>
           /\ Cardinality(ActiveAfter(q)') + Len(q.add) <= MaxActive
           /\ SumFunctionOnSet(SharesAfter(q)', ActiveAfter(q)') + (IF q.add = <<>> THEN 0 ELSE q.add[1].share) <= MaxShare
           /\ "promoted" \notin irregular'[q.emp] =>
                Cardinality(PrimariesAfter(q)') + (IF q.add # <<>> /\ q.add[1].primary THEN 1 ELSE 0) <= 1)
        BY DEF FitsLimits, PrimariesAfter
      <4>11. FitsLimits(q)'
        BY <1>3, <3>2, <4>2, <4>4, <4>8, <4>9, <4>10, FitsLimitsIs
      <4> QED
        BY <3>2, <4>11
    <3> QED
      BY <3>3, <3>4
  <2>3. CASE t # s /\ session[t].table # "line"
    BY <1>4, <2>3
  <2> QED
    BY <2>1, <2>2, <2>3
<1> QED
  BY <1>4, <1>13, <1>14 DEF SLimits

LEMMA LimitsInductive == SLimits /\ [StaffingNext]_staffingVars => SLimits'
<1> SUFFICES ASSUME SLimits, [StaffingNext]_staffingVars PROVE SLimits'
  OBVIOUS
<1>1. SBase
  BY DEF SLimits
<1>2. ASSUME NEW s \in Sessions,
             \/ \E e \in Employees, c \in Clients, w \in Windows : AssignToClient(s, e, c, w[1], w[2])
             \/ \E i \in DOMAIN pool : Unassign(s, i)
             \/ \E r \in PoolRows : \/ AddPoolEntry(s, r)
                                    \/ \E i \in DOMAIN pool : pool[i].emp = r.emp /\ EditPoolEntry(s, i, r)
      PROVE  SLimits'
  <2>1. PICK p : \E marks \in SUBSET Marks : PoolPlan(p) /\ Left(s, p, marks) /\ p.table = "pool"
    BY <1>1, <1>2, PoolLeaves
  <2> QED
    BY <2>1, LimitsPlanLeft
<1>3. ASSUME NEW s \in Sessions, CommitPool(s) PROVE SLimits'
  <2>1. /\ SBase' /\ Idle(s)' /\ \A t \in Sessions \ {s} : session'[t] = session[t]
    BY <1>1, <1>3, CommitPoolBase
  <2>2. line' = line /\ today' = today /\ irregular' = irregular
    BY <1>3 DEF CommitPool
  <2>3. (session[s].table = "line" => FitsLimits(session[s]))'
    BY <2>1 DEF Idle, NoPlan
  <2> QED
    BY <2>1, <2>2, <2>3, LimitsStay
<1>4. ASSUME NEW s \in Sessions, Rollback(s) PROVE SLimits'
  <2>1. /\ SBase' /\ Idle(s)' /\ \A t \in Sessions \ {s} : session'[t] = session[t]
        /\ line' = line /\ today' = today /\ irregular' = irregular
    BY <1>1, <1>4, RollbackBase
  <2>3. (session[s].table = "line" => FitsLimits(session[s]))'
    BY <2>1 DEF Idle, NoPlan
  <2> QED
    BY <2>1, <2>3, LimitsStay
<1>5. CASE UNCHANGED <<line, trail, pool, today, session, irregular>>
  <2>1. SBase'
    BY <1>1, <1>5, StaysBase
  <2> QED
    BY <1>5, <2>1, LimitsStay
<1> QED
  BY <1>1, <1>2, <1>3, <1>4, <1>5, StaffingSteps, CreateFits, UpdateFits, EndFits, CommitFits, NewDayFits

\* For any assignments, updates and requests in flight, and as the days go by,
\* no employee the checks cover has more than two active lines, more than the
\* whole of the working time on them, or two that are primary
\* (validate_allocation and its callers).
THEOREM AlwaysLimitsHold == StaffingSpec => []LimitsHold
<1>1. StaffingInit => SLimits
  <2> SUFFICES ASSUME StaffingInit PROVE SLimits
    OBVIOUS
  <2>1. line = <<>> /\ session = [s \in Sessions |-> NoPlan]
    BY DEF StaffingInit
  <2>2. \A e \in Employees : ActiveOf(e) = {}
    BY <2>1 DEF ActiveOf
  <2>3. \A e \in Employees : Cardinality(ActiveOf(e)) = 0 /\ Cardinality({i \in ActiveOf(e) : line[i].primary}) = 0
    BY <2>2, FS_EmptySet
  <2>4. PICK f : f = Shares
    OBVIOUS
  <2>5. Allocated({}) = 0
    <3>1. SumFunctionOnSet(f, {}) = 0
      BY SumEmpty
    <3> QED
      BY <2>4, <3>1 DEF Allocated, Shares
  <2>6. LimitsHold
    BY <2>2, <2>3, <2>5 DEF LimitsHold, MaxActive, MaxShare
  <2> QED
    BY <2>1, <2>6, BaseInit DEF SLimits, NoPlan
<1>2. SLimits => LimitsHold
  BY DEF SLimits
<1> QED
  BY <1>1, <1>2, LimitsInductive, PTL DEF StaffingSpec
=============================================================================
