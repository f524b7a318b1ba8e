----------------------------- MODULE Simulation -----------------------------
(***************************************************************************)
(* The discrete-event simulation of production lines: every bundle of a    *)
(* product is a process that goes through the operations of its product,   *)
(* queues for a machine of each operation's tool, works its pieces, gives  *)
(* the machine back and moves on, while the metrics are counted.           *)
(*                                                                         *)
(* The durations are random numbers.  The model lets any process whose     *)
(* timeout is running go next, and the horizon be reached at any moment.   *)
(***************************************************************************)
EXTENDS Integers, Sequences, FiniteSets, FiniteSetsExt, SequencesExt

CONSTANTS
  Tools,       \* the machine tools
  Route,       \* of each product its operations: tool, operators, whether pieces are reworked
  Demand,      \* of each product: daily and weekly demand, share of the mix, bundle size
  MixDriven,   \* DemandMode.MIX_DRIVEN
  Total,       \* total_demand, with MixDriven
  HorizonDays, \* horizon_days
  WorkDays,    \* work days of a week
  BreakDowns   \* the tools with breakdown_pct > 0

Products == DOMAIN Demand

-----------------------------------------------------------------------------
\* The demand over the horizon, as a fraction: numerator and denominator.
Wanted(p) ==
  LET d == Demand[p] IN
    CASE MixDriven -> <<Total * d.mix * HorizonDays, 100>>
      [] ~MixDriven /\ d.daily # 0 -> <<d.daily * HorizonDays, 1>>
      [] OTHER -> <<d.weekly * HorizonDays, WorkDays>>

\* Mutant of BundlesNeeded: the last bundle, if it is not full, is left out.
FullBundles(p) ==
  IF Route[p] = <<>> THEN 0
  ELSE Wanted(p)[1] \div (Wanted(p)[2] * Demand[p].size)

\* math.ceil(total_demand / bundle_size); none without operations.
BundlesNeeded(p) ==
  IF Route[p] = <<>> THEN 0
  ELSE -((-Wanted(p)[1]) \div (Wanted(p)[2] * Demand[p].size))

Bundles == UNION {{p} \X (1..BundlesNeeded(p)) : p \in Products}
Size(b) == Demand[b[1]].size
Steps(b) == Route[b[1]]

\* The machines of a tool: the operators of all its operations, pooled.
Machines ==
  LET operators == [p \in Products |-> [i \in DOMAIN Route[p] |-> Route[p][i].operators]]
      using(p, t) == {i \in DOMAIN Route[p] : Route[p][i].tool = t}
  IN [t \in Tools |->
       SumFunctionOnSet([p \in Products |-> SumFunctionOnSet(operators[p], using(p, t))], Products)]

ASSUME HorizonAssumption ==
  Total \in Nat /\ HorizonDays \in Nat /\ WorkDays \in Nat \ {0} /\ MixDriven \in BOOLEAN
ASSUME DemandAssumption ==
  /\ IsFiniteSet(Products)
  /\ Demand \in [Products -> [daily : Nat, weekly : Nat, mix : Nat, size : Nat \ {0}]]
ASSUME RouteAssumption ==
  Route \in [Products -> Seq([tool : Tools, operators : Nat \ {0}, rework : BOOLEAN])]

VARIABLES
  bundle,   \* of each bundle: its operation, where it is in it, pieces worked there
  users,    \* of each tool the bundles that have a machine (simpy.Resource.users)
  queue,    \* of each tool the bundles that wait for one (simpy.Resource.queue)
  metrics,  \* SimulationMetrics: the counters of pieces and bundles
  running   \* env.run: the horizon has not been reached

simulationVars == <<bundle, users, queue, metrics, running>>

Places == {"delayed", "arriving", "asking", "broken", "working", "reworking", "leaving", "finished"}
Holding == {"broken", "working", "reworking"}

At(b) == bundle[b].at
Op(b) == Steps(b)[bundle[b].op]
Tool(b) == Op(b).tool

SimulationInit ==
  /\ bundle = [b \in Bundles |-> [op |-> 1, at |-> "delayed", piece |-> 0]]
  /\ users = [t \in Tools |-> {}]
  /\ queue = [t \in Tools |-> <<>>]
  /\ metrics = [wip |-> 0, max_wip |-> 0, completed |-> 0,
                in_system |-> [p \in Products |-> 0], throughput |-> [p \in Products |-> 0],
                pieces |-> [t \in Tools |-> 0]]
  /\ running = TRUE

Goes(b, place) == bundle' = [bundle EXCEPT ![b].at = place]

-----------------------------------------------------------------------------
\* _delayed_bundle_start and the head of _bundle_process.  The delays of the
\* bundles of one product increase.
StartBundle(b) ==
  /\ running /\ At(b) = "delayed"
  /\ b[2] > 1 => At(<<b[1], b[2] - 1>>) # "delayed"
  /\ Goes(b, "arriving")
  /\ LET wip == metrics.wip + Size(b) IN
       metrics' = [metrics EXCEPT !.wip = wip, !.max_wip = IF wip > @ THEN wip ELSE @,
                                  !.in_system[b[1]] = @ + 1]
  /\ UNCHANGED <<users, queue, running>>

\* Mutant of Served: a machine too many.
ServedBeyond(t) == Cardinality(users[t]) <= Machines[t]

\* A request is granted at once when a machine is free.
Served(t) == Cardinality(users[t]) < Machines[t]

\* After the transition time: self.resources[op.machine_tool].request().
Request(b) ==
  /\ running /\ At(b) = "arriving"
  /\ Goes(b, "asking")
  /\ IF Served(Tool(b))
     THEN users' = [users EXCEPT ![Tool(b)] = @ \cup {b}] /\ UNCHANGED queue
     ELSE queue' = [queue EXCEPT ![Tool(b)] = Append(@, b)] /\ UNCHANGED users
  /\ UNCHANGED <<metrics, running>>

\* yield request returns; _check_breakdown may say that the machine is down.
Begin(b) ==
  /\ running /\ At(b) = "asking" /\ b \in users[Tool(b)]
  /\ \/ Goes(b, "working")
     \/ Tool(b) \in BreakDowns /\ Goes(b, "broken")
  /\ UNCHANGED <<users, queue, metrics, running>>

Repaired(b) ==
  /\ running /\ At(b) = "broken"
  /\ Goes(b, "working")
  /\ UNCHANGED <<users, queue, metrics, running>>

\* The end of the with block gives the machine to the first that waits for it.
Released(b) ==
  LET t == Tool(b) IN
    IF queue[t] = <<>>
    THEN users' = [users EXCEPT ![t] = @ \ {b}] /\ UNCHANGED queue
    ELSE /\ users' = [users EXCEPT ![t] = (@ \ {b}) \cup {Head(queue[t])}]
         /\ queue' = [queue EXCEPT ![t] = Tail(@)]

\* Mutant of NextPiece: the machine is given back when the bundle has found
\* room at its next operation.
NextPieceHolding(b) ==
  IF bundle[b].piece + 1 < Size(b)
  THEN /\ bundle' = [bundle EXCEPT ![b].at = "working", ![b].piece = @ + 1]
       /\ UNCHANGED <<users, queue>>
  ELSE /\ bundle[b].op < Len(Steps(b)) => Served(Steps(b)[bundle[b].op + 1].tool)
       /\ bundle' = [bundle EXCEPT ![b].at = "leaving", ![b].piece = 0]
       /\ Released(b)

\* for piece_idx in range(bundle_size)
NextPiece(b) ==
  IF bundle[b].piece + 1 < Size(b)
  THEN /\ bundle' = [bundle EXCEPT ![b].at = "working", ![b].piece = @ + 1]
       /\ UNCHANGED <<users, queue>>
  ELSE /\ bundle' = [bundle EXCEPT ![b].at = "leaving", ![b].piece = 0]
       /\ Released(b)

\* The process time of a piece is over: it is counted, and may need rework.
Process(b) ==
  /\ running /\ At(b) = "working"
  /\ \/ NextPiece(b)
     \/ Op(b).rework /\ Goes(b, "reworking") /\ UNCHANGED <<users, queue>>
  /\ metrics' = [metrics EXCEPT !.pieces[Tool(b)] = @ + 1]
  /\ UNCHANGED running

\* Mutant of Rework: a reworked piece is counted again.
ReworkCounted(b) ==
  /\ running /\ At(b) = "reworking"
  /\ NextPiece(b)
  /\ metrics' = [metrics EXCEPT !.pieces[Tool(b)] = @ + 1]
  /\ UNCHANGED running

Rework(b) ==
  /\ running /\ At(b) = "reworking"
  /\ NextPiece(b)
  /\ UNCHANGED <<metrics, running>>

\* The transition time after an operation is over and there is another one.
Move(b) ==
  /\ running /\ At(b) = "leaving" /\ bundle[b].op < Len(Steps(b))
  /\ bundle' = [bundle EXCEPT ![b].at = "arriving", ![b].op = @ + 1]
  /\ UNCHANGED <<users, queue, metrics, running>>

\* The counters at the end of _bundle_process.
Completed(b) ==
  [metrics EXCEPT !.wip = @ - Size(b), !.completed = @ + 1,
                  !.throughput[b[1]] = @ + Size(b), !.in_system[b[1]] = @ - 1]

Finish(b) ==
  /\ running /\ At(b) = "leaving" /\ bundle[b].op = Len(Steps(b))
  /\ Goes(b, "finished")
  /\ metrics' = Completed(b)
  /\ UNCHANGED <<users, queue, running>>

\* env.run(until=horizon_minutes) returns.
Stop ==
  /\ running
  /\ running' = FALSE
  /\ UNCHANGED <<bundle, users, queue, metrics>>

Step(b) ==
  StartBundle(b) \/ Request(b) \/ Begin(b) \/ Repaired(b) \/ Process(b) \/ Rework(b) \/ Move(b) \/ Finish(b)

SimulationNext == Stop \/ \E b \in Bundles : Step(b)

SimulationSpec == SimulationInit /\ [][SimulationNext]_simulationVars

\* env.run goes on with the next event while there is one.
FairSimulationSpec == SimulationSpec /\ WF_simulationVars(\E b \in Bundles : Step(b))

-----------------------------------------------------------------------------
(* Properties.                                                             *)

InSystem == {b \in Bundles : At(b) \notin {"delayed", "finished"}}
Finished == {b \in Bundles : At(b) = "finished"}
OfProduct(S, p) == {b \in S : b[1] = p}

Pieces(S) == UNION {{b} \X (1..Size(b)) : b \in S}

\* Work in process is the pieces of the bundles on the floor, per product the
\* number of those bundles; what is finished is throughput; and the recorded
\* maximum was not missed.
WorkInProcess ==
  /\ metrics.wip = Cardinality(Pieces(InSystem))
  /\ metrics.wip <= metrics.max_wip
  /\ metrics.completed = Cardinality(Finished)
  /\ \A p \in Products :
       /\ metrics.in_system[p] = Cardinality(OfProduct(InSystem, p))
       /\ metrics.throughput[p] = Cardinality(Pieces(OfProduct(Finished, p)))

\* The pieces of bundle b that have been through its operation i.
Through(b, i) ==
  IF i < bundle[b].op \/ At(b) = "finished" THEN Size(b)
  ELSE IF i > bundle[b].op THEN 0
  ELSE CASE At(b) = "leaving" -> Size(b)
         [] At(b) = "reworking" -> bundle[b].piece + 1
         [] OTHER -> bundle[b].piece

Processed(t) ==
  UNION {UNION {{<<b, i>>} \X (1..Through(b, i)) :
                  i \in {j \in DOMAIN Steps(b) : Steps(b)[j].tool = t}} : b \in Bundles}

EveryPieceCounted ==
  \A t \in Tools : metrics.pieces[t] = Cardinality(Processed(t))

\* The counters agree with the floor at every moment, although each is raised
\* at one wait and lowered many waits later: work in process, throughput, and
\* every piece once at every operation, reworked or not, at that one's tool.
CountersAgree == WorkInProcess /\ EveryPieceCounted

\* Bundle b is not waiting: time alone brings it to its next step.
GoesOn(b) ==
  /\ At(b) = "asking" => b \in users[Tool(b)]
  /\ At(b) = "delayed" /\ b[2] > 1 => At(<<b[1], b[2] - 1>>) # "delayed"
  /\ At(b) # "finished"

SomebodyGoesOn == Finished # Bundles => \E b \in Bundles : GoesOn(b)

\* No more bundles are at the machines of a tool than it has, whoever works has
\* a machine, who waits for one has none and is not forgotten, and nobody has
\* two or one that is not of the tool of the operation: a bundle gives one back
\* before it asks again.  No machine stands idle while a bundle waits for one
\* of its tool; and as long as there are bundles to finish, one of them can go
\* on: they never all wait for each other.
MachinesShared ==
  /\ \A t \in Tools :
      /\ Cardinality(users[t]) <= Machines[t]
      /\ \A b \in users[t] : Tool(b) = t /\ At(b) \in Holding \cup {"asking"}
      /\ \A b \in Bundles : At(b) \in Holding /\ Tool(b) = t => b \in users[t]
      /\ \A b \in ToSet(queue[t]) : Tool(b) = t /\ At(b) = "asking" /\ b \notin users[t]
      /\ \A b \in Bundles : At(b) = "asking" /\ Tool(b) = t => b \in users[t] \cup ToSet(queue[t])
      /\ queue[t] # <<>> => Cardinality(users[t]) >= Machines[t]
  /\ SomebodyGoesOn

\* Given time, exactly the demand is made, up to the rest of a last bundle, and
\* nothing is left on the floor.
DemandMet ==
  (Finished = Bundles) =>
    /\ metrics.wip = 0
    /\ \A p \in Products : Route[p] # <<>> =>
         LET made == metrics.throughput[p] * Wanted(p)[2] IN
           Wanted(p)[1] <= made /\ made < Wanted(p)[1] + Demand[p].size * Wanted(p)[2]

\* Products whose routes use the same tools in opposite orders do not wait for
\* each other for ever: unless the horizon comes first, every bundle is finished.
Drains == <>(~running \/ Finished = Bundles)
=============================================================================
