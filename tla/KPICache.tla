------------------------------ MODULE KPICache ------------------------------
(***************************************************************************)
(* The in-memory cache of client configuration and KPI data.               *)
(*                                                                         *)
(* Each worker process has a cache of its own.  A request that misses      *)
(* fetches the data in its transaction and stores it in a later step:      *)
(* get_or_set holds the lock during get and during set, never between      *)
(* them.  update_client_config and delete_client_config remove the key     *)
(* after their commit, in the worker that runs them; nothing else does.    *)
(*                                                                         *)
(* The data of a key is represented by how often it has changed.  Ages are *)
(* counted in ticks.  A fetch that finds no row of a product or shift      *)
(* returns None, which the cache takes for a miss: such keys are left out. *)
(***************************************************************************)
EXTENDS Naturals, FiniteSets

CONSTANTS
  Workers,     \* processes that serve requests
  Clients,     \* keys "client_config:..."
  Others,      \* keys "product:", "shift:", "daily_summary:", "dashboard:"
  Sessions,    \* requests that can be in flight together
  TTL,         \* ttl_seconds of each key, in ticks
  MaxEntries,  \* max_entries
  MaxRequest,  \* how many ticks a request lasts at most
  MaxVersion,  \* bound: how often the data of a key changes
  MaxOld       \* bound: where counting the age of stale data stops

Keys == Clients \cup Others

ASSUME KeysAssumption == IsFiniteSet(Keys)
ASSUME TTLAssumption == TTL \in [Keys -> Nat \ {0}]
ASSUME RequestAssumption == MaxRequest \in Nat \ {0}
ASSUME BoundsAssumption ==
  /\ MaxEntries \in Nat /\ MaxVersion \in Nat /\ MaxOld \in Nat
  /\ \A k \in Keys : TTL[k] + MaxRequest < MaxOld

VARIABLES
  version,  \* how often the data of each key has changed
  rows,     \* the clients with a CLIENT_CONFIG row
  cache,    \* KPICache._cache of each worker
  session   \* what each request in flight has done

vars == <<version, rows, cache, session>>

\* left: ticks to the expiry; old: for how long the data has been superseded;
\* due: whether a change made in this worker owes the removal of the entry.
Entries == [version : 0..MaxVersion, left : Nat, old : 0..MaxOld, due : BOOLEAN]

Reading == {"begun", "missed", "fetched"}
Changed == {"updated", "deleted"}
Requests == [at : Reading \cup Changed \cup {"failed"}, worker : Workers, key : Keys,
             version : 0..MaxVersion, old : 0..MaxOld, age : 0..MaxRequest]
NoRequest == [at |-> "idle"]
Idle(s) == session[s] = NoRequest

\* now < expiry
Live(entry) == entry.left > 0

Holds(w, k) == k \in DOMAIN cache[w] /\ Live(cache[w][k])
Without(c, ks) == [k \in DOMAIN c \ ks |-> c[k]]
Older(n) == IF n < MaxOld THEN n + 1 ELSE n
Enter(s, request) == session' = [session EXCEPT ![s] = request]
Leave(s) == session' = [session EXCEPT ![s] = NoRequest]

-----------------------------------------------------------------------------
Init ==
  /\ version = [k \in Keys |-> 0]
  /\ rows \in SUBSET Clients
  /\ cache = [w \in Workers |-> [k \in {} |-> {}]]
  /\ session = [s \in Sessions |-> NoRequest]

(* Reading: get_or_set.                                                    *)

\* The transaction of a request sees the data as it is now, or later.
Begin(s, w, k) ==
  /\ Idle(s)
  /\ Enter(s, [at |-> "begun", worker |-> w, key |-> k,
               version |-> version[k], old |-> 0, age |-> 0])
  /\ UNCHANGED <<version, rows, cache>>

\* Mutant of Hit: a hit renews the expiry of the entry.
HitRenews(s) ==
  LET w == session[s].worker  k == session[s].key
  IN /\ session[s].at = "begun" /\ Holds(w, k)
     /\ cache' = [cache EXCEPT ![w][k].left = TTL[k]]
     /\ Leave(s)
     /\ UNCHANGED <<version, rows>>

\* get finds a value that has not expired.
Hit(s) ==
  /\ session[s].at = "begun" /\ Holds(session[s].worker, session[s].key)
  /\ Leave(s)
  /\ UNCHANGED <<version, rows, cache>>

\* get finds nothing, or an expired entry, which it removes.
Miss(s) ==
  LET w == session[s].worker  k == session[s].key
  IN /\ session[s].at = "begun" /\ ~Holds(w, k)
     /\ cache' = [cache EXCEPT ![w] = Without(@, {k})]
     /\ Enter(s, [session[s] EXCEPT !.at = "missed"])
     /\ UNCHANGED <<version, rows>>

\* The factory reads what its transaction sees: the data of its beginning
\* (REPEATABLE READ) or the present data (SQLite).
Fetch(s) ==
  /\ session[s].at = "missed"
  /\ \/ Enter(s, [session[s] EXCEPT !.at = "fetched"])
     \/ Enter(s, [session[s] EXCEPT !.at = "fetched", !.version = version[session[s].key], !.old = 0])
  /\ UNCHANGED <<version, rows, cache>>

\* Mutant of Room: the limit itself is let through.
RoomAboveLimit(c) ==
  IF Cardinality(DOMAIN c) > MaxEntries
  THEN Without(c, {k \in DOMAIN c : ~Live(c[k])}) ELSE c

\* What set leaves of a cache before it adds a key: at capacity, without the
\* entries that have expired.
Room(c) ==
  IF Cardinality(DOMAIN c) >= MaxEntries
  THEN Without(c, {k \in DOMAIN c : ~Live(c[k])}) ELSE c

\* set: the time to live counts from here.
Store(s) ==
  LET r == session[s]
      new == [version |-> r.version, left |-> TTL[r.key], old |-> r.old, due |-> FALSE]
  IN /\ r.at = "fetched"
     /\ cache' = [cache EXCEPT ![r.worker] =
                    [k \in DOMAIN Room(@) \cup {r.key} |-> IF k = r.key THEN new ELSE @[k]]]
     /\ Leave(s)
     /\ UNCHANGED <<version, rows>>

\* A request that fails before it stores anything.
Abort(s) ==
  /\ session[s].at \in Reading
  /\ Leave(s)
  /\ UNCHANGED <<version, rows, cache>>

(* Changing the data.                                                      *)

\* The data of key k changes; workers by owe the removal of what they hold.
Supersede(k, by) ==
  /\ version[k] < MaxVersion
  /\ version' = [version EXCEPT ![k] = @ + 1]
  /\ cache' = [w \in Workers |-> [x \in DOMAIN cache[w] |->
                 IF x = k /\ cache[w][x].version = version[k] /\ w \in by
                 THEN [cache[w][x] EXCEPT !.due = TRUE] ELSE cache[w][x]]]

\* create_client_config, and the workflow engine when a client has no row:
\* until then a client's configuration is the global defaults.
Create(c) ==
  /\ c \in Clients \ rows
  /\ Supersede(c, {})
  /\ rows' = rows \cup {c}
  /\ UNCHANGED session

\* Products, shifts and production entries change without a word to the cache.
Touch(k) ==
  /\ k \in Others
  /\ Supersede(k, {})
  /\ UNCHANGED <<rows, session>>

CommitUpdate(s, w, c) ==
  /\ Idle(s) /\ c \in rows
  /\ Supersede(c, {w})
  /\ Enter(s, [at |-> "updated", worker |-> w, key |-> c, version |-> 0, old |-> 0, age |-> 0])
  /\ UNCHANGED rows

CommitDelete(s, w, c) ==
  /\ Idle(s) /\ c \in rows
  /\ Supersede(c, {w})
  /\ rows' = rows \ {c}
  /\ Enter(s, [at |-> "deleted", worker |-> w, key |-> c, version |-> 0, old |-> 0, age |-> 0])

\* Mutant of Invalidate: the key is spelled differently.
InvalidateNothing(s) ==
  /\ session[s].at \in Changed
  /\ Leave(s)
  /\ UNCHANGED <<version, rows, cache>>

\* cache.delete(cache_key) after the commit.
Invalidate(s) ==
  /\ session[s].at \in Changed
  /\ cache' = [cache EXCEPT ![session[s].worker] = Without(@, {session[s].key})]
  /\ Leave(s)
  /\ UNCHANGED <<version, rows>>

\* db.refresh raises between the commit and the removal.
RefreshFails(s) ==
  /\ session[s].at = "updated"
  /\ Enter(s, [session[s] EXCEPT !.at = "failed"])
  /\ UNCHANGED <<version, rows, cache>>

-----------------------------------------------------------------------------
(* An admin, the operating system, and time.                               *)

\* POST /cache/clear and DELETE /cache/invalidate/{prefix}.
Drop(w, ks) ==
  /\ cache' = [cache EXCEPT ![w] = Without(@, ks)]
  /\ UNCHANGED <<version, rows, session>>

\* A worker dies with the requests it serves and is started again.
Restart(w) ==
  /\ cache' = [cache EXCEPT ![w] = Without(@, Keys)]
  /\ session' = [s \in Sessions |->
                   IF ~Idle(s) /\ session[s].worker = w THEN NoRequest ELSE session[s]]
  /\ UNCHANGED <<version, rows>>

\* No request that reads outlasts MaxRequest.
Tick ==
  /\ \A s \in Sessions : session[s].at \in Reading => session[s].age < MaxRequest
  /\ session' = [s \in Sessions |->
       IF session[s].at \in Reading
       THEN [session[s] EXCEPT !.age = @ + 1,
               !.old = IF session[s].version # version[session[s].key] THEN Older(@) ELSE @]
       ELSE session[s]]
  /\ cache' = [w \in Workers |-> [k \in DOMAIN cache[w] |->
       IF Live(cache[w][k])
       THEN [cache[w][k] EXCEPT !.left = @ - 1,
               !.old = IF cache[w][k].version # version[k] THEN Older(@) ELSE @]
       ELSE cache[w][k]]]
  /\ UNCHANGED <<version, rows>>

Proceed(s) == Hit(s) \/ Miss(s) \/ Fetch(s) \/ Store(s) \/ Invalidate(s)

Next ==
  \/ \E s \in Sessions, w \in Workers :
       \/ \E k \in Keys : Begin(s, w, k)
       \/ \E c \in Clients : CommitUpdate(s, w, c) \/ CommitDelete(s, w, c)
  \/ \E s \in Sessions : Proceed(s) \/ Abort(s) \/ RefreshFails(s)
  \/ \E c \in Clients : Create(c)
  \/ \E k \in Others : Touch(k)
  \/ \E w \in Workers : Restart(w) \/ \E ks \in {Keys, Clients, Others} : Drop(w, ks)
  \/ Tick

Spec == Init /\ [][Next]_vars

\* Time passes, and the threads of requests in flight run.
FairSpec == Spec /\ WF_vars(Tick) /\ \A s \in Sessions : WF_vars(Proceed(s))

-----------------------------------------------------------------------------
(* Properties.                                                             *)

\* Versions, entries and requests have their types.
TypeOK ==
  /\ version \in [Keys -> 0..MaxVersion] /\ rows \in SUBSET Clients
  /\ cache = [w \in Workers |-> cache[w]]
  /\ \A w \in Workers : DOMAIN cache[w] \subseteq Keys
                        /\ cache[w] \in [DOMAIN cache[w] -> Entries]
  /\ session \in [Sessions -> Requests \cup {NoRequest}]

\* Whatever is lost on the way - an invalidation that a late store undoes, one
\* that reaches one worker of several, none at all - no request is answered
\* with data that was superseded longer ago than the time to live of the key
\* and the duration of one request.
StaleForAtMost ==
  \A w \in Workers : \A k \in DOMAIN cache[w] :
    Live(cache[w][k]) => cache[w][k].old <= TTL[k] + MaxRequest

\* An entry that a change in its own worker superseded is gone when the
\* request that made the change ends, unless it ended with an error.
OwnChangesDropped ==
  \A w \in Workers : \A k \in DOMAIN cache[w] :
    cache[w][k].due =>
      \E s \in Sessions : /\ session[s].at \in Changed \cup {"failed"}
                          /\ session[s].worker = w /\ session[s].key = k

\* A cache grows beyond max_entries only when nothing in it has expired.
GrowsWithLiveOnly ==
  [][\A w \in Workers :
       /\ Cardinality(DOMAIN cache'[w]) > Cardinality(DOMAIN cache[w])
       /\ Cardinality(DOMAIN cache'[w]) > MaxEntries
       => \A k \in DOMAIN cache'[w] : Live(cache'[w][k])]_vars

\* When the data of a key changes no more, every worker ends up with answers
\* from the present data, with or without invalidations.
Converges ==
  \A k \in Keys : \A n \in 0..MaxVersion :
    <>[](version[k] = n) =>
      <>[](\A w \in Workers : Holds(w, k) => cache[w][k].version = n)
=============================================================================
