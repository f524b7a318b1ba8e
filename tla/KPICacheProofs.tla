--------------------------- MODULE KPICacheProofs ---------------------------
(***************************************************************************)
(* Theorems about KPICache for every set of workers, keys and requests,    *)
(* every time to live and every size of the cache.                         *)
(***************************************************************************)
EXTENDS KPICache, FiniteSetTheorems, TLAPS

\* A cache of one worker.
IsCache(c) == DOMAIN c \subseteq Keys /\ c \in [DOMAIN c -> Entries]

LEMMA TypeOKCaches ==
  TypeOK <=> /\ version \in [Keys -> 0..MaxVersion] /\ rows \in SUBSET Clients
             /\ cache = [w \in Workers |-> cache[w]]
             /\ \A w \in Workers : IsCache(cache[w])
             /\ session \in [Sessions -> Requests \cup {NoRequest}]
BY DEF TypeOK, IsCache

LEMMA WithoutIsCache ==
  ASSUME NEW c, IsCache(c), NEW ks
  PROVE  /\ IsCache(Without(c, ks)) /\ DOMAIN Without(c, ks) = DOMAIN c \ ks
         /\ \A k \in DOMAIN c \ ks : Without(c, ks)[k] = c[k]
BY DEF IsCache, Without

\* What set leaves of a cache is part of it, and at capacity is live.
LEMMA RoomIsCache ==
  ASSUME NEW c, IsCache(c)
  PROVE  /\ IsCache(Room(c)) /\ DOMAIN Room(c) \subseteq DOMAIN c
         /\ \A k \in DOMAIN Room(c) : Room(c)[k] = c[k]
         /\ Cardinality(DOMAIN c) >= MaxEntries => \A k \in DOMAIN Room(c) : Live(c[k])
<1> DEFINE expired == {k \in DOMAIN c : ~Live(c[k])}
<1>1. CASE Cardinality(DOMAIN c) >= MaxEntries
  <2>1. Room(c) = Without(c, expired)
    BY <1>1 DEF Room
  <2>2. /\ IsCache(Without(c, expired)) /\ DOMAIN Without(c, expired) = DOMAIN c \ expired
        /\ \A k \in DOMAIN c \ expired : Without(c, expired)[k] = c[k]
    BY WithoutIsCache
  <2> QED
    BY <2>1, <2>2
<1>2. CASE ~(Cardinality(DOMAIN c) >= MaxEntries)
  <2>1. Room(c) = c
    BY <1>2 DEF Room
  <2> QED
    BY <1>2, <2>1
<1> QED
  BY <1>1, <1>2

\* A request that is not idle has the fields of a request.
LEMMA SessionOf ==
  ASSUME TypeOK, NEW s \in Sessions, ~Idle(s)
  PROVE  session[s] \in Requests
BY DEF TypeOK, Idle

LEMMA IdleIsNot ==
  ASSUME NEW s \in Sessions, session[s].at \in Reading \cup Changed \cup {"failed"}
  PROVE  ~Idle(s)
BY DEF Idle, NoRequest, Reading, Changed

-----------------------------------------------------------------------------
(* What each kind of step does to caches and requests.                     *)

\* The caches are what they were but for the one of worker w.
OnlyCache(w, c) == cache' = [x \in Workers |-> IF x = w THEN c ELSE cache[x]]
\* Requests are what they were but for s.
OnlySession(s, r) == session' = [t \in Sessions |-> IF t = s THEN r ELSE session[t]]

LEMMA EnterIs ==
  ASSUME TypeOK, NEW s \in Sessions, NEW r, Enter(s, r)
  PROVE  OnlySession(s, r)
BY DEF TypeOK, Enter, OnlySession

LEMMA LeaveIs ==
  ASSUME TypeOK, NEW s \in Sessions, Leave(s)
  PROVE  OnlySession(s, NoRequest)
BY DEF TypeOK, Leave, OnlySession

LEMMA StoreIs ==
  ASSUME TypeOK, NEW s \in Sessions, Store(s)
  PROVE  LET r == session[s]
             c == cache[r.worker]
             new == [version |-> r.version, left |-> TTL[r.key], old |-> r.old, due |-> FALSE]
         IN /\ r \in Requests /\ r.at = "fetched" /\ IsCache(c)
            /\ new \in Entries
            /\ OnlyCache(r.worker, [k \in DOMAIN Room(c) \cup {r.key} |->
                                      IF k = r.key THEN new ELSE c[k]])
            /\ OnlySession(s, NoRequest)
            /\ UNCHANGED <<version, rows>>
<1> DEFINE r == session[s]
           c == cache[r.worker]
           new == [version |-> r.version, left |-> TTL[r.key], old |-> r.old, due |-> FALSE]
<1>1. r.at = "fetched" /\ r \in Requests
  BY SessionOf, IdleIsNot DEF Store, Reading
<1>2. r.worker \in Workers /\ r.key \in Keys /\ r.version \in 0..MaxVersion /\ r.old \in 0..MaxOld
  BY <1>1 DEF Requests
<1>3. IsCache(c)
  BY <1>2, TypeOKCaches
<1>4. new \in Entries
  BY <1>2, TTLAssumption DEF Entries
<1>5. OnlyCache(r.worker, [k \in DOMAIN Room(c) \cup {r.key} |-> IF k = r.key THEN new ELSE c[k]])
  BY <1>2 DEF Store, OnlyCache, TypeOK
<1>6. OnlySession(s, NoRequest)
  BY LeaveIs DEF Store
<1> QED
  BY <1>1, <1>3, <1>4, <1>5, <1>6 DEF Store

LEMMA MissIs ==
  ASSUME TypeOK, NEW s \in Sessions, Miss(s)
  PROVE  LET r == session[s]
         IN /\ r \in Requests /\ r.at = "begun" /\ IsCache(cache[r.worker])
            /\ OnlyCache(r.worker, Without(cache[r.worker], {r.key}))
            /\ OnlySession(s, [r EXCEPT !.at = "missed"])
            /\ UNCHANGED <<version, rows>>
<1>1. session[s].at = "begun" /\ session[s] \in Requests
  BY SessionOf, IdleIsNot DEF Miss, Reading
<1>2. session[s].worker \in Workers
  BY <1>1 DEF Requests
<1>3. OnlyCache(session[s].worker, Without(cache[session[s].worker], {session[s].key}))
  BY <1>2 DEF Miss, OnlyCache, TypeOK
<1> QED
  BY <1>1, <1>2, <1>3, EnterIs, TypeOKCaches DEF Miss

LEMMA FetchIs ==
  ASSUME TypeOK, NEW s \in Sessions, Fetch(s)
  PROVE  LET r == session[s]
         IN /\ r \in Requests /\ r.at = "missed"
            /\ \E v \in 0..MaxVersion, old \in {0, r.old} :
                 OnlySession(s, [r EXCEPT !.at = "fetched", !.version = v, !.old = old])
            /\ UNCHANGED <<version, rows, cache>>
<1> DEFINE r == session[s]
<1>1. r.at = "missed" /\ r \in Requests
  BY SessionOf, IdleIsNot DEF Fetch, Reading
<1>2. r.version \in 0..MaxVersion /\ r.key \in Keys /\ version[r.key] \in 0..MaxVersion
  BY <1>1 DEF Requests, TypeOK
<1>3. [r EXCEPT !.at = "fetched"] = [r EXCEPT !.at = "fetched", !.version = r.version, !.old = r.old]
  BY <1>1 DEF Requests
<1>4. CASE Enter(s, [r EXCEPT !.at = "fetched"])
  <2>1. OnlySession(s, [r EXCEPT !.at = "fetched", !.version = r.version, !.old = r.old])
    BY <1>3, <1>4, EnterIs
  <2> QED
    BY <1>1, <1>2, <2>1 DEF Fetch
<1>5. CASE Enter(s, [r EXCEPT !.at = "fetched", !.version = version[r.key], !.old = 0])
  <2>1. OnlySession(s, [r EXCEPT !.at = "fetched", !.version = version[r.key], !.old = 0])
    BY <1>5, EnterIs
  <2> QED
    BY <1>1, <1>2, <2>1 DEF Fetch
<1> QED
  BY <1>4, <1>5 DEF Fetch

LEMMA InvalidateIs ==
  ASSUME TypeOK, NEW s \in Sessions, Invalidate(s)
  PROVE  LET r == session[s]
         IN /\ r \in Requests /\ r.at \in Changed /\ IsCache(cache[r.worker])
            /\ OnlyCache(r.worker, Without(cache[r.worker], {r.key}))
            /\ OnlySession(s, NoRequest)
            /\ UNCHANGED <<version, rows>>
<1>1. session[s].at \in Changed /\ session[s] \in Requests
  BY SessionOf, IdleIsNot DEF Invalidate
<1>2. session[s].worker \in Workers
  BY <1>1 DEF Requests
<1>3. OnlyCache(session[s].worker, Without(cache[session[s].worker], {session[s].key}))
  BY <1>2 DEF Invalidate, OnlyCache, TypeOK
<1> QED
  BY <1>1, <1>2, <1>3, LeaveIs, TypeOKCaches DEF Invalidate

\* A change of data marks entries and leaves the rest of the caches alone.
LEMMA SupersedeIs ==
  ASSUME TypeOK, NEW k \in Keys, NEW by, Supersede(k, by)
  PROVE  /\ version' \in [Keys -> 0..MaxVersion]
         /\ cache' = [w \in Workers |-> cache'[w]]
         /\ \A w \in Workers : IsCache(cache'[w]) /\ DOMAIN cache'[w] = DOMAIN cache[w]
         /\ \A w \in Workers : \A x \in DOMAIN cache[w] :
              \/ cache'[w][x] = cache[w][x]
              \/ x = k /\ w \in by /\ cache'[w][x] = [cache[w][x] EXCEPT !.due = TRUE]
<1>1. version' \in [Keys -> 0..MaxVersion]
  BY BoundsAssumption DEF Supersede, TypeOK
<1> DEFINE marked(w, x) == IF x = k /\ cache[w][x].version = version[k] /\ w \in by
                           THEN [cache[w][x] EXCEPT !.due = TRUE] ELSE cache[w][x]
<1>2. cache' = [w \in Workers |-> [x \in DOMAIN cache[w] |-> marked(w, x)]]
  BY DEF Supersede
<1>3. ASSUME NEW w \in Workers, NEW x \in DOMAIN cache[w] PROVE marked(w, x) \in Entries
  <2>1. cache[w][x] \in Entries
    BY <1>3 DEF TypeOK
  <2> QED
    BY <2>1 DEF Entries
<1> HIDE DEF marked
<1>4. \A w \in Workers : /\ DOMAIN cache'[w] = DOMAIN cache[w]
                         /\ \A x \in DOMAIN cache[w] : cache'[w][x] = marked(w, x)
                         /\ cache'[w] = [x \in DOMAIN cache[w] |-> marked(w, x)]
  BY <1>2
<1>5. ASSUME NEW w \in Workers PROVE IsCache(cache'[w])
  <2>1. DOMAIN cache[w] \subseteq Keys
    BY DEF TypeOK
  <2>2. [x \in DOMAIN cache[w] |-> marked(w, x)] \in [DOMAIN cache[w] -> Entries]
    BY <1>3
  <2> QED
    BY <1>4, <2>1, <2>2 DEF IsCache
<1>6. cache' = [w \in Workers |-> cache'[w]]
  BY <1>2
<1> QED
  BY <1>1, <1>4, <1>5, <1>6 DEF marked

\* A change that owes nothing leaves the caches as they are.
LEMMA SupersededByNone ==
  ASSUME TypeOK, NEW k \in Keys, Supersede(k, {})
  PROVE  \A w \in Workers : DOMAIN cache'[w] = DOMAIN cache[w]
                             /\ \A x \in DOMAIN cache[w] : cache'[w][x] = cache[w][x]
<1>1. cache' = [w \in Workers |-> [x \in DOMAIN cache[w] |-> cache[w][x]]]
  BY DEF Supersede
<1> QED
  BY <1>1

\* A tick makes everything older.
AgedRequest(r) ==
  [r EXCEPT !.age = @ + 1,
            !.old = IF r.version # version[r.key] THEN Older(@) ELSE @]
AgedEntry(e, k) ==
  [e EXCEPT !.left = @ - 1,
            !.old = IF e.version # version[k] THEN Older(@) ELSE @]

LEMMA OlderIs ==
  ASSUME NEW n \in 0..MaxOld
  PROVE  Older(n) \in 0..MaxOld /\ Older(n) <= n + 1
BY BoundsAssumption DEF Older

LEMMA AgedEntryIs ==
  ASSUME NEW e \in Entries, NEW k, Live(e)
  PROVE  /\ AgedEntry(e, k) \in Entries
         /\ AgedEntry(e, k).left = e.left - 1 /\ AgedEntry(e, k).old <= e.old + 1
         /\ AgedEntry(e, k).due = e.due
<1> DEFINE old == IF e.version # version[k] THEN Older(e.old) ELSE e.old
<1>1. e.left \in Nat /\ e.left > 0 /\ e.old \in 0..MaxOld
  BY DEF Entries, Live
<1>2. old \in 0..MaxOld /\ old <= e.old + 1
  BY <1>1, OlderIs, BoundsAssumption
<1>3. AgedEntry(e, k) = [e EXCEPT !.left = e.left - 1, !.old = old]
  BY DEF AgedEntry
<1> HIDE DEF old
<1>4. AgedEntry(e, k) = [version |-> e.version, left |-> e.left - 1, old |-> old, due |-> e.due]
  BY <1>3 DEF Entries
<1>5. e.version \in 0..MaxVersion /\ e.left - 1 \in Nat /\ e.due \in BOOLEAN
  BY <1>1 DEF Entries
<1> QED
  BY <1>2, <1>4, <1>5 DEF Entries

LEMMA AgedRequestIs ==
  ASSUME NEW r \in Requests, r.age < MaxRequest
  PROVE  /\ AgedRequest(r) \in Requests
         /\ AgedRequest(r).age = r.age + 1 /\ AgedRequest(r).old <= r.old + 1
         /\ AgedRequest(r).at = r.at /\ AgedRequest(r).worker = r.worker
         /\ AgedRequest(r).key = r.key
<1> DEFINE old == IF r.version # version[r.key] THEN Older(r.old) ELSE r.old
<1>1. r.age \in 0..MaxRequest /\ r.old \in 0..MaxOld
  BY DEF Requests
<1>2. old \in 0..MaxOld /\ old <= r.old + 1
  BY <1>1, OlderIs, BoundsAssumption
<1>3. AgedRequest(r) = [r EXCEPT !.age = r.age + 1, !.old = old]
  BY DEF AgedRequest
<1> HIDE DEF old
<1>4. r.age + 1 \in 0..MaxRequest
  BY <1>1, RequestAssumption
<1> QED
  BY <1>2, <1>3, <1>4 DEF Requests

LEMMA TickIs ==
  ASSUME TypeOK, Tick
  PROVE  /\ UNCHANGED <<version, rows>>
         /\ session' = [s \in Sessions |-> session'[s]]
         /\ \A s \in Sessions :
              IF session[s].at \in Reading
              THEN /\ session[s] \in Requests /\ session[s].age < MaxRequest
                   /\ session'[s] = AgedRequest(session[s])
              ELSE session'[s] = session[s]
         /\ cache' = [w \in Workers |-> cache'[w]]
         /\ \A w \in Workers :
              /\ IsCache(cache'[w]) /\ DOMAIN cache'[w] = DOMAIN cache[w]
              /\ \A k \in DOMAIN cache[w] :
                   /\ cache[w][k] \in Entries
                   /\ cache'[w][k] = IF Live(cache[w][k]) THEN AgedEntry(cache[w][k], k)
                                     ELSE cache[w][k]
<1> DEFINE aged(w, k) == IF Live(cache[w][k]) THEN AgedEntry(cache[w][k], k) ELSE cache[w][k]
<1>1. /\ UNCHANGED <<version, rows>>
      /\ cache' = [w \in Workers |-> [k \in DOMAIN cache[w] |-> aged(w, k)]]
      /\ session' = [s \in Sessions |-> IF session[s].at \in Reading
                                        THEN AgedRequest(session[s]) ELSE session[s]]
  BY Zenon DEF Tick, AgedEntry, AgedRequest
<1>2. \A w \in Workers : \A k \in DOMAIN cache[w] : cache[w][k] \in Entries
  BY DEF TypeOK
<1>3. ASSUME NEW w \in Workers, NEW k \in DOMAIN cache[w] PROVE aged(w, k) \in Entries
  BY <1>2, AgedEntryIs
<1>4. ASSUME NEW s \in Sessions, session[s].at \in Reading
      PROVE  session[s] \in Requests /\ session[s].age < MaxRequest
  BY <1>4, SessionOf, IdleIsNot DEF Tick
<1> HIDE DEF aged
<1>5. \A w \in Workers : /\ DOMAIN cache'[w] = DOMAIN cache[w]
                         /\ \A k \in DOMAIN cache[w] : cache'[w][k] = aged(w, k)
                         /\ cache'[w] = [k \in DOMAIN cache[w] |-> aged(w, k)]
  BY <1>1
<1>6. ASSUME NEW w \in Workers PROVE IsCache(cache'[w])
  <2>1. DOMAIN cache[w] \subseteq Keys
    BY DEF TypeOK
  <2>2. [k \in DOMAIN cache[w] |-> aged(w, k)] \in [DOMAIN cache[w] -> Entries]
    BY <1>3
  <2> QED
    BY <1>5, <2>1, <2>2 DEF IsCache
<1>7. cache' = [w \in Workers |-> cache'[w]] /\ session' = [s \in Sessions |-> session'[s]]
  BY <1>1
<1>8. \A s \in Sessions : IF session[s].at \in Reading
                          THEN session'[s] = AgedRequest(session[s]) ELSE session'[s] = session[s]
  BY <1>1
<1> QED
  BY <1>1, <1>2, <1>4, <1>5, <1>6, <1>7, <1>8 DEF aged

-----------------------------------------------------------------------------
(* Type correctness.                                                       *)

LEMMA TypesFrom ==
  ASSUME TypeOK,
         version' \in [Keys -> 0..MaxVersion], rows' \in SUBSET Clients,
         cache' = [w \in Workers |-> cache'[w]], \A w \in Workers : IsCache(cache'[w]),
         session' \in [Sessions -> Requests \cup {NoRequest}]
  PROVE  TypeOK'
BY DEF TypeOK, IsCache

LEMMA OneCache ==
  ASSUME TypeOK, NEW w, NEW c, IsCache(c), OnlyCache(w, c)
  PROVE  cache' = [x \in Workers |-> cache'[x]] /\ \A x \in Workers : IsCache(cache'[x])
BY TypeOKCaches DEF OnlyCache

LEMMA OneSession ==
  ASSUME TypeOK, NEW s \in Sessions, NEW r \in Requests \cup {NoRequest}, OnlySession(s, r)
  PROVE  session' \in [Sessions -> Requests \cup {NoRequest}]
BY DEF TypeOK, OnlySession

\* Nothing changes but a request.
LEMMA RequestTypes ==
  ASSUME TypeOK, NEW s \in Sessions, NEW r \in Requests \cup {NoRequest},
         OnlySession(s, r), UNCHANGED <<version, rows, cache>>
  PROVE  TypeOK'
<1>1. session' \in [Sessions -> Requests \cup {NoRequest}]
  BY OneSession
<1> QED
  BY <1>1 DEF TypeOK

\* Nothing changes but a request and one cache.
LEMMA CacheTypes ==
  ASSUME TypeOK, NEW s \in Sessions, NEW r \in Requests \cup {NoRequest}, OnlySession(s, r),
         NEW w, NEW c, IsCache(c), OnlyCache(w, c), UNCHANGED <<version, rows>>
  PROVE  TypeOK'
<1>1. session' \in [Sessions -> Requests \cup {NoRequest}]
  BY OneSession
<1>2. cache' = [x \in Workers |-> cache'[x]] /\ \A x \in Workers : IsCache(cache'[x])
  BY OneCache
<1>3. version' \in [Keys -> 0..MaxVersion] /\ rows' \in SUBSET Clients
  BY DEF TypeOK
<1> QED
  BY <1>1, <1>2, <1>3, TypesFrom

\* A commit: the data changes, and the request owes an invalidation.
Committed(place, w, c) == [at |-> place, worker |-> w, key |-> c, version |-> 0, old |-> 0, age |-> 0]

LEMMA CommittedIsRequest ==
  ASSUME NEW place \in Changed, NEW w \in Workers, NEW c \in Clients
  PROVE  Committed(place, w, c) \in Requests
BY BoundsAssumption, RequestAssumption DEF Committed, Requests, Keys

LEMMA CommitIs ==
  ASSUME TypeOK, NEW s \in Sessions, NEW w \in Workers, NEW c \in Clients,
         CommitUpdate(s, w, c) \/ CommitDelete(s, w, c)
  PROVE  /\ Idle(s) /\ Supersede(c, {w}) /\ rows' \in SUBSET Clients
         /\ \E place \in Changed : OnlySession(s, Committed(place, w, c))
<1>1. Idle(s) /\ Supersede(c, {w})
  BY DEF CommitUpdate, CommitDelete
<1>2. rows' \in SUBSET Clients
  BY DEF CommitUpdate, CommitDelete, TypeOK
<1>3. Enter(s, Committed("updated", w, c)) \/ Enter(s, Committed("deleted", w, c))
  BY Zenon DEF CommitUpdate, CommitDelete, Committed
<1>4. \E place \in Changed : OnlySession(s, Committed(place, w, c))
  BY <1>3, EnterIs DEF Changed
<1> QED
  BY <1>1, <1>2, <1>4

LEMMA BeginIs ==
  ASSUME TypeOK, NEW s \in Sessions, NEW w \in Workers, NEW k \in Keys, Begin(s, w, k)
  PROVE  LET r == [at |-> "begun", worker |-> w, key |-> k,
                   version |-> version[k], old |-> 0, age |-> 0]
         IN Idle(s) /\ r \in Requests /\ OnlySession(s, r) /\ UNCHANGED <<version, rows, cache>>
<1> DEFINE r == [at |-> "begun", worker |-> w, key |-> k,
                 version |-> version[k], old |-> 0, age |-> 0]
<1>1. r \in Requests
  BY BoundsAssumption, RequestAssumption DEF Requests, Reading, TypeOK
<1>2. Enter(s, r)
  BY DEF Begin
<1> QED
  BY <1>1, <1>2, EnterIs DEF Begin

LEMMA DropIs ==
  ASSUME TypeOK, NEW w \in Workers, NEW ks, Drop(w, ks)
  PROVE  OnlyCache(w, Without(cache[w], ks)) /\ UNCHANGED <<version, rows, session>>
BY DEF Drop, OnlyCache, TypeOK

LEMMA RestartIs ==
  ASSUME TypeOK, NEW w \in Workers, Restart(w)
  PROVE  /\ OnlyCache(w, Without(cache[w], Keys)) /\ UNCHANGED <<version, rows>>
         /\ session' = [s \in Sessions |->
                          IF ~Idle(s) /\ session[s].worker = w THEN NoRequest ELSE session[s]]
         /\ session' \in [Sessions -> Requests \cup {NoRequest}]
BY DEF Restart, OnlyCache, TypeOK

\* A request that ends without touching a cache, or goes on after an error.
Ends(s) == Hit(s) \/ Abort(s)

LEMMA EndsIs ==
  ASSUME TypeOK, NEW s \in Sessions, Ends(s)
  PROVE  /\ session[s].at \in Reading /\ OnlySession(s, NoRequest)
         /\ UNCHANGED <<version, rows, cache>>
BY LeaveIs DEF Ends, Hit, Abort, Reading

LEMMA RefreshFailsIs ==
  ASSUME TypeOK, NEW s \in Sessions, RefreshFails(s)
  PROVE  LET r == [session[s] EXCEPT !.at = "failed"]
         IN /\ session[s].at = "updated" /\ session[s] \in Requests /\ r \in Requests
            /\ OnlySession(s, r) /\ UNCHANGED <<version, rows, cache>>
<1>1. session[s].at = "updated" /\ session[s] \in Requests
  BY SessionOf, IdleIsNot DEF RefreshFails, Changed
<1>2. [session[s] EXCEPT !.at = "failed"] \in Requests
  BY <1>1 DEF Requests
<1> QED
  BY <1>1, <1>2, EnterIs DEF RefreshFails

\* The steps of Next, as the proofs distinguish them.
LEMMA Steps ==
  ASSUME Next
  PROVE  \/ \E s \in Sessions, w \in Workers, k \in Keys : Begin(s, w, k)
         \/ \E s \in Sessions, w \in Workers, c \in Clients : CommitUpdate(s, w, c) \/ CommitDelete(s, w, c)
         \/ \E s \in Sessions : Ends(s)
         \/ \E s \in Sessions : Miss(s)
         \/ \E s \in Sessions : Fetch(s)
         \/ \E s \in Sessions : Store(s)
         \/ \E s \in Sessions : Invalidate(s)
         \/ \E s \in Sessions : RefreshFails(s)
         \/ \E c \in Clients : Create(c)
         \/ \E k \in Others : Touch(k)
         \/ \E w \in Workers : Restart(w)
         \/ \E w \in Workers, ks \in {Keys, Clients, Others} : Drop(w, ks)
         \/ Tick
BY Zenon DEF Next, Proceed, Ends

\* A change that no request reports.
Silent(k) == (k \in Clients /\ Create(k)) \/ (k \in Others /\ Touch(k))

LEMMA SilentIs ==
  ASSUME TypeOK, NEW k, Silent(k)
  PROVE  k \in Keys /\ Supersede(k, {}) /\ rows' \in SUBSET Clients /\ UNCHANGED session
BY DEF Silent, Create, Touch, Keys, TypeOK

LEMMA TypesInit == Init => TypeOK
<1> SUFFICES ASSUME Init PROVE TypeOK
  OBVIOUS
<1>1. version \in [Keys -> 0..MaxVersion] /\ rows \in SUBSET Clients
  BY BoundsAssumption DEF Init
<1>2. cache = [w \in Workers |-> cache[w]] /\ \A w \in Workers : IsCache(cache[w])
  BY DEF Init, IsCache
<1>3. session \in [Sessions -> Requests \cup {NoRequest}]
  BY DEF Init
<1> QED
  BY <1>1, <1>2, <1>3, TypeOKCaches

LEMMA TypesStep == TypeOK /\ [Next]_vars => TypeOK'
<1> SUFFICES ASSUME TypeOK, [Next]_vars PROVE TypeOK'
  OBVIOUS
<1>1. ASSUME NEW s \in Sessions, NEW w \in Workers, NEW k \in Keys, Begin(s, w, k) PROVE TypeOK'
  BY <1>1, BeginIs, RequestTypes
<1>2. ASSUME NEW s \in Sessions, NEW w \in Workers, NEW c \in Clients,
             CommitUpdate(s, w, c) \/ CommitDelete(s, w, c)
      PROVE  TypeOK'
  <2>1. PICK place \in Changed : OnlySession(s, Committed(place, w, c))
    BY <1>2, CommitIs
  <2>2. Supersede(c, {w}) /\ rows' \in SUBSET Clients /\ c \in Keys
    BY <1>2, CommitIs DEF Keys
  <2>3. session' \in [Sessions -> Requests \cup {NoRequest}]
    BY <2>1, CommittedIsRequest, OneSession
  <2> QED
    BY <2>2, <2>3, SupersedeIs, TypesFrom
<1>3. ASSUME NEW s \in Sessions, Ends(s) PROVE TypeOK'
  BY <1>3, EndsIs, RequestTypes
<1>4. ASSUME NEW s \in Sessions, Miss(s) PROVE TypeOK'
  <2>1. [session[s] EXCEPT !.at = "missed"] \in Requests
    BY <1>4, MissIs DEF Requests, Reading
  <2> QED
    BY <1>4, <2>1, MissIs, WithoutIsCache, CacheTypes
<1>5. ASSUME NEW s \in Sessions, Fetch(s) PROVE TypeOK'
  <2>1. PICK v \in 0..MaxVersion, old \in {0, session[s].old} :
          OnlySession(s, [session[s] EXCEPT !.at = "fetched", !.version = v, !.old = old])
    BY <1>5, FetchIs
  <2>2. session[s] \in Requests
    BY <1>5, FetchIs
  <2>3. old \in 0..MaxOld
    BY <2>2, BoundsAssumption DEF Requests
  <2>4. [session[s] EXCEPT !.at = "fetched", !.version = v, !.old = old] \in Requests
    BY <2>2, <2>3 DEF Requests, Reading
  <2> QED
    BY <1>5, <2>1, <2>4, FetchIs, RequestTypes
<1>6. ASSUME NEW s \in Sessions, Store(s) PROVE TypeOK'
  <2> DEFINE r == session[s]
             c == cache[r.worker]
             new == [version |-> r.version, left |-> TTL[r.key], old |-> r.old, due |-> FALSE]
             stored == [k \in DOMAIN Room(c) \cup {r.key} |-> IF k = r.key THEN new ELSE c[k]]
  <2>1. /\ r \in Requests /\ IsCache(c) /\ new \in Entries
        /\ OnlyCache(r.worker, stored) /\ OnlySession(s, NoRequest) /\ UNCHANGED <<version, rows>>
    BY <1>6, StoreIs
  <2>2. DOMAIN Room(c) \subseteq DOMAIN c /\ r.key \in Keys
    BY <2>1, RoomIsCache DEF Requests
  <2> HIDE DEF new
  <2>3. IsCache(stored)
    BY <2>1, <2>2 DEF IsCache
  <2> QED
    BY <2>1, <2>3, CacheTypes
<1>7. ASSUME NEW s \in Sessions, Invalidate(s) PROVE TypeOK'
  <2>1. IsCache(Without(cache[session[s].worker], {session[s].key}))
    BY <1>7, InvalidateIs, WithoutIsCache
  <2> QED
    BY <1>7, <2>1, InvalidateIs, CacheTypes
<1>8. ASSUME NEW s \in Sessions, RefreshFails(s) PROVE TypeOK'
  BY <1>8, RefreshFailsIs, RequestTypes
<1>9. ASSUME NEW k, Silent(k) PROVE TypeOK'
  <2>1. session' \in [Sessions -> Requests \cup {NoRequest}]
    BY <1>9, SilentIs DEF TypeOK
  <2> QED
    BY <1>9, <2>1, SilentIs, SupersedeIs, TypesFrom
<1>10. ASSUME NEW w \in Workers, Restart(w) PROVE TypeOK'
  <2>1. IsCache(Without(cache[w], Keys))
    BY TypeOKCaches, WithoutIsCache
  <2>2. cache' = [x \in Workers |-> cache'[x]] /\ \A x \in Workers : IsCache(cache'[x])
    BY <1>10, <2>1, RestartIs, OneCache
  <2>3. version' \in [Keys -> 0..MaxVersion] /\ rows' \in SUBSET Clients
    BY <1>10, RestartIs DEF TypeOK
  <2> QED
    BY <1>10, <2>2, <2>3, RestartIs, TypesFrom
<1>11. ASSUME NEW w \in Workers, NEW ks, Drop(w, ks) PROVE TypeOK'
  <2>1. IsCache(Without(cache[w], ks))
    BY TypeOKCaches, WithoutIsCache
  <2>2. cache' = [x \in Workers |-> cache'[x]] /\ \A x \in Workers : IsCache(cache'[x])
    BY <1>11, <2>1, DropIs, OneCache
  <2>3. /\ version' \in [Keys -> 0..MaxVersion] /\ rows' \in SUBSET Clients
        /\ session' \in [Sessions -> Requests \cup {NoRequest}]
    BY <1>11, DropIs DEF TypeOK
  <2> QED
    BY <2>2, <2>3, TypesFrom
<1>12. ASSUME Tick PROVE TypeOK'
  <2>1. \A s \in Sessions : session'[s] \in Requests \cup {NoRequest}
    BY <1>12, TickIs, AgedRequestIs DEF TypeOK
  <2>2. session' \in [Sessions -> Requests \cup {NoRequest}]
    BY <1>12, <2>1, TickIs
  <2>3. version' \in [Keys -> 0..MaxVersion] /\ rows' \in SUBSET Clients
    BY <1>12, TickIs DEF TypeOK
  <2> QED
    BY <1>12, <2>2, <2>3, TickIs, TypesFrom
<1>13. CASE UNCHANGED vars
  BY <1>13 DEF vars, TypeOK
<1> QED
  BY Steps, <1>1, <1>2, <1>3, <1>4, <1>5, <1>6, <1>7, <1>8, <1>9, <1>10, <1>11, <1>12, <1>13 DEF Silent

\* Versions, entries and requests keep their types.
THEOREM TypeCorrect == Spec => []TypeOK
BY TypesInit, TypesStep, PTL DEF Spec

-----------------------------------------------------------------------------
(* How old an answer can be: a fetch is at most as old as its request, and  *)
(* an entry at most as old as its fetch and the part of its time to live    *)
(* that has passed.                                                         *)

FreshEntry(e, k) == Live(e) => e.old + e.left <= TTL[k] + MaxRequest
FreshCache(c) == \A k \in DOMAIN c : FreshEntry(c[k], k)
YoungRequest(r) == r.at \in Reading => r.old <= r.age

FreshCaches == \A w \in Workers : FreshCache(cache[w])
YoungRequests == \A s \in Sessions : YoungRequest(session[s])
StaleInv == TypeOK /\ FreshCaches /\ YoungRequests

LEMMA WithoutIsFresh ==
  ASSUME NEW c, IsCache(c), FreshCache(c), NEW ks
  PROVE  FreshCache(Without(c, ks))
<1> SUFFICES ASSUME NEW k \in DOMAIN Without(c, ks) PROVE FreshEntry(Without(c, ks)[k], k)
  BY DEF FreshCache
<1>1. k \in DOMAIN c \ ks
  BY WithoutIsCache
<1>2. Without(c, ks)[k] = c[k]
  BY <1>1, WithoutIsCache
<1>3. FreshEntry(c[k], k)
  BY <1>1 DEF FreshCache
<1> QED
  BY <1>2, <1>3

LEMMA OneFresh ==
  ASSUME FreshCaches, NEW w, NEW c, FreshCache(c), OnlyCache(w, c)
  PROVE  FreshCaches'
BY DEF FreshCaches, OnlyCache, FreshCache, FreshEntry, Live

LEMMA OneYoung ==
  ASSUME YoungRequests, NEW s \in Sessions, NEW r, YoungRequest(r), OnlySession(s, r)
  PROVE  YoungRequests'
BY DEF YoungRequests, OnlySession, YoungRequest, Reading

LEMMA NoneIsYoung == YoungRequest(NoRequest)
BY DEF YoungRequest, NoRequest, Reading

LEMMA SupersededIsFresh ==
  ASSUME TypeOK, FreshCaches, NEW k \in Keys, NEW by, Supersede(k, by)
  PROVE  FreshCaches'
<1> SUFFICES ASSUME NEW w \in Workers, NEW x \in DOMAIN cache'[w]
             PROVE  FreshEntry(cache'[w][x], x)
  BY DEF FreshCaches, FreshCache, FreshEntry, Live
<1>1. x \in DOMAIN cache[w]
  BY SupersedeIs
<1>2. cache[w][x] \in Entries /\ FreshEntry(cache[w][x], x)
  BY <1>1 DEF TypeOK, FreshCaches, FreshCache
<1>3. \/ cache'[w][x] = cache[w][x]
      \/ cache'[w][x] = [cache[w][x] EXCEPT !.due = TRUE]
  BY <1>1, SupersedeIs
<1>4. cache'[w][x].old = cache[w][x].old /\ cache'[w][x].left = cache[w][x].left
  BY <1>2, <1>3 DEF Entries
<1> QED
  BY <1>2, <1>4 DEF FreshEntry, Live

LEMMA StaleStep == StaleInv /\ [Next]_vars => StaleInv'
<1> SUFFICES ASSUME StaleInv, [Next]_vars PROVE StaleInv'
  OBVIOUS
<1> USE DEF StaleInv
<1>0. TypeOK'
  BY TypesStep
<1> SUFFICES FreshCaches' /\ YoungRequests'
  BY <1>0
<1>1. ASSUME NEW s \in Sessions, NEW w \in Workers, NEW k \in Keys, Begin(s, w, k)
      PROVE  FreshCaches' /\ YoungRequests'
  <2> DEFINE r == [at |-> "begun", worker |-> w, key |-> k,
                   version |-> version[k], old |-> 0, age |-> 0]
  <2>1. OnlySession(s, r) /\ UNCHANGED cache
    BY <1>1, BeginIs
  <2>2. YoungRequest(r)
    BY DEF YoungRequest
  <2> QED
    BY <2>1, <2>2, OneYoung DEF FreshCaches, FreshCache, FreshEntry, Live
<1>2. ASSUME NEW s \in Sessions, NEW w \in Workers, NEW c \in Clients,
             CommitUpdate(s, w, c) \/ CommitDelete(s, w, c)
      PROVE  FreshCaches' /\ YoungRequests'
  <2>1. PICK place \in Changed : OnlySession(s, Committed(place, w, c))
    BY <1>2, CommitIs
  <2>2. YoungRequest(Committed(place, w, c))
    BY <2>1 DEF YoungRequest, Committed
  <2>3. Supersede(c, {w}) /\ c \in Keys
    BY <1>2, CommitIs DEF Keys
  <2> QED
    BY <2>1, <2>2, <2>3, SupersededIsFresh, OneYoung
<1>3. ASSUME NEW s \in Sessions, Ends(s) PROVE FreshCaches' /\ YoungRequests'
  <2>1. OnlySession(s, NoRequest) /\ UNCHANGED cache
    BY <1>3, EndsIs
  <2> QED
    BY <2>1, NoneIsYoung, OneYoung DEF FreshCaches, FreshCache, FreshEntry, Live
<1>4. ASSUME NEW s \in Sessions, Miss(s) PROVE FreshCaches' /\ YoungRequests'
  <2> DEFINE r == session[s]
  <2>1. /\ r \in Requests /\ r.at = "begun" /\ IsCache(cache[r.worker])
        /\ OnlyCache(r.worker, Without(cache[r.worker], {r.key}))
        /\ OnlySession(s, [r EXCEPT !.at = "missed"])
    BY <1>4, MissIs
  <2>2. r.worker \in Workers
    BY <2>1 DEF Requests
  <2>3. FreshCache(Without(cache[r.worker], {r.key}))
    BY <2>1, <2>2, WithoutIsFresh DEF FreshCaches
  <2>4. YoungRequest([r EXCEPT !.at = "missed"])
    BY <2>1 DEF YoungRequests, YoungRequest, Requests, Reading
  <2> QED
    BY <2>1, <2>3, <2>4, OneFresh, OneYoung
<1>5. ASSUME NEW s \in Sessions, Fetch(s) PROVE FreshCaches' /\ YoungRequests'
  <2> DEFINE r == session[s]
  <2>1. r \in Requests /\ r.at = "missed" /\ UNCHANGED cache
    BY <1>5, FetchIs
  <2>2. PICK v \in 0..MaxVersion, old \in {0, r.old} :
          OnlySession(s, [r EXCEPT !.at = "fetched", !.version = v, !.old = old])
    BY <1>5, FetchIs
  <2>3. r.old <= r.age /\ r.age \in 0..MaxRequest
    BY <2>1 DEF YoungRequests, YoungRequest, Reading, Requests
  <2>4. old <= r.age
    BY <2>3, RequestAssumption
  <2>5. YoungRequest([r EXCEPT !.at = "fetched", !.version = v, !.old = old])
    BY <2>1, <2>4 DEF YoungRequest, Requests
  <2> QED
    BY <2>1, <2>2, <2>5, OneYoung DEF FreshCaches, FreshCache, FreshEntry, Live
<1>6. ASSUME NEW s \in Sessions, Store(s) PROVE FreshCaches' /\ YoungRequests'
  <2> DEFINE r == session[s]
             c == cache[r.worker]
             new == [version |-> r.version, left |-> TTL[r.key], old |-> r.old, due |-> FALSE]
             stored == [k \in DOMAIN Room(c) \cup {r.key} |-> IF k = r.key THEN new ELSE c[k]]
  <2>1. /\ r \in Requests /\ r.at = "fetched" /\ IsCache(c)
        /\ OnlyCache(r.worker, stored) /\ OnlySession(s, NoRequest)
    BY <1>6, StoreIs
  <2>2. DOMAIN Room(c) \subseteq DOMAIN c
    BY <2>1, RoomIsCache
  <2>3. FreshCache(c)
    BY <2>1 DEF Requests, FreshCaches
  <2>4. r.old <= r.age /\ r.age \in 0..MaxRequest /\ r.old \in 0..MaxOld /\ TTL[r.key] \in Nat
    BY <2>1, TTLAssumption DEF YoungRequests, YoungRequest, Reading, Requests
  <2>5. FreshEntry(new, r.key)
    BY <2>4, RequestAssumption, BoundsAssumption DEF FreshEntry
  <2> HIDE DEF new
  <2>6. FreshCache(stored)
    BY <2>2, <2>3, <2>5 DEF FreshCache
  <2> QED
    BY <2>1, <2>6, NoneIsYoung, OneFresh, OneYoung
<1>7. ASSUME NEW s \in Sessions, Invalidate(s) PROVE FreshCaches' /\ YoungRequests'
  <2> DEFINE r == session[s]
  <2>1. /\ r \in Requests /\ IsCache(cache[r.worker])
        /\ OnlyCache(r.worker, Without(cache[r.worker], {r.key})) /\ OnlySession(s, NoRequest)
    BY <1>7, InvalidateIs
  <2>2. FreshCache(Without(cache[r.worker], {r.key}))
    BY <2>1, WithoutIsFresh DEF FreshCaches, Requests
  <2> QED
    BY <2>1, <2>2, NoneIsYoung, OneFresh, OneYoung
<1>8. ASSUME NEW s \in Sessions, RefreshFails(s) PROVE FreshCaches' /\ YoungRequests'
  <2>1. /\ session[s] \in Requests /\ UNCHANGED cache
        /\ OnlySession(s, [session[s] EXCEPT !.at = "failed"])
    BY <1>8, RefreshFailsIs
  <2>2. YoungRequest([session[s] EXCEPT !.at = "failed"])
    BY <2>1 DEF YoungRequest, Requests, Reading
  <2> QED
    BY <2>1, <2>2, OneYoung DEF FreshCaches, FreshCache, FreshEntry, Live
<1>9. ASSUME NEW k, Silent(k) PROVE FreshCaches' /\ YoungRequests'
  <2>1. k \in Keys /\ Supersede(k, {}) /\ UNCHANGED session
    BY <1>9, SilentIs
  <2> QED
    BY <2>1, SupersededIsFresh DEF YoungRequests, YoungRequest
<1>10. ASSUME NEW w \in Workers, Restart(w) PROVE FreshCaches' /\ YoungRequests'
  <2>1. FreshCache(Without(cache[w], Keys))
    BY WithoutIsFresh, TypeOKCaches DEF FreshCaches
  <2>2. \A s \in Sessions : session'[s] \in {NoRequest, session[s]}
    BY <1>10, RestartIs
  <2>3. YoungRequests'
    BY <2>2, NoneIsYoung DEF YoungRequests, YoungRequest
  <2> QED
    BY <1>10, <2>1, <2>3, RestartIs, OneFresh
<1>11. ASSUME NEW w \in Workers, NEW ks, Drop(w, ks) PROVE FreshCaches' /\ YoungRequests'
  <2>1. FreshCache(Without(cache[w], ks))
    BY WithoutIsFresh, TypeOKCaches DEF FreshCaches
  <2>2. YoungRequests'
    BY <1>11, DropIs DEF YoungRequests, YoungRequest
  <2> QED
    BY <1>11, <2>1, <2>2, DropIs, OneFresh
<1>12. ASSUME Tick PROVE FreshCaches' /\ YoungRequests'
  <2>1. ASSUME NEW w \in Workers, NEW k \in DOMAIN cache'[w] PROVE FreshEntry(cache'[w][k], k)
    <3>1. /\ k \in DOMAIN cache[w] /\ cache[w][k] \in Entries
          /\ cache'[w][k] = IF Live(cache[w][k]) THEN AgedEntry(cache[w][k], k) ELSE cache[w][k]
      BY <1>12, TickIs
    <3>2. FreshEntry(cache[w][k], k)
      BY <3>1 DEF FreshCaches, FreshCache
    <3>3. CASE Live(cache[w][k])
      <4> DEFINE e == cache[w][k]
                 aged == AgedEntry(e, k)
      <4>1. aged \in Entries /\ aged.left = e.left - 1 /\ aged.old <= e.old + 1
        BY <3>1, <3>3, AgedEntryIs
      <4>2. k \in Keys
        BY <3>1 DEF TypeOK
      <4>3. TTL[k] \in Nat /\ MaxRequest \in Nat /\ MaxOld \in Nat
        BY <4>2, TTLAssumption, RequestAssumption, BoundsAssumption
      <4>4. e.old + e.left <= TTL[k] + MaxRequest
        BY <3>2, <3>3 DEF FreshEntry
      <4> HIDE DEF aged
      <4>5. aged.old + aged.left <= TTL[k] + MaxRequest
        BY <3>1, <4>1, <4>3, <4>4 DEF Entries
      <4> QED
        BY <3>1, <3>3, <4>5 DEF FreshEntry, aged
    <3>4. CASE ~Live(cache[w][k])
      BY <3>1, <3>2, <3>4
    <3> QED
      BY <3>3, <3>4
  <2>2. ASSUME NEW s \in Sessions PROVE YoungRequest(session'[s])
    <3>1. CASE session[s].at \in Reading
      <4> DEFINE r == session[s]
                 aged == AgedRequest(r)
      <4>1. r \in Requests /\ r.age < MaxRequest /\ session'[s] = aged
        BY <1>12, <3>1, TickIs
      <4>2. aged \in Requests /\ aged.age = r.age + 1 /\ aged.old <= r.old + 1
        BY <4>1, AgedRequestIs
      <4>3. r.old <= r.age
        BY <3>1 DEF YoungRequests, YoungRequest
      <4> HIDE DEF aged
      <4>4. aged.old <= aged.age
        BY <4>1, <4>2, <4>3, BoundsAssumption, RequestAssumption DEF Requests
      <4> QED
        BY <4>1, <4>4 DEF YoungRequest
    <3>2. CASE session[s].at \notin Reading
      BY <1>12, <3>2, TickIs DEF YoungRequest
    <3> QED
      BY <3>1, <3>2
  <2> QED
    BY <2>1, <2>2 DEF FreshCaches, FreshCache, FreshEntry, Live, YoungRequests, YoungRequest, Reading
<1>13. CASE UNCHANGED vars
  BY <1>13 DEF vars, FreshCaches, FreshCache, FreshEntry, Live, YoungRequests, YoungRequest, Reading
<1> QED
  BY Steps, <1>1, <1>2, <1>3, <1>4, <1>5, <1>6, <1>7, <1>8, <1>9, <1>10, <1>11, <1>12, <1>13 DEF Silent

LEMMA StaleInit == Init => StaleInv
<1> SUFFICES ASSUME Init PROVE StaleInv
  OBVIOUS
<1>1. FreshCaches
  BY DEF Init, FreshCaches, FreshCache
<1>2. YoungRequests
  BY NoneIsYoung DEF Init, YoungRequests
<1> QED
  BY <1>1, <1>2, TypesInit DEF StaleInv

LEMMA StaleInvBounds == StaleInv => StaleForAtMost
<1> SUFFICES ASSUME StaleInv, NEW w \in Workers, NEW k \in DOMAIN cache[w], Live(cache[w][k])
             PROVE  cache[w][k].old <= TTL[k] + MaxRequest
  BY DEF StaleForAtMost
<1>1. FreshEntry(cache[w][k], k)
  BY DEF StaleInv, FreshCaches, FreshCache
<1>2. cache[w][k] \in Entries /\ k \in Keys
  BY DEF StaleInv, TypeOK
<1> QED
  BY <1>1, <1>2, TTLAssumption, RequestAssumption, BoundsAssumption DEF FreshEntry, Entries

\* No answer is older than the time to live of its key and one request, with
\* any number of workers, and however invalidations are lost.
THEOREM StaleIsBounded == Spec => []StaleForAtMost
BY StaleInit, StaleStep, StaleInvBounds, PTL DEF Spec

-----------------------------------------------------------------------------
(* What a change owes: an entry it marked in its own worker is there only  *)
(* as long as the request that made the change, or has failed.             *)

Owes(r, w, k) == r.at \in Changed \cup {"failed"} /\ r.worker = w /\ r.key = k

LEMMA OwnChangesAre ==
  OwnChangesDropped <=>
    \A w \in Workers : \A k \in DOMAIN cache[w] :
      cache[w][k].due => \E s \in Sessions : Owes(session[s], w, k)
BY DEF OwnChangesDropped, Owes

\* It is enough that marked entries were marked before, and that a request
\* that owes goes on owing unless the entry is gone.
LEMMA DropsOwn ==
  ASSUME OwnChangesDropped,
         \A w \in Workers : \A k \in DOMAIN cache'[w] :
           cache'[w][k].due =>
             \/ k \in DOMAIN cache[w] /\ cache[w][k].due
                /\ \A s \in Sessions : Owes(session[s], w, k) => Owes(session'[s], w, k)
             \/ \E s \in Sessions : Owes(session'[s], w, k)
  PROVE  OwnChangesDropped'
<1> SUFFICES ASSUME NEW w \in Workers, NEW k \in DOMAIN cache'[w], cache'[w][k].due
             PROVE  \E s \in Sessions : Owes(session'[s], w, k)
  BY DEF OwnChangesDropped, Owes
<1>1. CASE k \in DOMAIN cache[w] /\ cache[w][k].due
  BY <1>1, OwnChangesAre
<1> QED
  BY <1>1

LEMMA StaysDropped ==
  ASSUME OwnChangesDropped,
         \A w \in Workers : \A k \in DOMAIN cache'[w] :
           cache'[w][k].due => k \in DOMAIN cache[w] /\ cache[w][k].due,
         \A s \in Sessions, w \in Workers, k \in Keys :
           Owes(session[s], w, k) => Owes(session'[s], w, k),
         \A w \in Workers : DOMAIN cache'[w] \subseteq Keys
  PROVE  OwnChangesDropped'
BY DropsOwn

LEMMA OwesOn ==
  ASSUME TypeOK, NEW s \in Sessions, NEW r, OnlySession(s, r),
         \A w \in Workers, k \in Keys : Owes(session[s], w, k) => Owes(r, w, k)
  PROVE  \A t \in Sessions, w \in Workers, k \in Keys :
           Owes(session[t], w, k) => Owes(session'[t], w, k)
BY DEF OnlySession

LEMMA IdleOwesNothing ==
  ASSUME NEW s \in Sessions, Idle(s) \/ session[s].at \in Reading, NEW w, NEW k
  PROVE  ~Owes(session[s], w, k)
BY DEF Idle, NoRequest, Owes, Changed, Reading

LEMMA WithoutKeepsDue ==
  ASSUME TypeOK, NEW w \in Workers, NEW ks, OnlyCache(w, Without(cache[w], ks))
  PROVE  \A x \in Workers : \A k \in DOMAIN cache'[x] :
           /\ k \in DOMAIN cache[x] /\ cache'[x][k] = cache[x][k]
           /\ x = w => k \notin ks
<1>1. /\ DOMAIN Without(cache[w], ks) = DOMAIN cache[w] \ ks
      /\ \A k \in DOMAIN cache[w] \ ks : Without(cache[w], ks)[k] = cache[w][k]
  BY TypeOKCaches, WithoutIsCache
<1> QED
  BY <1>1 DEF OnlyCache

LEMMA DroppedStep == TypeOK /\ OwnChangesDropped /\ [Next]_vars => OwnChangesDropped'
<1> SUFFICES ASSUME TypeOK, OwnChangesDropped, [Next]_vars PROVE OwnChangesDropped'
  OBVIOUS
<1>0. \A w \in Workers : DOMAIN cache'[w] \subseteq Keys
  BY TypesStep DEF TypeOK
<1>1. ASSUME NEW s \in Sessions, NEW w \in Workers, NEW k \in Keys, Begin(s, w, k)
      PROVE  OwnChangesDropped'
  <2> DEFINE r == [at |-> "begun", worker |-> w, key |-> k,
                   version |-> version[k], old |-> 0, age |-> 0]
  <2>1. OnlySession(s, r) /\ Idle(s) /\ UNCHANGED cache
    BY <1>1, BeginIs
  <2> HIDE DEF r
  <2> QED
    BY <1>0, <2>1, IdleOwesNothing, OwesOn, StaysDropped
<1>2. ASSUME NEW s \in Sessions, NEW w \in Workers, NEW c \in Clients,
             CommitUpdate(s, w, c) \/ CommitDelete(s, w, c)
      PROVE  OwnChangesDropped'
  <2>1. PICK place \in Changed : OnlySession(s, Committed(place, w, c))
    BY <1>2, CommitIs
  <2>2. Supersede(c, {w}) /\ c \in Keys /\ Idle(s)
    BY <1>2, CommitIs DEF Keys
  <2>3. \A t \in Sessions, x \in Workers, k \in Keys : Owes(session[t], x, k) => Owes(session'[t], x, k)
    BY <2>1, <2>2, IdleOwesNothing, OwesOn
  <2>4. Owes(session'[s], w, c)
    BY <2>1 DEF OnlySession, Owes, Committed
  <2>5. ASSUME NEW x \in Workers, NEW k \in DOMAIN cache'[x], cache'[x][k].due
        PROVE  \/ k \in DOMAIN cache[x] /\ cache[x][k].due
               \/ x = w /\ k = c
    <3>1. k \in DOMAIN cache[x]
      BY <2>2, SupersedeIs
    <3>2. \/ cache'[x][k] = cache[x][k]
          \/ k = c /\ x \in {w} /\ cache'[x][k] = [cache[x][k] EXCEPT !.due = TRUE]
      BY <2>2, <3>1, SupersedeIs
    <3> QED
      BY <2>5, <3>1, <3>2
  <2> QED
    BY <1>0, <2>3, <2>4, <2>5, DropsOwn
<1>3. ASSUME NEW s \in Sessions, Ends(s) PROVE OwnChangesDropped'
  BY <1>0, <1>3, EndsIs, IdleOwesNothing, OwesOn, StaysDropped
<1>4. ASSUME NEW s \in Sessions, Miss(s) PROVE OwnChangesDropped'
  <2> DEFINE r == session[s]
  <2>1. /\ r \in Requests /\ r.at = "begun"
        /\ OnlyCache(r.worker, Without(cache[r.worker], {r.key}))
        /\ OnlySession(s, [r EXCEPT !.at = "missed"])
    BY <1>4, MissIs
  <2>2. r.worker \in Workers /\ r.at \in Reading
    BY <2>1 DEF Requests, Reading
  <2>3. \A t \in Sessions, x \in Workers, k \in Keys : Owes(session[t], x, k) => Owes(session'[t], x, k)
    BY <2>1, <2>2, IdleOwesNothing, OwesOn
  <2>4. \A x \in Workers : \A k \in DOMAIN cache'[x] : k \in DOMAIN cache[x] /\ cache'[x][k] = cache[x][k]
    BY <2>1, <2>2, WithoutKeepsDue
  <2> QED
    BY <1>0, <2>3, <2>4, StaysDropped
<1>5. ASSUME NEW s \in Sessions, Fetch(s) PROVE OwnChangesDropped'
  <2>1. session[s].at \in Reading /\ UNCHANGED cache
    BY <1>5, FetchIs DEF Reading
  <2>2. PICK r : OnlySession(s, r)
    BY <1>5, FetchIs
  <2> QED
    BY <1>0, <2>1, <2>2, IdleOwesNothing, OwesOn, StaysDropped
<1>6. ASSUME NEW s \in Sessions, Store(s) PROVE OwnChangesDropped'
  <2> DEFINE r == session[s]
             c == cache[r.worker]
             new == [version |-> r.version, left |-> TTL[r.key], old |-> r.old, due |-> FALSE]
             stored == [k \in DOMAIN Room(c) \cup {r.key} |-> IF k = r.key THEN new ELSE c[k]]
  <2>1. /\ r \in Requests /\ r.at = "fetched" /\ IsCache(c)
        /\ OnlyCache(r.worker, stored) /\ OnlySession(s, NoRequest)
    BY <1>6, StoreIs
  <2>2. DOMAIN Room(c) \subseteq DOMAIN c /\ r.at \in Reading
    BY <2>1, RoomIsCache DEF Reading
  <2>3. \A t \in Sessions, x \in Workers, k \in Keys : Owes(session[t], x, k) => Owes(session'[t], x, k)
    BY <2>1, <2>2, IdleOwesNothing, OwesOn
  <2>4. new.due = FALSE
    OBVIOUS
  <2> HIDE DEF new
  <2>5. \A k \in DOMAIN stored : stored[k].due => k \in DOMAIN c /\ c[k].due
    BY <2>2, <2>4
  <2> HIDE DEF stored
  <2>6. \A x \in Workers : \A k \in DOMAIN cache'[x] :
          cache'[x][k].due => k \in DOMAIN cache[x] /\ cache[x][k].due
    BY <2>1, <2>5 DEF OnlyCache
  <2> QED
    BY <1>0, <2>3, <2>6, StaysDropped
<1>7. ASSUME NEW s \in Sessions, Invalidate(s) PROVE OwnChangesDropped'
  <2> DEFINE r == session[s]
  <2>1. /\ r \in Requests /\ OnlySession(s, NoRequest)
        /\ OnlyCache(r.worker, Without(cache[r.worker], {r.key}))
    BY <1>7, InvalidateIs
  <2>2. r.worker \in Workers
    BY <2>1 DEF Requests
  <2>3. \A x \in Workers : \A k \in DOMAIN cache'[x] :
          /\ k \in DOMAIN cache[x] /\ cache'[x][k] = cache[x][k] /\ (x = r.worker => k # r.key)
    BY <2>1, <2>2, WithoutKeepsDue
  <2>4. ASSUME NEW x \in Workers, NEW k, x = r.worker => k # r.key, NEW t \in Sessions,
               Owes(session[t], x, k)
        PROVE  Owes(session'[t], x, k)
    BY <2>1, <2>4 DEF OnlySession, Owes
  <2> QED
    BY <2>3, <2>4, DropsOwn
<1>8. ASSUME NEW s \in Sessions, RefreshFails(s) PROVE OwnChangesDropped'
  <2> DEFINE r == [session[s] EXCEPT !.at = "failed"]
  <2>1. session[s] \in Requests /\ OnlySession(s, r) /\ UNCHANGED cache
    BY <1>8, RefreshFailsIs
  <2>2. \A w \in Workers, k \in Keys : Owes(session[s], w, k) => Owes(r, w, k)
    BY <2>1 DEF Owes, Requests
  <2> HIDE DEF r
  <2> QED
    BY <1>0, <2>1, <2>2, OwesOn, StaysDropped
<1>9. ASSUME NEW k, Silent(k) PROVE OwnChangesDropped'
  <2>1. k \in Keys /\ Supersede(k, {}) /\ UNCHANGED session
    BY <1>9, SilentIs
  <2>2. \A w \in Workers : DOMAIN cache'[w] = DOMAIN cache[w]
                            /\ \A x \in DOMAIN cache[w] : cache'[w][x] = cache[w][x]
    BY <2>1, SupersededByNone
  <2> QED
    BY <1>0, <2>1, <2>2, StaysDropped
<1>10. ASSUME NEW w \in Workers, Restart(w) PROVE OwnChangesDropped'
  <2>1. \A x \in Workers : \A k \in DOMAIN cache'[x] :
          /\ k \in DOMAIN cache[x] /\ cache'[x][k] = cache[x][k] /\ (x = w => k \notin Keys)
    BY <1>10, RestartIs, WithoutKeepsDue
  <2>2. ASSUME NEW x \in Workers, x # w, NEW k, NEW t \in Sessions, Owes(session[t], x, k)
        PROVE  Owes(session'[t], x, k)
    BY <1>10, <2>2, RestartIs DEF Owes
  <2> QED
    BY <1>0, <2>1, <2>2, DropsOwn
<1>11. ASSUME NEW w \in Workers, NEW ks, Drop(w, ks) PROVE OwnChangesDropped'
  <2>1. \A x \in Workers : \A k \in DOMAIN cache'[x] : k \in DOMAIN cache[x] /\ cache'[x][k] = cache[x][k]
    BY <1>11, DropIs, WithoutKeepsDue
  <2>2. UNCHANGED session
    BY <1>11, DropIs
  <2> QED
    BY <1>0, <2>1, <2>2, StaysDropped
<1>12. ASSUME Tick PROVE OwnChangesDropped'
  <2>1. ASSUME NEW w \in Workers, NEW k \in DOMAIN cache'[w], cache'[w][k].due
        PROVE  k \in DOMAIN cache[w] /\ cache[w][k].due
    BY <1>12, <2>1, TickIs, AgedEntryIs
  <2>2. ASSUME NEW s \in Sessions, NEW w \in Workers, NEW k \in Keys, Owes(session[s], w, k)
        PROVE  Owes(session'[s], w, k)
    <3>1. CASE session[s].at \in Reading
      BY <2>2, <3>1, IdleOwesNothing
    <3>2. CASE session[s].at \notin Reading
      BY <1>12, <2>2, <3>2, TickIs
    <3> QED
      BY <3>1, <3>2
  <2> QED
    BY <1>0, <2>1, <2>2, StaysDropped
<1>13. CASE UNCHANGED vars
  BY <1>13 DEF vars, OwnChangesDropped
<1> QED
  BY Steps, <1>1, <1>2, <1>3, <1>4, <1>5, <1>6, <1>7, <1>8, <1>9, <1>10, <1>11, <1>12, <1>13 DEF Silent

\* After a change and the end of its request, the worker that served it holds
\* no older entry of the key, with any number of workers and requests.
THEOREM OwnChangesAlwaysDropped == Spec => []OwnChangesDropped
<1>1. Init => OwnChangesDropped
  BY DEF Init, OwnChangesDropped
<1>2. TypeOK /\ OwnChangesDropped /\ [Next]_vars => (TypeOK /\ OwnChangesDropped)'
  BY TypesStep, DroppedStep
<1> QED
  BY <1>1, <1>2, TypesInit, PTL DEF Spec

-----------------------------------------------------------------------------
(* The size of a cache: only set adds a key, and at capacity it first      *)
(* removes what has expired.                                               *)

Shrinks == \A w \in Workers : DOMAIN cache'[w] \subseteq DOMAIN cache[w]

LEMMA OnlyStoreGrows ==
  TypeOK /\ [Next]_vars => Shrinks \/ \E s \in Sessions : Store(s)
<1> SUFFICES ASSUME TypeOK, [Next]_vars, ~(\E s \in Sessions : Store(s)) PROVE Shrinks
  OBVIOUS
<1>1. ASSUME NEW k \in Keys, NEW by, Supersede(k, by) PROVE Shrinks
  BY <1>1, SupersedeIs DEF Shrinks
<1>2. ASSUME NEW w \in Workers, NEW ks, OnlyCache(w, Without(cache[w], ks)) PROVE Shrinks
  BY <1>2, WithoutKeepsDue DEF Shrinks
<1>3. ASSUME UNCHANGED cache PROVE Shrinks
  BY <1>3 DEF Shrinks
<1>4. ASSUME NEW s \in Sessions, NEW w \in Workers, NEW k \in Keys, Begin(s, w, k) PROVE Shrinks
  BY <1>3, <1>4, BeginIs
<1>5. ASSUME NEW s \in Sessions, NEW w \in Workers, NEW c \in Clients,
             CommitUpdate(s, w, c) \/ CommitDelete(s, w, c)
      PROVE  Shrinks
  BY <1>1, <1>5, CommitIs DEF Keys
<1>6. ASSUME NEW s \in Sessions, Ends(s) \/ Fetch(s) \/ RefreshFails(s) PROVE Shrinks
  BY <1>3, <1>6, EndsIs, FetchIs, RefreshFailsIs
<1>7. ASSUME NEW s \in Sessions, Miss(s) \/ Invalidate(s) PROVE Shrinks
  <2> DEFINE r == session[s]
  <2>1. r \in Requests /\ OnlyCache(r.worker, Without(cache[r.worker], {r.key}))
    BY <1>7, MissIs, InvalidateIs
  <2> QED
    BY <1>2, <2>1 DEF Requests
<1>8. ASSUME NEW k, Silent(k) PROVE Shrinks
  BY <1>1, <1>8, SilentIs
<1>9. ASSUME NEW w \in Workers, Restart(w) PROVE Shrinks
  BY <1>2, <1>9, RestartIs
<1>10. ASSUME NEW w \in Workers, NEW ks, Drop(w, ks) PROVE Shrinks
  BY <1>2, <1>10, DropIs
<1>11. ASSUME Tick PROVE Shrinks
  BY <1>11, TickIs DEF Shrinks
<1>12. CASE UNCHANGED vars
  BY <1>3, <1>12 DEF vars
<1> QED
  BY Steps, <1>4, <1>5, <1>6, <1>7, <1>8, <1>9, <1>10, <1>11, <1>12 DEF Silent

LEMMA SizesAreNumbers ==
  ASSUME TypeOK, NEW w \in Workers
  PROVE  IsFiniteSet(DOMAIN cache[w]) /\ Cardinality(DOMAIN cache[w]) \in Nat
<1>1. IsFiniteSet(DOMAIN cache[w])
  BY KeysAssumption, FS_Subset DEF TypeOK
<1> QED
  BY <1>1, FS_CardinalityType

Grows(w) ==
  Cardinality(DOMAIN cache'[w]) > Cardinality(DOMAIN cache[w]) /\ Cardinality(DOMAIN cache'[w]) > MaxEntries

LEMMA GrowsStep ==
  ASSUME TypeOK, [Next]_vars, NEW w \in Workers, Grows(w), NEW k \in DOMAIN cache'[w]
  PROVE  Live(cache'[w][k])
<1> DEFINE c == cache[w]
<1>1. IsFiniteSet(DOMAIN c) /\ Cardinality(DOMAIN c) \in Nat
  BY SizesAreNumbers
<1>2. ~Shrinks
  <2>1. CASE DOMAIN cache'[w] \subseteq DOMAIN c
    <3>1. Cardinality(DOMAIN cache'[w]) <= Cardinality(DOMAIN c) /\ IsFiniteSet(DOMAIN cache'[w])
      BY <1>1, <2>1, FS_Subset
    <3>2. Cardinality(DOMAIN cache'[w]) \in Nat
      BY <3>1, FS_CardinalityType
    <3> QED
      BY <1>1, <3>1, <3>2 DEF Grows
  <2> QED
    BY <2>1 DEF Shrinks
<1>3. PICK s \in Sessions : Store(s)
  BY <1>2, OnlyStoreGrows
<1> DEFINE r == session[s]
           new == [version |-> r.version, left |-> TTL[r.key], old |-> r.old, due |-> FALSE]
           stored == [x \in DOMAIN Room(cache[r.worker]) \cup {r.key} |->
                        IF x = r.key THEN new ELSE cache[r.worker][x]]
<1>4. r \in Requests /\ IsCache(cache[r.worker]) /\ OnlyCache(r.worker, stored)
  BY <1>3, StoreIs
<1>5. new.left > 0
  BY <1>4, TTLAssumption DEF Requests
<1> HIDE DEF new
<1>6. w = r.worker
  <2>1. CASE w # r.worker
    <3>1. cache'[w] = c
      BY <1>4, <2>1 DEF OnlyCache
    <3> QED
      BY <1>1, <3>1 DEF Grows
  <2> QED
    BY <2>1
<1>7. cache'[w] = stored
  BY <1>4, <1>6 DEF OnlyCache
<1>8. /\ DOMAIN Room(c) \subseteq DOMAIN c
      /\ Cardinality(DOMAIN c) >= MaxEntries => \A x \in DOMAIN Room(c) : Live(c[x])
  BY <1>4, <1>6, RoomIsCache
<1>9. Cardinality(DOMAIN c) >= MaxEntries
  <2>1. DOMAIN cache'[w] \subseteq DOMAIN c \cup {r.key}
    BY <1>6, <1>7, <1>8
  <2>2. /\ IsFiniteSet(DOMAIN c \cup {r.key})
        /\ Cardinality(DOMAIN c \cup {r.key}) <= Cardinality(DOMAIN c) + 1
    <3> DEFINE n == Cardinality(DOMAIN c)
               grown == DOMAIN c \cup {r.key}
    <3>1. IsFiniteSet(grown) /\ Cardinality(grown) = IF r.key \in DOMAIN c THEN n ELSE n + 1
      BY <1>1, FS_AddElement
    <3>2. n \in Nat
      BY <1>1
    <3> HIDE DEF n, grown
    <3>3. Cardinality(grown) <= n + 1
      BY <3>1, <3>2
    <3> QED
      BY <3>1, <3>3 DEF n, grown
  <2>3. Cardinality(DOMAIN cache'[w]) <= Cardinality(DOMAIN c \cup {r.key}) /\ IsFiniteSet(DOMAIN cache'[w])
    BY <2>1, <2>2, FS_Subset
  <2>4. Cardinality(DOMAIN cache'[w]) \in Nat /\ Cardinality(DOMAIN c \cup {r.key}) \in Nat
    BY <2>2, <2>3, FS_CardinalityType
  <2> HIDE DEF c
  <2> QED
    BY <1>1, <2>2, <2>3, <2>4, BoundsAssumption DEF Grows
<1>10. CASE k = r.key
  BY <1>5, <1>7, <1>10 DEF Live
<1>11. CASE k # r.key
  BY <1>6, <1>7, <1>8, <1>9, <1>11
<1> QED
  BY <1>10, <1>11

\* max_entries is exceeded only by entries that have not expired, for every
\* size of the cache and every finite set of keys.
THEOREM GrowsWithLiveEntriesOnly == Spec => GrowsWithLiveOnly
<1>1. TypeOK /\ [Next]_vars =>
        [\A w \in Workers :
           /\ Cardinality(DOMAIN cache'[w]) > Cardinality(DOMAIN cache[w])
           /\ Cardinality(DOMAIN cache'[w]) > MaxEntries
           => \A k \in DOMAIN cache'[w] : Live(cache'[w][k])]_vars
  BY GrowsStep DEF Grows
<1> QED
  BY <1>1, TypeCorrect, PTL DEF Spec, GrowsWithLiveOnly

=============================================================================
