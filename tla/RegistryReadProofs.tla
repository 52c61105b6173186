------------------------- MODULE RegistryReadProofs -------------------------
(***************************************************************************)
(* Proofs about the reads of the registry.                                 *)
(*                                                                         *)
(* RegistryView, for any instances and requests: what a query is answered  *)
(* with, what a watcher has been told and what Prometheus scrapes.         *)
(*                                                                         *)
(* ReadBarrier, which these reads pass first, for any number of calls,     *)
(* contexts and commits: no overlap of calls can block or crash the run    *)
(* loop, and a read that shares its context with no other call is          *)
(* linearizable.                                                           *)
(***************************************************************************)
EXTENDS RegistryView, ReadBarrier, FiniteSetTheorems, WellFoundedInduction, TLAPS

-----------------------------------------------------------------------------
\* Instances: what Register and the replication leave in a store.

\* An instance that its name or its dimensions identify: the dimensions are all
\* there and compose the name, or the name tells none.
Canonical(v) ==
  \/ HasAll(v.dims) /\ v.service = v.dims /\ v.dims = [i \in 1 .. Dimensions |-> v.dims[i]]
  \/ v.dims = NoDimensions /\ Filled(v.service, NoDimensions) = NoDimensions

Sound(v) ==
  /\ v = [namespace |-> v.namespace, service |-> v.service, dims |-> v.dims, id |-> v.id,
          zone |-> v.zone, labels |-> v.labels, endpoints |-> v.endpoints,
          heartbeat |-> v.heartbeat]
  /\ v.heartbeat \in Nat /\ DOMAIN v.endpoints # {} /\ v.service # <<>>
  /\ Canonical(v)

\* Every instance is under its own key.
StoreInv(values) ==
  /\ IsFiniteSet(DOMAIN values)
  /\ \A k \in DOMAIN values : Sound(values[k]) /\ KeyOf(values[k]) = k

\* The same of what was replicated, which has lost its dimensions.
ServedInv(values) ==
  /\ IsFiniteSet(DOMAIN values)
  /\ \A k \in DOMAIN values : DOMAIN values[k].endpoints # {} /\ KeyOf(values[k]) = k

LEMMA StoreIsServed ==
  ASSUME NEW values, StoreInv(values)
  PROVE  ServedInv(values)
BY DEF StoreInv, ServedInv, Sound

LEMMA IdentityIsCanonical ==
  ASSUME NEW in, Identity(in.service, in.dims).service # <<>>
  PROVE  LET id == Identity(in.service, in.dims)
         IN \/ HasAll(id.dims) /\ id.service = id.dims
               /\ id.dims = [i \in 1 .. Dimensions |-> id.dims[i]]
            \/ id.dims = NoDimensions /\ Filled(id.service, NoDimensions) = NoDimensions
<1> DEFINE filled == Filled(in.service, in.dims)
           id == Identity(in.service, in.dims)
<1>1. filled = [i \in 1 .. Dimensions |-> filled[i]] /\ DOMAIN filled = 1 .. Dimensions
  BY DEF Filled
<1>2. id.dims = filled
  BY DEF Identity
<1>3. ~(HasAny(filled) /\ ~HasAll(filled))
  BY DEF Identity
<1>4. CASE HasAll(filled)
  <2>1. id.service = filled
    BY <1>4 DEF Identity
  <2>2. QED
    BY <1>1, <1>2, <1>4, <2>1
<1>5. CASE ~HasAny(filled)
  <2>1. \A i \in 1 .. Dimensions : filled[i] = Blank
    BY <1>1, <1>5 DEF HasAny
  <2>2. filled = NoDimensions
    BY <1>1, <2>1 DEF NoDimensions
  <2>3. 1 \in 1 .. Dimensions
    BY NamesAssumption
  <2>4. ~HasAll(filled)
    BY <1>1, <2>1, <2>3 DEF HasAll
  <2>5. id.service = in.service
    BY <1>5, <2>4 DEF Identity
  <2>6. \A i \in 1 .. Dimensions : Parsed(in.service)[i] = Blank
    BY <2>1 DEF Filled
  <2>7. Filled(in.service, NoDimensions) = NoDimensions
    BY <2>6 DEF Filled, NoDimensions
  <2>8. QED
    BY <1>2, <2>2, <2>5, <2>7
<1>6. QED
  BY <1>3, <1>4, <1>5

LEMMA NewValueIsSound ==
  ASSUME NEW in, IsList(in.endpoints), Accepts(in), NEW time \in Nat
  PROVE  Sound(NewValue(in, time))
<1> DEFINE v == NewValue(in, time)
           id == Identity(in.service, in.dims)
<1>1. /\ v = [namespace |-> in.namespace, service |-> id.service, dims |-> id.dims,
              id |-> in.id, zone |-> in.zone, labels |-> in.labels,
              endpoints |-> Normalized(in.endpoints), heartbeat |-> time]
      /\ id.service # <<>>
  BY DEF NewValue, Accepts
<1>2. DOMAIN Normalized(in.endpoints) # {}
  <2>1. in.endpoints # <<>> /\ in.endpoints \in Seq(ToSet(in.endpoints))
    BY DEF Accepts, AcceptsEndpoints, IsList
  <2>2. 1 \in DOMAIN in.endpoints
    BY <2>1
  <2>3. QED
    BY <2>2 DEF Normalized
<1>3. Canonical(v)
  <2>1. \/ HasAll(id.dims) /\ id.service = id.dims
           /\ id.dims = [i \in 1 .. Dimensions |-> id.dims[i]]
        \/ id.dims = NoDimensions /\ Filled(id.service, NoDimensions) = NoDimensions
    BY <1>1, IdentityIsCanonical
  <2>2. v.service = id.service /\ v.dims = id.dims
    BY <1>1
  <2> HIDE DEF v, id
  <2>3. QED
    BY <2>1, <2>2 DEF Canonical
<1> HIDE DEF v, id
<1>4. QED
  BY <1>1, <1>2, <1>3 DEF Sound, v

LEMMA RenewedIsSound ==
  ASSUME NEW v, Sound(v), NEW time \in Nat
  PROVE  /\ Sound([v EXCEPT !.heartbeat = time])
         /\ KeyOf([v EXCEPT !.heartbeat = time]) = KeyOf(v)
<1> DEFINE w == [v EXCEPT !.heartbeat = time]
<1>1. w = [namespace |-> v.namespace, service |-> v.service, dims |-> v.dims, id |-> v.id,
           zone |-> v.zone, labels |-> v.labels, endpoints |-> v.endpoints, heartbeat |-> time]
  BY DEF Sound
<1> HIDE DEF w
<1>2. QED
  BY <1>1 DEF Sound, Canonical, KeyOf, Key, w

LEMMA WithoutIsFunction ==
  ASSUME NEW values, NEW k
  PROVE  /\ DOMAIN Without(values, k) = DOMAIN values \ {k}
         /\ \A j \in DOMAIN values \ {k} : Without(values, k)[j] = values[j]
BY DEF Without, Restrict

LEMMA StoreWith ==
  ASSUME NEW values, StoreInv(values), NEW v, Sound(v)
  PROVE  StoreInv(With(values, KeyOf(v), v))
<1>1. IsFiniteSet(DOMAIN values \cup {KeyOf(v)})
  BY FS_AddElement DEF StoreInv
<1> DEFINE w == With(values, KeyOf(v), v)
<1>2. /\ DOMAIN w = DOMAIN values \cup {KeyOf(v)} /\ w[KeyOf(v)] = v
      /\ \A j \in DOMAIN values \ {KeyOf(v)} : w[j] = values[j]
  BY DEF With
<1> HIDE DEF w
<1>3. ASSUME NEW k \in DOMAIN w PROVE Sound(w[k]) /\ KeyOf(w[k]) = k
  <2>1. CASE k = KeyOf(v)
    BY <1>2, <2>1
  <2>2. CASE k # KeyOf(v)
    BY <1>2, <2>2 DEF StoreInv
  <2>3. QED
    BY <2>1, <2>2
<1>4. StoreInv(w)
  BY <1>1, <1>2, <1>3 DEF StoreInv
<1>5. QED
  BY <1>4 DEF w

LEMMA StoreWithout ==
  ASSUME NEW values, StoreInv(values), NEW k
  PROVE  StoreInv(Without(values, k))
<1>1. IsFiniteSet(DOMAIN values \ {k})
  BY FS_RemoveElement DEF StoreInv
<1>2. QED
  BY <1>1, WithoutIsFunction DEF StoreInv

-----------------------------------------------------------------------------
\* What a scan finds.

\* The instances that a query is about, wherever they are looked for.
Found(values, q) == {k \in DOMAIN values : k[1] = q.namespace /\ Visible(values[k], q)}

\* The scan of one service loses nothing.
LEMMA ScanIsEnough ==
  ASSUME StoreInv(store), NEW q
  PROVE  {k \in Scanned(q) : Visible(store[k], q)} = Found(store, q)
<1>1. ASSUME NEW k \in DOMAIN store, k[1] = q.namespace, Visible(store[k], q)
      PROVE  k \in Scanned(q)
  <2>1. k[2] = store[k].service
    BY <1>1 DEF StoreInv, KeyOf, Key
  <2>2. q.service # <<>> => k[2] = q.service
    BY <1>1, <2>1 DEF Visible, MatchQuery, MatchService
  <2>3. k \in InNamespace(q.namespace)
    BY <1>1 DEF InNamespace
  <2>4. QED
    BY <2>2, <2>3 DEF Scanned, OfService
<1>2. \A k \in Scanned(q) : k \in DOMAIN store /\ k[1] = q.namespace
  BY DEF Scanned, OfService, InNamespace
<1>3. QED
  BY <1>1, <1>2 DEF Found

LEMMA LocalWithoutLimit ==
  ASSUME StoreInv(store), NEW q, q.limit = 0
  PROVE  /\ DOMAIN Local(q) = Found(store, q)
         /\ \A k \in Found(store, q) : Local(q)[k] = Shown(store[k], q)
<1> DEFINE found == {k \in Scanned(q) : Visible(store[k], q)}
<1>1. found = Found(store, q)
  BY ScanIsEnough
<1> HIDE DEF found
<1>2. Limited(found, q.limit) = found
  BY DEF Limited
<1>3. Local(q) = [k \in found |-> Shown(store[k], q)]
  BY <1>2 DEF Local, found
<1>4. QED
  BY <1>1, <1>3

-----------------------------------------------------------------------------
\* The watcher.

\* What the watcher has been told of is of its namespace and of a service that
\* it asked for, so no event about it is kept from it.
ViewInv ==
  watched # Unwatched /\ watched.limit = 0 =>
    \A k \in DOMAIN view : k[1] = watched.namespace /\ MatchService(k[2], watched)

\* WatchFollowsQuery, of any store, clock and view.
Follows(values, q, v) ==
  /\ \A k \in Found(values, q) : k \in DOMAIN v /\ v[k] = Shown(values[k], q)
  /\ \A k \in DOMAIN v \ Found(values, q) : k \in DOMAIN values /\ ~IsAlive(values[k])

WatchInv ==
  /\ StoreInv(store) /\ now \in Nat /\ ViewInv
  /\ watched # Unwatched /\ watched.limit = 0 => Follows(store, watched, view)

LEMMA FollowsIsEnough ==
  ASSUME StoreInv(store)
  PROVE  WatchFollowsQuery <=>
           (watched # Unwatched /\ watched.limit = 0 => Follows(store, watched, view))
BY LocalWithoutLimit DEF WatchFollowsQuery, Follows

\* An event about k, put or delete, and the view after it.
LEMMA ToldFollows ==
  ASSUME StoreInv(store), NEW v, Sound(v), watched # Unwatched,
         Follows(store, watched, view),
         \A k \in DOMAIN view : k[1] = watched.namespace /\ MatchService(k[2], watched)
  PROVE  /\ Follows(With(store, KeyOf(v), v), watched, Told(KeyOf(v), v))
         /\ \A k \in DOMAIN Told(KeyOf(v), v) :
              k[1] = watched.namespace /\ MatchService(k[2], watched)
<1> DEFINE key == KeyOf(v)
           w == With(store, key, v)
           t == Told(key, v)
<1>1. /\ DOMAIN w = DOMAIN store \cup {key} /\ w[key] = v
      /\ \A j \in DOMAIN store \ {key} : w[j] = store[j]
  BY DEF With
<1>2. key[1] = v.namespace /\ key[2] = v.service
  BY DEF KeyOf, Key
<1>3. CASE key[1] # watched.namespace \/ ~MatchService(key[2], watched)
  <2>1. t = view
    BY <1>3 DEF Told
  <2>2. key \notin Found(w, watched) /\ key \notin Found(store, watched)
    <3>1. ~(key[1] = watched.namespace /\ Visible(v, watched))
      BY <1>2, <1>3 DEF Visible, MatchQuery
    <3>2. key \in DOMAIN store => store[key].service = key[2]
      BY DEF StoreInv, KeyOf, Key
    <3>3. ~(key \in DOMAIN store /\ key[1] = watched.namespace /\ Visible(store[key], watched))
      BY <1>3, <3>2 DEF Visible, MatchQuery
    <3>4. QED
      BY <1>1, <3>1, <3>3 DEF Found
  <2>3. Found(w, watched) = Found(store, watched)
    BY <1>1, <2>2 DEF Found
  <2>4. key \notin DOMAIN view
    BY <1>3
  <2>5. \A k \in Found(store, watched) : k \in DOMAIN store \ {key}
    BY <2>2 DEF Found
  <2> HIDE DEF key, w, t
  <2>6. QED
    BY <1>1, <2>1, <2>3, <2>4, <2>5 DEF Follows, w, t, key
<1>4. CASE key[1] = watched.namespace /\ MatchService(key[2], watched) /\ Visible(v, watched)
  <2>1. t = With(view, key, Shown(v, watched))
    BY <1>4 DEF Told
  <2>2. /\ DOMAIN t = DOMAIN view \cup {key} /\ t[key] = Shown(v, watched)
        /\ \A j \in DOMAIN view \ {key} : t[j] = view[j]
    BY <2>1 DEF With
  <2>3. Found(w, watched) = Found(store, watched) \cup {key}
    BY <1>1, <1>4 DEF Found
  <2>4. Found(store, watched) \subseteq DOMAIN store
    BY DEF Found
  <2> HIDE DEF key, w, t
  <2>5. ASSUME NEW k \in Found(w, watched) PROVE k \in DOMAIN t /\ t[k] = Shown(w[k], watched)
    <3>1. CASE k = key
      BY <1>1, <2>2, <3>1
    <3>2. CASE k # key
      BY <1>1, <2>2, <2>3, <2>4, <3>2 DEF Follows
    <3>3. QED
      BY <3>1, <3>2
  <2>6. ASSUME NEW k \in DOMAIN t \ Found(w, watched)
        PROVE  k \in DOMAIN w /\ ~IsAlive(w[k])
    BY <1>1, <2>2, <2>3 DEF Follows
  <2>7. \A k \in DOMAIN t : k[1] = watched.namespace /\ MatchService(k[2], watched)
    BY <1>4, <2>2
  <2>8. QED
    BY <2>5, <2>6, <2>7 DEF Follows, w, t, key
<1>5. CASE key[1] = watched.namespace /\ MatchService(key[2], watched) /\ ~Visible(v, watched)
  <2>1. t = Without(view, key)
    BY <1>5 DEF Told
  <2>2. /\ DOMAIN t = DOMAIN view \ {key}
        /\ \A j \in DOMAIN view \ {key} : t[j] = view[j]
    BY <2>1 DEF Without, Restrict
  <2>3. Found(w, watched) = Found(store, watched) \ {key}
    BY <1>1, <1>5 DEF Found
  <2>4. Found(store, watched) \subseteq DOMAIN store
    BY DEF Found
  <2> HIDE DEF key, w, t
  <2>5. ASSUME NEW k \in Found(w, watched) PROVE k \in DOMAIN t /\ t[k] = Shown(w[k], watched)
    BY <1>1, <2>2, <2>3, <2>4 DEF Follows
  <2>6. ASSUME NEW k \in DOMAIN t \ Found(w, watched)
        PROVE  k \in DOMAIN w /\ ~IsAlive(w[k])
    BY <1>1, <2>2, <2>3 DEF Follows
  <2>7. QED
    BY <2>2, <2>5, <2>6 DEF Follows, w, t, key
<1>6. QED
  BY <1>3, <1>4, <1>5

LEMMA ForgottenFollows ==
  ASSUME StoreInv(store), NEW key, watched # Unwatched,
         Follows(store, watched, view),
         \A k \in DOMAIN view : k[1] = watched.namespace /\ MatchService(k[2], watched)
  PROVE  /\ Follows(Without(store, key), watched, Forgotten(key))
         /\ DOMAIN Forgotten(key) \subseteq DOMAIN view
<1> DEFINE w == Without(store, key)
           t == Forgotten(key)
<1>1. DOMAIN w = DOMAIN store \ {key} /\ \A j \in DOMAIN store \ {key} : w[j] = store[j]
  BY WithoutIsFunction
<1>2. Found(w, watched) = Found(store, watched) \ {key}
  BY <1>1 DEF Found
<1>3. Found(store, watched) \subseteq DOMAIN store
  BY DEF Found
<1>4. /\ DOMAIN t = DOMAIN view \ {key}
      /\ \A j \in DOMAIN view \ {key} : t[j] = view[j]
  <2>1. CASE key[1] # watched.namespace \/ ~MatchService(key[2], watched)
    BY <2>1 DEF Forgotten
  <2>2. CASE ~(key[1] # watched.namespace \/ ~MatchService(key[2], watched))
    BY <2>2, WithoutIsFunction DEF Forgotten
  <2>3. QED
    BY <2>1, <2>2
<1> HIDE DEF w, t
<1>5. ASSUME NEW k \in Found(w, watched) PROVE k \in DOMAIN t /\ t[k] = Shown(w[k], watched)
  BY <1>1, <1>2, <1>3, <1>4 DEF Follows
<1>6. ASSUME NEW k \in DOMAIN t \ Found(w, watched)
      PROVE  k \in DOMAIN w /\ ~IsAlive(w[k])
  BY <1>1, <1>2, <1>4 DEF Follows
<1>7. QED
  BY <1>4, <1>5, <1>6 DEF Follows, w, t


LEMMA WatchInit ==
  ASSUME ViewInit PROVE WatchInv
<1>1. DOMAIN store = {}
  BY DEF ViewInit
<1>2. StoreInv(store)
  BY <1>1, FS_EmptySet DEF StoreInv
<1>3. QED
  BY <1>2 DEF ViewInit, WatchInv, ViewInv

LEMMA PutKeepsWatch ==
  ASSUME WatchInv, NEW v, Sound(v), Put(v)
  PROVE  WatchInv'
<1>1. StoreInv(store')
  BY StoreWith DEF WatchInv, Put
<1>2. ASSUME watched # Unwatched, watched.limit = 0
      PROVE  /\ Follows(store', watched, view')
             /\ \A k \in DOMAIN view' : k[1] = watched.namespace /\ MatchService(k[2], watched)
  BY <1>2, ToldFollows DEF WatchInv, ViewInv, Put
<1>3. now' = now /\ watched' = watched
  BY DEF Put
<1>4. watched # Unwatched /\ watched.limit = 0 => Follows(store, watched, view)'
  BY <1>2, <1>3 DEF Follows, Found, Visible, IsAlive
<1>5. QED
  BY <1>1, <1>2, <1>3, <1>4 DEF WatchInv, ViewInv, StoreInv

LEMMA DeleteKeepsWatch ==
  ASSUME WatchInv, NEW k, Delete(k)
  PROVE  WatchInv'
<1>1. StoreInv(store')
  BY StoreWithout DEF WatchInv, Delete
<1>2. ASSUME watched # Unwatched, watched.limit = 0
      PROVE  Follows(store', watched, view') /\ DOMAIN view' \subseteq DOMAIN view
  BY <1>2, ForgottenFollows DEF WatchInv, ViewInv, Delete
<1>3. now' = now /\ watched' = watched
  BY DEF Delete
<1>4. watched # Unwatched /\ watched.limit = 0 => Follows(store, watched, view)'
  BY <1>2, <1>3 DEF Follows, Found, Visible, IsAlive
<1>5. QED
  BY <1>1, <1>2, <1>3, <1>4 DEF WatchInv, ViewInv, StoreInv

\* The snapshot that a watch begins with.
LEMMA WatchKeepsWatch ==
  ASSUME WatchInv, NEW request \in Requests, Watch(request)
  PROVE  WatchInv'
<1> DEFINE q == Query(request)
<1>1. watched' = q /\ view' = Local(q) /\ store' = store /\ now' = now
  BY DEF Watch
<1>2. StoreInv(store) /\ now \in Nat
  BY DEF WatchInv
<1> HIDE DEF q
<1>3. ASSUME q.limit = 0
      PROVE  /\ DOMAIN view' = Found(store, q)
             /\ \A k \in Found(store, q) : view'[k] = Shown(store[k], q)
  BY <1>1, <1>2, <1>3, LocalWithoutLimit
<1>4. ASSUME q.limit = 0 PROVE Follows(store, q, view')
  BY <1>3, <1>4 DEF Follows
<1>5. watched'.limit = 0 => Follows(store, watched, view)'
  BY <1>1, <1>4 DEF Follows, Found, Visible, IsAlive
<1>6. \A k \in Found(store, q) : k[1] = q.namespace /\ MatchService(k[2], q)
  <2>1. \A k \in DOMAIN store : k[2] = store[k].service
    BY <1>2 DEF StoreInv, KeyOf, Key
  <2>2. QED
    BY <2>1 DEF Found, Visible, MatchQuery
<1>7. ViewInv'
  BY <1>1, <1>3, <1>6 DEF ViewInv
<1>8. QED
  BY <1>1, <1>2, <1>5, <1>7 DEF WatchInv, StoreInv

\* Time only ends leases.
LEMMA TickKeepsWatch ==
  ASSUME WatchInv, Tick
  PROVE  WatchInv'
<1>1. /\ now \in Nat /\ now' = now + 1 /\ store' = store /\ watched' = watched /\ view' = view
      /\ StoreInv(store)
  BY DEF Tick, WatchInv
<1>2. \A k \in DOMAIN store : store[k].heartbeat \in Nat
  BY <1>1 DEF StoreInv, Sound
<1>3. \A k \in DOMAIN store : IsAlive(store[k])' => IsAlive(store[k])
  BY <1>1, <1>2, ViewAssumption DEF IsAlive
<1>4. \A k \in DOMAIN store :
        k \in Found(store, watched) /\ k \notin Found(store, watched)' => ~IsAlive(store[k])'
  BY <1>1 DEF Found, Visible
<1>5. Found(store, watched)' \subseteq Found(store, watched)
  BY <1>1, <1>3 DEF Found, Visible
<1>6. ASSUME watched # Unwatched, watched.limit = 0
      PROVE  Follows(store, watched, view)'
  <2>1. Follows(store, watched, view)
    BY <1>6 DEF WatchInv
  <2>2. \A k \in DOMAIN view : k \in DOMAIN store
    BY <2>1 DEF Follows, Found
  <2>3. \A k \in Found(store, watched)' :
          k \in DOMAIN view' /\ view'[k] = Shown(store'[k], watched')
    BY <1>1, <1>5, <2>1 DEF Follows
  <2>4. \A k \in DOMAIN view' : k \notin Found(store, watched)' =>
          k \in DOMAIN store' /\ ~IsAlive(store[k])'
    BY <1>1, <1>3, <1>4, <2>1, <2>2 DEF Follows
  <2>5. QED
    BY <2>3, <2>4 DEF Follows, Shown
<1>7. QED
  BY <1>1, <1>6 DEF WatchInv, ViewInv, StoreInv

LEMMA WatchStep ==
  ASSUME WatchInv, [ViewNext]_viewVars PROVE WatchInv'
<1>1. CASE \E in \in Inputs : Register(in)
  <2>1. PICK in \in Inputs : Register(in)
    BY <1>1
  <2>2. IsList(in.endpoints) /\ Accepts(in) /\ now \in Nat
    BY <2>1, InputsAssumption DEF Register, WatchInv
  <2>3. Sound(NewValue(in, now))
    BY <2>2, NewValueIsSound
  <2>4. QED
    BY <2>1, <2>3, PutKeepsWatch DEF Register
<1>2. CASE \E in \in Inputs : Heartbeat(in)
  <2>1. PICK in \in Inputs : Heartbeat(in)
    BY <1>2
  <2> DEFINE old == store[NamedKey(in)]
  <2>2. Sound(old) /\ now \in Nat
    BY <2>1 DEF Heartbeat, WatchInv, StoreInv
  <2>3. Sound([old EXCEPT !.heartbeat = now])
    BY <2>2, RenewedIsSound
  <2>4. QED
    BY <2>1, <2>3, PutKeepsWatch DEF Heartbeat
<1>3. CASE \E in \in Inputs : Deregister(in)
  BY <1>3, DeleteKeepsWatch DEF Deregister
<1>4. CASE \E k \in DOMAIN store : Cleanup(k)
  BY <1>4, DeleteKeepsWatch DEF Cleanup
<1>5. CASE \E request \in Requests : Watch(request)
  BY <1>5, WatchKeepsWatch
<1>6. CASE Tick
  BY <1>6, TickKeepsWatch
<1>7. CASE UNCHANGED viewVars
  BY <1>7 DEF viewVars, WatchInv, ViewInv, StoreInv, Follows, Found, Visible, IsAlive
<1>8. QED
  BY <1>1, <1>2, <1>3, <1>4, <1>5, <1>6, <1>7 DEF ViewNext

LEMMA WatchInvAlways == ViewSpec => []WatchInv
BY WatchInit, WatchStep, PTL DEF ViewSpec

(* A watcher who applies the events to its snapshot has what a query would *)
(* give, whatever it asked for and whatever is registered, renewed and     *)
(* cleaned up meanwhile, but for leases that ran out without an event.     *)
THEOREM WatchFollowsQueryAlways == ViewSpec => []WatchFollowsQuery
<1>1. WatchInv => WatchFollowsQuery
  BY FollowsIsEnough DEF WatchInv
<1>2. QED
  BY <1>1, WatchInvAlways, PTL

-----------------------------------------------------------------------------
\* Names and dimensions.

LEMMA MaxIsGreatest ==
  ASSUME NEW S, S \subseteq Int, NEW n \in S, \A m \in S : m <= n
  PROVE  Max(S) = n
<1>1. \E x \in S : \A y \in S : x >= y
  OBVIOUS
<1>2. Max(S) \in S /\ \A y \in S : Max(S) >= y
  BY <1>1 DEF Max
<1>3. Max(S) <= n /\ Max(S) >= n /\ Max(S) \in Int /\ n \in Int
  BY <1>2
<1>4. QED
  BY <1>3

LEMMA NextOrNoMore ==
  \A m, n \in 0 .. Dimensions :
    m \in Int /\ (m <= n \/ (n < Dimensions /\ n + 1 \in 1 .. m))
BY NamesAssumption

\* The dimensions before the first blank, when the first n of them are given.
LEMMA HierarchyIsLead ==
  ASSUME NEW dims, NEW n \in 0 .. Dimensions,
         \A i \in 1 .. n : dims[i] # Blank,
         n < Dimensions => dims[n + 1] = Blank
  PROVE  Hierarchy(dims) = SubSeq(dims, 1, n)
<1> DEFINE S == {m \in 0 .. Dimensions : \A i \in 1 .. m : dims[i] # Blank}
<1>1. n \in S
  OBVIOUS
<1>2. \A m \in S : m \in 0 .. Dimensions /\ \A i \in 1 .. m : dims[i] # Blank
  BY Zenon
<1>3. Hierarchy(dims) = SubSeq(dims, 1, Max(S))
  BY DEF Hierarchy
<1> HIDE DEF S
<1>4. ASSUME NEW m \in 0 .. Dimensions, \A i \in 1 .. m : dims[i] # Blank
      PROVE  m \in Int /\ m <= n
  <2>1. m \in Int /\ (m <= n \/ (n < Dimensions /\ n + 1 \in 1 .. m))
    BY NextOrNoMore, Zenon
  <2>2. QED
    BY <1>4, <2>1, Zenon
<1>7. S \subseteq Int /\ \A m \in S : m <= n
  BY <1>2, <1>4
<1>5. Max(S) = n
  BY <1>1, <1>7, MaxIsGreatest
<1>6. QED
  BY <1>3, <1>5

LEMMA ParsedIsItself ==
  ASSUME NEW service, service = [i \in 1 .. Dimensions |-> service[i]], HasAll(service)
  PROVE  Parsed(service) = service
<1>1. DOMAIN service = 1 .. Dimensions
  OBVIOUS
<1>2. Len(service) = Dimensions
  BY NamesAssumption
<1>3. Blank \notin ToSet(service)
  BY <1>1 DEF ToSet, HasAll
<1>4. QED
  BY <1>2, <1>3 DEF Parsed

LEMMA NoDimensionsIsBlank ==
  /\ ~HasAny(NoDimensions) /\ ~HasAll(NoDimensions)
  /\ DOMAIN NoDimensions = 1 .. Dimensions /\ \A i \in 1 .. Dimensions : NoDimensions[i] = Blank
<1>1. 1 \in 1 .. Dimensions
  BY NamesAssumption
<1>2. QED
  BY <1>1 DEF NoDimensions, HasAny, HasAll

LEMMA ParsedEmpty ==
  Parsed(<<>>) = NoDimensions
BY NamesAssumption DEF Parsed

\* An instance that its dimensions identify: its name composes them.
LEMMA CanonicalForms ==
  ASSUME NEW v, Canonical(v)
  PROVE  /\ Identity(v.service, NoDimensions).service = v.service
         /\ HasAny(v.dims) =>
              /\ Identity(<<>>, v.dims).service = v.service
              /\ v.service = v.dims /\ HasAll(v.service)
              /\ v.service = [i \in 1 .. Dimensions |-> v.service[i]]
<1>1. CASE HasAll(v.dims) /\ v.service = v.dims /\ v.dims = [i \in 1 .. Dimensions |-> v.dims[i]]
  <2> DEFINE s == v.service
  <2>1. s = [i \in 1 .. Dimensions |-> s[i]] /\ HasAll(s) /\ v.dims = s
    BY <1>1
  <2> HIDE DEF s
  <2>2. Parsed(s) = s
    BY <2>1, ParsedIsItself
  <2>3. Filled(s, NoDimensions) = s
    BY <2>1, <2>2, NoDimensionsIsBlank DEF Filled
  <2>4. Identity(s, NoDimensions).service = s
    BY <2>1, <2>3 DEF Identity
  <2>5. \A i \in 1 .. Dimensions : s[i] # Blank
    BY <2>1 DEF HasAll
  <2>6. Filled(<<>>, s) = s
    BY <2>1, <2>5 DEF Filled
  <2>7. Identity(<<>>, s).service = s
    BY <2>1, <2>6 DEF Identity
  <2>8. QED
    BY <2>1, <2>4, <2>7 DEF s
<1>2. CASE v.dims = NoDimensions /\ Filled(v.service, NoDimensions) = NoDimensions
  BY <1>2, NoDimensionsIsBlank DEF Identity
<1>3. QED
  BY <1>1, <1>2 DEF Canonical

\* The query for the first n dimensions of a name.
LEMMA LeadIsPrefix ==
  ASSUME NEW s, s = [i \in 1 .. Dimensions |-> s[i]], HasAll(s),
         NEW n \in 1 .. Dimensions
  PROVE  HasPrefix(s, SubSeq(s, 1, n))
<1>1. DOMAIN s = 1 .. Dimensions
  OBVIOUS
<1>2. Len(s) = Dimensions
  BY NamesAssumption
<1> DEFINE p == SubSeq(s, 1, n)
<1>3. p = [i \in 1 .. n |-> s[i]]
  BY NamesAssumption
<1> HIDE DEF p
<1>4. Len(p) = n /\ \A i \in 1 .. n : p[i] = s[i]
  BY <1>3, NamesAssumption
<1>5. HasPrefix(s, p)
  <2>1. n <= Len(s) /\ \A i \in 1 .. n - 1 : s[i] = p[i]
    <3>1. n <= Len(s)
      BY <1>2, NamesAssumption
    <3>2. \A i \in 1 .. n - 1 : i \in 1 .. n
      BY NamesAssumption
    <3>3. QED
      BY <1>4, <3>1, <3>2
  <2>2. s[n] = p[n]
    BY <1>4
  <2>3. QED
    BY <1>4, <2>1, <2>2 DEF HasPrefix
<1>6. QED
  BY <1>5 DEF p

\* A request without names and selector, for the first n dimensions of a name.
LEMMA LeadQuery ==
  ASSUME NEW s, s = [i \in 1 .. Dimensions |-> s[i]], HasAll(s), NEW n \in 1 .. Dimensions,
         NEW request, request.services = <<>>, request.prefixes = {}, request.selector = <<>>,
         request.dims = [i \in 1 .. Dimensions |-> IF i <= n THEN s[i] ELSE Blank]
  PROVE  MatchService(s, Query(request)) /\ Query(request).selector = {}
<1> DEFINE filled == Filled(FirstName(request), request.dims)
           q == Query(request)
<1>1. NamesOf(request) = {}
  BY DEF NamesOf, ToSet
<1>2. FirstName(request) = <<>>
  BY <1>1 DEF FirstName, HeadName
<1>3. \A i \in 1 .. Dimensions : s[i] # Blank /\ i \in Int
  BY NamesAssumption DEF HasAll
<1>4. filled = request.dims
  BY <1>2, ParsedEmpty, NoDimensionsIsBlank DEF Filled
<1>5. DOMAIN filled = 1 .. Dimensions /\ n \in Int /\ 1 \in 1 .. Dimensions /\ Dimensions \in Nat
  BY <1>4, NamesAssumption
<1>6. q.selector = {}
  BY DEF Query, Selector
<1>7. CASE n = Dimensions
  <2>1. filled = s
    BY <1>4, <1>7, NamesAssumption
  <2> HIDE DEF filled
  <2>2. q.service = s /\ q.services = {s} /\ q.prefixes = {}
    BY <1>1, <2>1 DEF Query, filled
  <2>3. QED
    BY <1>6, <2>2 DEF MatchService
<1>8. CASE n # Dimensions
  <2>1. n + 1 \in 1 .. Dimensions /\ n \in 0 .. Dimensions
    BY <1>5, <1>8, NamesAssumption
  <2>2. \A i \in 1 .. n : filled[i] # Blank /\ filled[i] = s[i]
    BY <1>3, <1>4, <1>5
  <2>3. filled[n + 1] = Blank
    BY <1>4, <1>5, <2>1
  <2>4. ~HasAll(filled)
    BY <1>5, <2>1, <2>3 DEF HasAll
  <2> HIDE DEF filled
  <2>5. Hierarchy(filled) = SubSeq(filled, 1, n)
    BY <2>1, <2>2, <2>3, HierarchyIsLead
  <2>6. SubSeq(filled, 1, n) = SubSeq(s, 1, n) /\ SubSeq(s, 1, n) # <<>>
    <3>1. SubSeq(filled, 1, n) = [i \in 1 .. n |-> filled[i]]
      BY <1>5
    <3>2. SubSeq(s, 1, n) = [i \in 1 .. n |-> s[i]]
      BY <1>5
    <3>3. SubSeq(s, 1, n) # <<>>
      BY <1>5, <3>2
    <3>4. QED
      BY <2>2, <3>1, <3>2, <3>3
  <2>7. q.service = <<>> /\ q.services = {} /\ q.prefixes = {SubSeq(s, 1, n)}
    BY <1>1, <1>2, <2>4, <2>5, <2>6 DEF Query, filled
  <2>8. QED
    BY <1>6, <2>7, LeadIsPrefix DEF MatchService
<1>9. QED
  BY <1>7, <1>8

LEMMA SoundIsReached ==
  ASSUME StoreInv(store) PROVE EitherFormReaches
<1>1. SUFFICES ASSUME NEW k \in DOMAIN store
      PROVE LET v == store[k]
                ask(dims) == [namespace |-> v.namespace, services |-> <<>>, prefixes |-> {},
                              dims |-> dims, zone |-> Blank, endpoint |-> Blank, selector |-> <<>>,
                              limit |-> 0]
                upTo(n) == [i \in 1 .. Dimensions |-> IF i <= n THEN v.service[i] ELSE Blank]
            IN /\ k = Key(v.namespace, Identity(v.service, NoDimensions).service, v.id)
               /\ HasAny(v.dims) => k = Key(v.namespace, Identity(<<>>, v.dims).service, v.id)
               /\ HasAny(v.dims) /\ IsAlive(v) =>
                    \A n \in 1 .. Dimensions : k \in DOMAIN Local(Query(ask(upTo(n))))
  BY DEF EitherFormReaches
<1> DEFINE v == store[k]
           ask(dims) == [namespace |-> v.namespace, services |-> <<>>, prefixes |-> {},
                         dims |-> dims, zone |-> Blank, endpoint |-> Blank, selector |-> <<>>,
                         limit |-> 0]
           upTo(n) == [i \in 1 .. Dimensions |-> IF i <= n THEN v.service[i] ELSE Blank]
<1>2. Canonical(v) /\ k = Key(v.namespace, v.service, v.id)
  BY DEF StoreInv, Sound, KeyOf
<1>3. ASSUME HasAny(v.dims), IsAlive(v), NEW n \in 1 .. Dimensions
      PROVE  k \in DOMAIN Local(Query(ask(upTo(n))))
  <2> DEFINE r == ask(upTo(n))
             q == Query(r)
  <2>1. /\ r.services = <<>> /\ r.prefixes = {} /\ r.selector = <<>>
        /\ r.dims = [i \in 1 .. Dimensions |-> IF i <= n THEN v.service[i] ELSE Blank]
        /\ r.limit = 0 /\ r.namespace = v.namespace /\ r.zone = Blank /\ r.endpoint = Blank
    OBVIOUS
  <2>2. HasAll(v.service) /\ v.service = [i \in 1 .. Dimensions |-> v.service[i]]
    BY <1>2, <1>3, CanonicalForms
  <2> HIDE DEF v, r
  <2>3. MatchService(v.service, q) /\ q.selector = {}
    BY <2>1, <2>2, LeadQuery
  <2>4. /\ q.limit = 0 /\ q.namespace = v.namespace /\ q.zone = Blank /\ q.endpoint = Blank
    BY <2>1 DEF Query
  <2>5. MatchQuery(v, q)
    BY <2>3, <2>4 DEF MatchQuery
  <2>6. k[1] = v.namespace
    BY <1>2 DEF Key
  <2>7. k \in Found(store, q)
    BY <1>3, <2>4, <2>5, <2>6 DEF Found, Visible, v
  <2>8. QED
    BY <2>4, <2>7, LocalWithoutLimit DEF r
<1>4. /\ Identity(v.service, NoDimensions).service = v.service
      /\ HasAny(v.dims) => Identity(<<>>, v.dims).service = v.service
  BY <1>2, CanonicalForms
<1>5. QED
  BY <1>2, <1>3, <1>4

(* An instance registered by its name or by its dimensions is one instance *)
(* under one key, which a request in either form reaches, and every prefix *)
(* of its dimensions finds it as long as it is alive.                      *)
THEOREM EitherFormReachesAlways == ViewSpec => []EitherFormReaches
<1>1. WatchInv => EitherFormReaches
  BY SoundIsReached DEF WatchInv
<1>2. QED
  BY <1>1, WatchInvAlways, PTL

-----------------------------------------------------------------------------
\* What Prometheus scrapes.

LEMMA HeadIsThere ==
  ASSUME NEW s, IsList(s), s # <<>>
  PROVE  Head(s) \in ToSet(s)
<1>1. s \in Seq(ToSet(s))
  BY DEF IsList
<1>2. QED
  BY <1>1, <1>1

\* A name that tells one dimension tells them all, and is composed of them.
LEMMA ParsedIsWhole ==
  ASSUME NEW name, IsList(name), HasAny(Parsed(name))
  PROVE  /\ Parsed(name) = name /\ HasAll(name)
         /\ name = [i \in 1 .. Dimensions |-> name[i]]
<1>1. Parsed(name) = name /\ Len(name) = Dimensions /\ Blank \notin ToSet(name)
  BY NoDimensionsIsBlank DEF Parsed
<1>2. name \in Seq(ToSet(name))
  BY DEF IsList
<1>3. DOMAIN name = 1 .. Dimensions
  BY <1>1, <1>2
<1>4. name = [i \in 1 .. Dimensions |-> name[i]]
  BY <1>2, <1>3
<1>5. HasAll(name)
  BY <1>1 DEF HasAll, ToSet
<1>6. QED
  BY <1>1, <1>4, <1>5

LEMMA HierarchyOfNone ==
  Hierarchy(NoDimensions) = <<>>
<1>1. /\ 0 \in 0 .. Dimensions /\ \A i \in 1 .. 0 : NoDimensions[i] # Blank
      /\ 0 < Dimensions => NoDimensions[0 + 1] = Blank
  BY NamesAssumption, NoDimensionsIsBlank
<1>2. Hierarchy(NoDimensions) = SubSeq(NoDimensions, 1, 0)
  BY <1>1, HierarchyIsLead
<1>3. QED
  BY <1>2

\* A request by name alone, without blank names: the name is its first one.
ByName(request) ==
  /\ IsList(request.services) /\ \A s \in ToSet(request.services) : IsList(s)
  /\ request.dims = [i \in 1 .. Dimensions |-> request.dims[i]] /\ ~HasAny(request.dims)
  /\ request.prefixes \subseteq {<<>>}
  /\ <<>> \notin ToSet(request.services)

LEMMA FirstIsHead ==
  ASSUME NEW request, ByName(request)
  PROVE  /\ FirstName(request) = HeadName(request)
         /\ NamesOf(request) # {} => HeadName(request) \in NamesOf(request)
         /\ HeadName(request) = <<>> <=> NamesOf(request) = {}
<1> DEFINE services == request.services
<1>1. NamesOf(request) = ToSet(services)
  BY DEF NamesOf, ByName
<1>2. CASE services = <<>>
  <2>1. ToSet(services) = {}
    BY <1>2 DEF ToSet
  <2>2. QED
    BY <1>1, <1>2, <2>1 DEF FirstName, HeadName
<1>3. CASE services # <<>>
  <2>1. Head(services) \in ToSet(services) /\ HeadName(request) = Head(services)
    BY <1>3, HeadIsThere DEF ByName, HeadName
  <2>2. HeadName(request) # <<>>
    BY <2>1 DEF ByName
  <2>3. ASSUME NEW s \in NamesOf(request), NamesOf(request) = {s}
        PROVE  FirstName(request) = HeadName(request)
    BY <1>1, <2>1, <2>3 DEF FirstName
  <2>4. FirstName(request) = HeadName(request)
    BY <2>3 DEF FirstName
  <2>5. QED
    BY <1>1, <2>1, <2>2, <2>4
<1>4. QED
  BY <1>2, <1>3

LEMMA ByNameQuery ==
  ASSUME NEW request, ByName(request), AcceptsQuery(request)
  PROVE  /\ Query(request).service = HeadName(request)
         /\ Query(request).services = NamesOf(request)
         /\ Query(request).prefixes = {}
<1> DEFINE name == FirstName(request)
           filled == Filled(name, request.dims)
           q == Query(request)
<1>1. filled = [i \in 1 .. Dimensions |-> Parsed(name)[i]]
  BY DEF Filled, ByName, HasAny
<1>2. name = HeadName(request) /\ (name # <<>> => name \in NamesOf(request))
  BY FirstIsHead
<1>3. CASE HasAny(Parsed(name))
  <2>1. name # <<>>
    BY <1>3, ParsedEmpty, NoDimensionsIsBlank
  <2>2. IsList(name)
    BY <1>2, <2>1 DEF NamesOf, ByName
  <2>3. filled = name /\ HasAll(filled)
    BY <1>1, <1>3, <2>2, ParsedIsWhole
  <2> HIDE DEF filled, name
  <2>4. q.service = name /\ q.services = NamesOf(request)
    BY <1>2, <2>1, <2>3 DEF Query, filled, name
  <2>5. q.prefixes = {}
    BY <2>3 DEF Query, filled, name, ByName
  <2>6. QED
    BY <1>2, <2>4, <2>5
<1>4. CASE ~HasAny(Parsed(name))
  <2>1. Parsed(name) = NoDimensions
    <3>1. CASE name = <<>>
      BY <3>1, ParsedEmpty
    <3>2. CASE name # <<>>
      <4>1. IsList(name)
        BY <1>2, <3>2 DEF NamesOf, ByName
      <4>2. ASSUME Parsed(name) # NoDimensions PROVE FALSE
        <5>1. Parsed(name) = name /\ Len(name) = Dimensions /\ Blank \notin ToSet(name)
          BY <4>2 DEF Parsed
        <5>2. DOMAIN name = 1 .. Dimensions
          BY <4>1, <5>1 DEF IsList
        <5>3. 1 \in DOMAIN name
          BY <5>2, NamesAssumption
        <5>4. QED
          BY <1>4, <5>1, <5>3 DEF HasAny, ToSet
      <4>3. QED
        BY <4>2
    <3>3. QED
      BY <3>1, <3>2
  <2>2. filled = NoDimensions
    BY <1>1, <2>1 DEF NoDimensions
  <2>3. ~HasAll(filled) /\ Hierarchy(filled) = <<>>
    BY <2>2, NoDimensionsIsBlank, HierarchyOfNone
  <2> HIDE DEF filled, name
  <2>4. q.service = name /\ q.services = NamesOf(request) /\ q.prefixes = {}
    BY <2>3 DEF Query, filled, name, ByName
  <2>5. QED
    BY <1>2, <2>4
<1>5. QED
  BY <1>3, <1>4

\* What is scraped by name and what is queried by name match the same.
LEMMA ScrapeMatches ==
  ASSUME NEW request, ByName(request), AcceptsQuery(request), request.endpoint # Blank, NEW v
  PROVE  MatchQuery(v, Query(request)) <=>
           MatchQuery(v, ScrapeQuery(request)) /\ AnyServes(v.endpoints, request.endpoint)
<1> DEFINE q == Query(request)
           sq == ScrapeQuery(request)
<1>1. /\ q.service = HeadName(request) /\ q.services = NamesOf(request) /\ q.prefixes = {}
      /\ q.namespace = request.namespace /\ q.zone = request.zone
      /\ q.selector = Selector(request.selector) /\ q.endpoint = request.endpoint
  BY ByNameQuery DEF Query
<1>2. /\ sq.service = HeadName(request) /\ sq.services = {} /\ sq.prefixes = {}
      /\ sq.namespace = request.namespace /\ sq.zone = request.zone
      /\ sq.selector = Selector(request.selector) /\ sq.endpoint = Blank
  BY DEF ScrapeQuery
<1> HIDE DEF q, sq
<1>3. MatchService(v.service, q) <=> MatchService(v.service, sq)
  BY <1>1, <1>2, FirstIsHead DEF MatchService
<1>4. MatchQuery(v, q) <=> MatchQuery(v, sq) /\ AnyServes(v.endpoints, request.endpoint)
  BY <1>1, <1>2, <1>3 DEF MatchQuery
<1>5. QED
  BY <1>4 DEF q, sq

LEMMA SoundIsScraped ==
  ASSUME StoreInv(store) PROVE ScrapedIsQueried
<1>1. SUFFICES ASSUME NEW request \in Requests, AcceptsQuery(request),
                      request.endpoint # Blank, request.limit = 0, ~HasAny(request.dims),
                      request.prefixes \subseteq {<<>>}, <<>> \notin ToSet(request.services)
               PROVE  LET answer == Local(Query(request))
                          targets == TargetsIn(store, request)
                      IN /\ \A t, u \in targets : t.key = u.key => t = u
                         /\ {t.key : t \in targets}
                              = {k \in DOMAIN answer :
                                   Head(answer[k].endpoints).host \notin Unspecified}
  BY DEF ScrapedIsQueried
<1> DEFINE q == Query(request)
           answer == Local(q)
           e == request.endpoint
           host(k) == ScrapeEndpoint(store[k], e).host
           scraped == {k \in DOMAIN store : /\ Visible(store[k], ScrapeQuery(request))
                                            /\ AnyServes(store[k].endpoints, e)
                                            /\ host(k) \notin Unspecified}
<1>2. TargetsIn(store, request) = {[key |-> k, host |-> host(k)] : k \in scraped}
  BY <1>1 DEF TargetsIn
<1>3. ByName(request)
  BY <1>1, InputsAssumption DEF ByName
<1>4. /\ DOMAIN answer = Found(store, q)
      /\ \A k \in Found(store, q) : answer[k] = Shown(store[k], q)
      /\ q.namespace = request.namespace /\ q.endpoint = e
  BY <1>1, LocalWithoutLimit DEF Query
<1>5. ASSUME NEW k \in Found(store, q) PROVE Head(answer[k].endpoints).host = host(k)
  <2>1. answer[k].endpoints = Filtered(store[k].endpoints, e)
    BY <1>4 DEF Shown, StoreInv, Sound, Found
  <2>2. QED
    BY <2>1 DEF ScrapeEndpoint
<1>6. ASSUME NEW k \in DOMAIN store
      PROVE  k \in Found(store, q) <=>
               /\ Visible(store[k], ScrapeQuery(request)) /\ AnyServes(store[k].endpoints, e)
  <2>1. MatchQuery(store[k], q) <=>
          MatchQuery(store[k], ScrapeQuery(request)) /\ AnyServes(store[k].endpoints, e)
    BY <1>1, <1>3, ScrapeMatches
  <2>2. k[1] = store[k].namespace
    BY DEF StoreInv, KeyOf, Key
  <2>3. MatchQuery(store[k], q) => k[1] = q.namespace
    BY <1>1, <1>4, <2>2 DEF MatchQuery, AcceptsQuery
  <2>4. QED
    BY <2>1, <2>3 DEF Found, Visible
<1>7. Found(store, q) \subseteq DOMAIN store
  BY DEF Found
<1> HIDE DEF q, answer, host, e
<1>8. scraped = {k \in DOMAIN answer : Head(answer[k].endpoints).host \notin Unspecified}
  BY <1>4, <1>5, <1>6, <1>7
<1> HIDE DEF scraped
<1>9. {t.key : t \in {[key |-> k, host |-> host(k)] : k \in scraped}} = scraped
  <2> DEFINE targets == {[key |-> k, host |-> host(k)] : k \in scraped}
  <2>1. ASSUME NEW k \in scraped PROVE \E t \in targets : t.key = k
    <3>1. [key |-> k, host |-> host(k)] \in targets
      BY Zenon
    <3>2. [key |-> k, host |-> host(k)].key = k
      OBVIOUS
    <3>3. QED
      BY <3>1, <3>2, Zenon
  <2>2. ASSUME NEW t \in targets PROVE t.key \in scraped
    <3>1. PICK k \in scraped : t = [key |-> k, host |-> host(k)]
      OBVIOUS
    <3>2. QED
      BY <3>1
  <2> HIDE DEF targets
  <2>3. {t.key : t \in targets} = scraped
    BY <2>1, <2>2
  <2>4. QED
    BY <2>3 DEF targets
<1>10. ASSUME NEW t \in {[key |-> k, host |-> host(k)] : k \in scraped},
              NEW u \in {[key |-> k, host |-> host(k)] : k \in scraped}, t.key = u.key
       PROVE  t = u
  <2>1. PICK k \in scraped : t = [key |-> k, host |-> host(k)]
    OBVIOUS
  <2>2. PICK j \in scraped : u = [key |-> j, host |-> host(j)]
    OBVIOUS
  <2>3. QED
    BY <1>10, <2>1, <2>2
<1>11. QED
  BY <1>2, <1>8, <1>9, <1>10 DEF q, answer

(* A scrape for a named endpoint and a query for the same have the same    *)
(* targets, each once: the local answer of the query, without the          *)
(* instances whose first such endpoint has no address to connect to.       *)
THEOREM ScrapedIsQueriedAlways == ViewSpec => []ScrapedIsQueried
<1>1. WatchInv => ScrapedIsQueried
  BY SoundIsScraped DEF WatchInv
<1>2. QED
  BY <1>1, WatchInvAlways, PTL

-----------------------------------------------------------------------------
\* What a request asks for, and what its query matches.

\* The positions of a list are finitely many, and so are its members.
LEMMA ListIsFinite ==
  ASSUME NEW s, IsList(s)
  PROVE  IsFiniteSet(ToSet(s))
<1>1. s \in Seq(ToSet(s))
  BY DEF IsList
<1>2. DOMAIN s = 1 .. Len(s) /\ Len(s) \in Nat
  BY <1>1
<1>3. IsFiniteSet(1 .. Len(s))
  BY <1>2, FS_Interval
<1>4. s \in Surjection(1 .. Len(s), ToSet(s))
  BY <1>1, <1>2 DEF Surjection, ToSet
<1>5. QED
  BY <1>3, <1>4, FS_Surjection

\* A request of at most one name: its first name is that name, or empty.
LEMMA OneName ==
  ASSUME NEW request, IsList(request.services), Cardinality(NamesOf(request)) <= 1
  PROVE  NamesOf(request) = IF FirstName(request) = <<>> THEN {} ELSE {FirstName(request)}
<1> DEFINE names == NamesOf(request)
<1>1. IsFiniteSet(ToSet(request.services)) /\ names \in SUBSET ToSet(request.services)
  BY ListIsFinite DEF NamesOf
<1>2. IsFiniteSet(names) /\ Cardinality(names) \in Nat
  BY <1>1, FS_Subset, FS_CardinalityType
<1>3. Cardinality(names) = 0 \/ Cardinality(names) = 1
  BY <1>2
<1>4. CASE names = {}
  <2>1. FirstName(request) = HeadName(request)
    BY <1>4 DEF FirstName
  <2>2. ASSUME request.services # <<>> PROVE Head(request.services) = <<>>
    BY <1>4, <2>2, HeadIsThere DEF NamesOf
  <2>3. HeadName(request) = <<>>
    BY <2>2 DEF HeadName
  <2>4. QED
    BY <1>4, <2>1, <2>3
<1>5. CASE \E s : names = {s}
  <2>1. PICK s : names = {s}
    BY <1>5
  <2>2. s \in names /\ s # <<>>
    BY <2>1 DEF NamesOf
  <2>3. FirstName(request) = s
    BY <2>1, <2>2 DEF FirstName
  <2>4. QED
    BY <2>1, <2>2, <2>3
<1>6. names = {} \/ \E s : names = {s}
  BY <1>2, <1>3, FS_EmptySet, FS_Singleton
<1>7. QED
  BY <1>4, <1>5, <1>6

LEMMA GreatestOf ==
  ASSUME NEW m \in Nat, NEW S \in SUBSET (1 .. m), S # {}
  PROVE  Max(S) \in S /\ \A x \in S : x <= Max(S)
<1> DEFINE T == {m - s : s \in S}
<1>1. T \subseteq Nat /\ T # {}
  OBVIOUS
<1> HIDE DEF T
<1>2. \E n \in T : \A l \in T : ~(<<l, n>> \in OpToRel(<, Nat))
  BY <1>1, NatLessThanWellFounded, WFMin
<1>3. PICK n \in T : \A l \in T : ~(l < n)
  BY <1>1, <1>2 DEF OpToRel
<1>4. PICK b \in S : n = m - b
  BY <1>3 DEF T
<1>5. ASSUME NEW y \in S PROVE y <= b
  <2>1. ~(m - y < m - b)
    BY <1>3, <1>4 DEF T
  <2>2. m \in Int /\ b \in Int /\ y \in Int
    OBVIOUS
  <2>3. QED
    BY <2>1, <2>2
<1>6. Max(S) = b
  <2>1. S \subseteq Int /\ \A y \in S : y <= b
    BY <1>5
  <2>2. QED
    BY <2>1, MaxIsGreatest
<1>7. QED
  BY <1>5, <1>6

LEMMA PositionsBetween ==
  \A g \in 1 .. Dimensions : /\ g \in 0 .. Dimensions /\ g \in Int
                             /\ g < Dimensions => g + 1 \in 1 .. Dimensions /\ ~(g + 1 <= g)
                             /\ \A i \in 1 .. g : i \in 1 .. Dimensions /\ (i = g \/ i < g)
BY NamesAssumption

\* Dimensions without a gap: the given ones are those before the first blank.
LEMMA GivenIsLead ==
  ASSUME NEW dims, dims = [i \in 1 .. Dimensions |-> dims[i]], HasAny(dims), ~HasGap(dims)
  PROVE  LET given == {i \in 1 .. Dimensions : dims[i] # Blank}
         IN  Hierarchy(dims) = SubSeq(dims, 1, Max(given)) /\ Hierarchy(dims) # <<>>
<1> DEFINE given == {i \in 1 .. Dimensions : dims[i] # Blank}
           g == Max(given)
<1>1. DOMAIN dims = 1 .. Dimensions
  BY Zenon
<1>2. given # {} /\ given \in SUBSET (1 .. Dimensions) /\ Dimensions \in Nat
  BY <1>1, NamesAssumption DEF HasAny
<1>3. \A i \in 1 .. Dimensions : i \in given <=> dims[i] # Blank
  OBVIOUS
<1> HIDE DEF given
<1>4. g \in given /\ \A i \in given : i <= g
  BY <1>2, GreatestOf
<1>5. g \in 1 .. Dimensions
  BY <1>2, <1>4
<1> HIDE DEF g
<1>6. ASSUME NEW i \in 1 .. g PROVE dims[i] # Blank
  <2>1. i \in 1 .. Dimensions /\ (i = g \/ i < g)
    BY <1>5, PositionsBetween
  <2>2. QED
    BY <1>1, <1>3, <1>4, <1>5, <2>1, Zenon DEF HasGap
<1>7. ASSUME g < Dimensions PROVE dims[g + 1] = Blank
  BY <1>3, <1>4, <1>5, <1>7, PositionsBetween, Zenon
<1>8. g \in 0 .. Dimensions
  BY <1>5, PositionsBetween
<1>9. Hierarchy(dims) = SubSeq(dims, 1, g)
  BY <1>6, <1>7, <1>8, HierarchyIsLead
<1>10. SubSeq(dims, 1, g) # <<>>
  <2>1. SubSeq(dims, 1, g) = [i \in 1 .. g |-> dims[i]]
    BY <1>5, NamesAssumption
  <2>2. QED
    BY <1>5, <2>1, NamesAssumption
<1>11. QED
  BY <1>9, <1>10 DEF g, given

-----------------------------------------------------------------------------
\* Selectors: what a parsed requirement matches is what it means.

LEMMA FirstOperator ==
  ASSUME NEW there, there \in SUBSET (1 .. 5), there # {}
  PROVE  Min(there) \in there
<1>1. \E n \in there : \A l \in there : ~(<<l, n>> \in OpToRel(<, Nat))
  <2>1. there \subseteq Nat
    OBVIOUS
  <2>2. QED
    BY <2>1, NatLessThanWellFounded, WFMin
<1>2. PICK n \in there : \A l \in there : ~(l < n)
  BY <1>1 DEF OpToRel
<1>3. \A y \in there : n <= y
  BY <1>2
<1>4. QED
  BY <1>3 DEF Min

LEMMA ParsedOperation ==
  ASSUME NEW e
  PROVE  ParseExpression(e).op \in {"exists", "not_exists", "equals", "in", "not_equals", "not_in"}
<1> DEFINE there == {i \in DOMAIN Operators : Operators[i].token \in ToSet(e)}
           ops == {"exists", "not_exists", "equals", "in", "not_equals", "not_in"}
<1>1. \A i \in 1 .. 5 : Operators[i].op \in ops
  BY DEF Operators
<1>2. DOMAIN Operators = 1 .. 5
  BY DEF Operators
<1>3. there \in SUBSET (1 .. 5)
  BY <1>2
<1>4. \A o : Binary(e, o).op = o.op
  BY DEF Binary, Requirement
<1> HIDE DEF there, ops
<1>5. CASE there # {}
  <2>1. Min(there) \in 1 .. 5
    BY <1>3, <1>5, FirstOperator
  <2>2. ParseExpression(e) = Binary(e, Operators[Min(there)])
    BY <1>5 DEF ParseExpression, there
  <2>3. ParseExpression(e).op \in ops
    BY <1>1, <1>4, <2>1, <2>2
  <2>4. QED
    BY <2>3 DEF ops
<1>6. CASE there = {}
  <2>1. \/ ParseExpression(e) = Requirement(Tail(e), "not_exists", {})
        \/ ParseExpression(e) = Requirement(e, "exists", {})
    BY <1>6 DEF ParseExpression, there
  <2>2. QED
    BY <2>1 DEF Requirement
<1>7. QED
  BY <1>5, <1>6

LEMMA MatchesIsHolds ==
  ASSUME NEW r, NEW labels,
         r.op \in {"exists", "not_exists", "equals", "in", "not_equals", "not_in"}
  PROVE  MatchesRequirement(labels, r) <=> Holds(r, labels)
<1>1. CASE r.op = "exists"
  BY <1>1 DEF MatchesRequirement, Holds
<1>2. CASE r.op = "not_exists"
  BY <1>2 DEF MatchesRequirement, Holds
<1>3. CASE r.op \in {"equals", "in"}
  BY <1>3 DEF MatchesRequirement, Holds
<1>4. CASE r.op \in {"not_equals", "not_in"}
  BY <1>4 DEF MatchesRequirement, Holds
<1>5. QED
  BY <1>1, <1>2, <1>3, <1>4

LEMMA SelectorIsFilter ==
  ASSUME NEW text, NEW labels
  PROVE  (\A r \in Selector(text) : MatchesRequirement(labels, r))
           <=> (\A r \in Selector(text) : Holds(r, labels))
<1>1. ASSUME NEW r \in Selector(text)
      PROVE  r.op \in {"exists", "not_exists", "equals", "in", "not_equals", "not_in"}
  <2>1. PICK e : r = ParseExpression(e)
    BY DEF Selector
  <2>2. QED
    BY <2>1, ParsedOperation
<1>2. QED
  BY <1>1, MatchesIsHolds

\* A request of at most one name that ParseQuery accepts.
Asked(request) ==
  /\ AcceptsQuery(request)
  /\ IsList(request.services) /\ \A s \in ToSet(request.services) : IsList(s)
  /\ request.dims = [i \in 1 .. Dimensions |-> request.dims[i]]
  /\ NamesOf(request) = IF FirstName(request) = <<>> THEN {} ELSE {FirstName(request)}

LEMMA NameIsList ==
  ASSUME NEW request, Asked(request)
  PROVE  FirstName(request) = <<>> \/ IsList(FirstName(request))
BY DEF Asked, NamesOf

\* Without a name that tells the dimensions there are those given, no others.
LEMMA FilledIsGiven ==
  ASSUME NEW request, Asked(request), ~HasAll(Filled(FirstName(request), request.dims))
  PROVE  /\ Filled(FirstName(request), request.dims) = request.dims
         /\ ~HasAll(request.dims)
<1> DEFINE name == FirstName(request)
           dims == request.dims
           filled == Filled(name, dims)
<1>1. dims = [i \in 1 .. Dimensions |-> dims[i]] /\ DOMAIN dims = 1 .. Dimensions
  BY DEF Asked
<1>2. filled = [i \in 1 .. Dimensions |-> IF dims[i] = Blank THEN Parsed(name)[i] ELSE dims[i]]
  BY DEF Filled
<1>3. Parsed(name) = NoDimensions
  <2>1. CASE name = <<>>
    BY <2>1, ParsedEmpty
  <2>2. CASE name # <<>>
    <3>1. IsList(name)
      BY <2>2, NameIsList
    <3>2. ASSUME Parsed(name) # NoDimensions PROVE FALSE
      <4>1. Parsed(name) = name /\ Len(name) = Dimensions /\ Blank \notin ToSet(name)
        BY <3>2 DEF Parsed
      <4>2. DOMAIN name = 1 .. Dimensions
        BY <3>1, <4>1 DEF IsList
      <4>3. \A i \in 1 .. Dimensions : name[i] # Blank
        BY <4>1, <4>2 DEF ToSet
      <4>4. \A i \in 1 .. Dimensions : filled[i] # Blank
        BY <1>2, <4>1, <4>3
      <4>5. HasAll(filled)
        BY <1>2, <4>4 DEF HasAll
      <4>6. QED
        BY <4>5
    <3>3. QED
      BY <3>2
  <2>3. QED
    BY <2>1, <2>2
<1>4. filled = dims
  BY <1>1, <1>2, <1>3, NoDimensionsIsBlank
<1>5. QED
  BY <1>4

\* Names, dimensions and prefixes: a query matches the services asked for.
LEMMA ServicesAsked ==
  ASSUME NEW request, Asked(request), NEW s
  PROVE  MatchService(s, Query(request)) <=>
           /\ NamesOf(request) # {} => s \in NamesOf(request)
           /\ HasAll(request.dims) => s = request.dims
           /\ AskedPrefixes(request) # {} => \E p \in AskedPrefixes(request) : HasPrefix(s, p)
<1> DEFINE name == FirstName(request)
           dims == request.dims
           filled == Filled(name, dims)
           q == Query(request)
           given == {i \in 1 .. Dimensions : dims[i] # Blank}
<1>1. dims = [i \in 1 .. Dimensions |-> dims[i]] /\ DOMAIN dims = 1 .. Dimensions
  BY DEF Asked
<1>2. DOMAIN filled = 1 .. Dimensions /\ 1 \in 1 .. Dimensions
  BY NamesAssumption DEF Filled
<1>3. NamesOf(request) = IF name = <<>> THEN {} ELSE {name}
  BY DEF Asked
<1>4. HasAny(filled) => ~HasGap(filled) /\ (HasAll(filled) => name \in {<<>>, filled})
  BY DEF Asked, AcceptsQuery
<1>5. given = {} <=> ~HasAny(dims)
  BY <1>1 DEF HasAny
<1>6. CASE HasAll(filled)
  <2>1. HasAny(filled) /\ filled # <<>>
    <3>1. HasAny(filled)
      BY <1>2, <1>6 DEF HasAll, HasAny
    <3>2. DOMAIN <<>> = {}
      OBVIOUS
    <3> HIDE DEF filled
    <3>3. filled # <<>>
      BY <1>2, <3>2
    <3>4. QED
      BY <3>1, <3>3
  <2>2. name \in {<<>>, filled}
    BY <1>4, <1>6, <2>1
  <2>3. AskedPrefixes(request) = request.prefixes \ {<<>>}
    BY <1>6 DEF AskedPrefixes
  <2>4. HasAll(dims) => filled = dims
    <3>1. SUFFICES ASSUME HasAll(dims) PROVE filled = dims
      OBVIOUS
    <3>2. \A i \in 1 .. Dimensions : dims[i] # Blank
      BY <1>1, <3>1 DEF HasAll
    <3>3. QED
      BY <1>1, <3>2 DEF Filled
  <2>5. ~HasAll(dims) => name # <<>>
    <3>1. SUFFICES ASSUME name = <<>> PROVE HasAll(dims)
      OBVIOUS
    <3>2. \A i \in 1 .. Dimensions :
            filled[i] = IF dims[i] = Blank THEN NoDimensions[i] ELSE dims[i]
      BY <3>1, ParsedEmpty DEF Filled
    <3>3. \A i \in 1 .. Dimensions : dims[i] # Blank
      BY <1>2, <1>6, <3>2, NoDimensionsIsBlank DEF HasAll
    <3>4. QED
      BY <1>1, <3>3 DEF HasAll
  <2> HIDE DEF filled, name, dims
  <2>6. /\ q.service = filled /\ q.services = NamesOf(request) \cup {filled}
        /\ q.prefixes = request.prefixes \ {<<>>}
    BY <1>6 DEF Query, filled, name, dims
  <2> HIDE DEF q
  <2>7. MatchService(s, q) <=>
          /\ s = filled
          /\ request.prefixes \ {<<>>} # {} =>
               \E p \in request.prefixes \ {<<>>} : HasPrefix(s, p)
    BY <1>3, <2>1, <2>2, <2>6 DEF MatchService
  <2>8. s = filled <=> (NamesOf(request) # {} => s \in NamesOf(request))
                         /\ (HasAll(dims) => s = dims)
    BY <1>3, <2>2, <2>4, <2>5
  <2>9. QED
    BY <2>3, <2>7, <2>8 DEF q, dims
<1>7. CASE ~HasAll(filled)
  <2>1. filled = dims /\ ~HasAll(dims)
    BY <1>7, FilledIsGiven
  <2>2. AskedPrefixes(request) = (request.prefixes \cup {Hierarchy(filled)}) \ {<<>>}
    <3>1. CASE HasAny(dims)
      <4>1. Hierarchy(dims) = SubSeq(dims, 1, Max(given)) /\ Hierarchy(dims) # <<>>
        BY <1>1, <1>4, <2>1, <3>1, GivenIsLead
      <4>2. given # {}
        BY <1>5, <3>1
      <4> HIDE DEF filled, name
      <4>3. AskedPrefixes(request)
              = (request.prefixes \ {<<>>}) \cup {SubSeq(dims, 1, Max(given))}
        BY <1>7, <4>2 DEF AskedPrefixes, filled, name
      <4>4. QED
        BY <2>1, <4>1, <4>3
    <3>2. CASE ~HasAny(dims)
      <4>1. \A i \in 1 .. Dimensions : dims[i] = Blank
        BY <1>1, <3>2 DEF HasAny
      <4>2. dims = NoDimensions
        BY <1>1, <4>1 DEF NoDimensions
      <4>3. Hierarchy(filled) = <<>>
        BY <2>1, <4>2, HierarchyOfNone
      <4>4. given = {}
        BY <1>5, <3>2
      <4>5. AskedPrefixes(request) = request.prefixes \ {<<>>}
        BY <4>4 DEF AskedPrefixes
      <4>6. QED
        BY <4>3, <4>5
    <3>3. QED
      BY <3>1, <3>2
  <2> HIDE DEF filled, name
  <2>3. /\ q.service = name /\ q.services = NamesOf(request)
        /\ q.prefixes = (request.prefixes \cup {Hierarchy(filled)}) \ {<<>>}
    BY <1>7 DEF Query, filled, name
  <2> HIDE DEF q
  <2>4. MatchService(s, q) <=>
          /\ NamesOf(request) # {} => s \in NamesOf(request)
          /\ AskedPrefixes(request) # {} => \E p \in AskedPrefixes(request) : HasPrefix(s, p)
    BY <1>3, <2>2, <2>3 DEF MatchService
  <2>5. QED
    BY <2>1, <2>4 DEF q
<1>8. QED
  BY <1>6, <1>7

-----------------------------------------------------------------------------
\* The answers of queries.

\* The text of every request's selector says what its filter means.
FiltersAreParsed ==
  \A request \in Requests : AcceptsQuery(request) => request.filter = Selector(request.selector)

LEMMA WantedIsFound ==
  ASSUME NEW values, ServedInv(values), NEW request, Asked(request),
         request.filter = Selector(request.selector),
         \A k \in DOMAIN values, p \in AskedPrefixes(request) :
           HasPrefix(k[2], p) <=> IsPrefix(p, k[2])
  PROVE  {k \in DOMAIN values : Wanted(values[k], request)} = Found(values, Query(request))
<1> DEFINE q == Query(request)
<1>1. /\ q.namespace = request.namespace /\ q.zone = request.zone
      /\ q.selector = Selector(request.selector) /\ q.endpoint = request.endpoint
  BY DEF Query
<1>2. request.namespace # Blank
  BY DEF Asked, AcceptsQuery
<1> HIDE DEF q
<1>3. ASSUME NEW k \in DOMAIN values
      PROVE  Wanted(values[k], request) <=> k[1] = q.namespace /\ Visible(values[k], q)
  <2> DEFINE v == values[k]
  <2>1. k[1] = v.namespace /\ k[2] = v.service /\ DOMAIN v.endpoints # {}
    BY DEF ServedInv, KeyOf, Key
  <2> HIDE DEF v
  <2>2. MatchService(v.service, q) <=>
          /\ NamesOf(request) # {} => v.service \in NamesOf(request)
          /\ HasAll(request.dims) => v.service = request.dims
          /\ AskedPrefixes(request) # {} =>
               \E p \in AskedPrefixes(request) : IsPrefix(p, v.service)
    BY <2>1, ServicesAsked DEF q
  <2>3. (\A r \in q.selector : MatchesRequirement(v.labels, r))
          <=> (\A r \in request.filter : Holds(r, v.labels))
    BY <1>1, SelectorIsFilter
  <2>4. (q.endpoint # Blank => AnyServes(v.endpoints, q.endpoint))
          <=> \E i \in DOMAIN v.endpoints :
                request.endpoint \in {Blank, v.endpoints[i].name, v.endpoints[i].protocol}
    BY <1>1, <2>1 DEF AnyServes, Serves
  <2>5. MatchQuery(v, q) /\ k[1] = q.namespace /\ IsAlive(v) <=> Wanted(v, request)
    BY <1>1, <1>2, <2>1, <2>2, <2>3, <2>4 DEF MatchQuery, Wanted
  <2>6. QED
    BY <2>5 DEF Visible, v
<1>4. QED
  BY <1>3 DEF Found, q

\* Of a finite set there are as many first ones as there are members.
LEMMA SomeOf ==
  ASSUME NEW S, IsFiniteSet(S), NEW n \in Nat, n <= Cardinality(S)
  PROVE  \E T \in SUBSET S : Cardinality(T) = n
<1>1. Cardinality(S) \in Nat /\ ExistsBijection(1 .. Cardinality(S), S)
  BY FS_CardinalityType
<1>2. PICK f : f \in Bijection(1 .. Cardinality(S), S)
  BY <1>1 DEF ExistsBijection
<1>3. /\ f \in [1 .. Cardinality(S) -> S]
      /\ \A i, j \in 1 .. Cardinality(S) : f[i] = f[j] => i = j
  BY <1>2 DEF Bijection, Injection, IsInjective
<1> DEFINE T == {f[i] : i \in 1 .. n}
           g == [i \in 1 .. n |-> f[i]]
<1>4. 1 .. n \subseteq 1 .. Cardinality(S)
  BY <1>1
<1>5. T \in SUBSET S
  BY <1>3, <1>4
<1>6. g \in Bijection(1 .. n, T)
  <2>1. g \in [1 .. n -> T] /\ \A i, j \in 1 .. n : g[i] = g[j] => i = j
    BY <1>3, <1>4
  <2>2. \A t \in T : \E i \in 1 .. n : g[i] = t
    OBVIOUS
  <2> HIDE DEF g, T
  <2>3. QED
    BY <2>1, <2>2 DEF Bijection, Injection, Surjection, IsInjective
<1>7. Cardinality(T) = n
  <2> HIDE DEF g, T
  <2>1. ExistsBijection(1 .. n, T)
    BY <1>6 DEF ExistsBijection
  <2>2. QED
    BY <2>1, FS_CountingElements
<1>8. QED
  BY <1>5, <1>7

LEMMA LimitedIsEnough ==
  ASSUME NEW keys, IsFiniteSet(keys), NEW limit \in Int, limit >= 0
  PROVE  /\ Limited(keys, limit) \subseteq keys
         /\ \/ Limited(keys, limit) = keys
            \/ limit > 0 /\ Cardinality(Limited(keys, limit)) = limit
         /\ Limited(keys, limit) = {} <=> keys = {}
<1>1. CASE limit = 0 \/ Cardinality(keys) <= limit
  BY <1>1 DEF Limited
<1>2. CASE ~(limit = 0 \/ Cardinality(keys) <= limit)
  <2>1. Cardinality(keys) \in Nat
    BY FS_CardinalityType
  <2>2. limit \in Nat /\ limit > 0 /\ limit <= Cardinality(keys)
    BY <1>2, <2>1
  <2>3. \E T \in SUBSET keys : Cardinality(T) = limit
    BY <2>2, SomeOf
  <2>4. Limited(keys, limit) \in SUBSET keys /\ Cardinality(Limited(keys, limit)) = limit
    BY <1>2, <2>3 DEF Limited
  <2>5. Limited(keys, limit) # {}
    BY <2>2, <2>4, FS_EmptySet
  <2>6. QED
    BY <2>2, <2>4, <2>5
<1>3. QED
  BY <1>1, <1>2

LEMMA AnswerIsWanted ==
  ASSUME StoreInv(store), ServedInv(remote), NEW request \in Requests, AcceptsQuery(request),
         Cardinality(NamesOf(request)) <= 1, request.filter = Selector(request.selector),
         PrefixesAreWhole(request)
  PROVE  Answered(request)
<1> DEFINE q == Query(request)
           here == {k \in DOMAIN store : Wanted(store[k], request)}
           there == {k \in DOMAIN remote : Wanted(remote[k], request)}
           wanted == IF here # {} THEN here ELSE there
<1>1. Asked(request)
  BY OneName, InputsAssumption DEF Asked
<1>2. here = Found(store, q) /\ there = Found(remote, q)
  BY <1>1, WantedIsFound, StoreIsServed DEF PrefixesAreWhole
<1>3. here \in SUBSET DOMAIN store /\ there \in SUBSET DOMAIN remote
  OBVIOUS
<1>4. IsFiniteSet(here) /\ IsFiniteSet(there)
  <2> HIDE DEF here, there
  <2>1. QED
    BY <1>3, FS_Subset DEF StoreInv, ServedInv
<1>5. q.limit = request.limit /\ q.limit \in Int /\ q.limit >= 0
  <2>1. request.limit \in Int /\ request.limit >= 0
    BY InputsAssumption DEF AcceptsQuery
  <2>2. QED
    BY <2>1 DEF Query
<1> HIDE DEF q, here, there
<1>6. DOMAIN Local(q) = Limited(here, q.limit)
  BY <1>2, ScanIsEnough DEF Local
<1>7. DOMAIN Replicated(q) = Limited(there, q.limit)
  <2>1. \A k \in DOMAIN remote : k[2] = remote[k].service
    BY DEF ServedInv, KeyOf, Key
  <2>2. {k \in DOMAIN remote : /\ k[1] = q.namespace /\ MatchService(k[2], q)
                               /\ Visible(remote[k], q)} = Found(remote, q)
    BY <2>1 DEF Found, Visible, MatchQuery
  <2>3. QED
    BY <1>2, <2>2 DEF Replicated
<1>8. DOMAIN QueryInstances(q) = Limited(wanted, q.limit)
  <2>1. Limited(here, q.limit) = {} <=> here = {}
    BY <1>4, <1>5, LimitedIsEnough
  <2>2. QED
    BY <1>6, <1>7, <2>1 DEF QueryInstances
<1>9. IsFiniteSet(wanted)
  BY <1>4
<1> HIDE DEF wanted
<1>10. /\ Limited(wanted, q.limit) \subseteq wanted
       /\ \/ Limited(wanted, q.limit) = wanted
          \/ q.limit > 0 /\ Cardinality(Limited(wanted, q.limit)) = q.limit
  BY <1>5, <1>9, LimitedIsEnough
<1>11. QED
  BY <1>5, <1>8, <1>10 DEF Answered, wanted, here, there, q

\* What was replicated, under its own keys as well.
LEMMA HoldingIsServed ==
  ASSUME NEW values, IsFiniteSet(values), \A v \in values : DOMAIN v.endpoints # {}
  PROVE  ServedInv(Holding(values))
<1> DEFINE keys == {KeyOf(v) : v \in values}
           byKey == [v \in values |-> KeyOf(v)]
           h == Holding(values)
<1>1. byKey \in Surjection(values, keys)
  BY DEF Surjection
<1>2. IsFiniteSet(keys)
  BY <1>1, FS_Surjection
<1>3. h = [k \in keys |-> CHOOSE v \in values : KeyOf(v) = k]
  BY DEF Holding
<1>4. ASSUME NEW k \in keys PROVE h[k] \in values /\ KeyOf(h[k]) = k
  <2>1. \E v \in values : KeyOf(v) = k
    BY <1>4
  <2>2. h[k] = CHOOSE v \in values : KeyOf(v) = k
    BY <1>3
  <2> HIDE DEF h, keys
  <2>3. QED
    BY <2>1, <2>2
<1> HIDE DEF h, keys
<1>5. ServedInv(h)
  BY <1>2, <1>3, <1>4 DEF ServedInv
<1>6. QED
  BY <1>5 DEF h

ReadInv == StoreInv(store) /\ ServedInv(remote)

LEMMA ReadInvAlways == ViewSpec => []ReadInv
<1>1. ASSUME ViewInit PROVE ServedInv(remote)
  <2>1. PICK rs \in Remotes : remote = Holding({ReplicatedValue(in, 1) : in \in rs})
    BY <1>1 DEF ViewInit
  <2> DEFINE values == {ReplicatedValue(in, 1) : in \in rs}
             made == [in \in rs |-> ReplicatedValue(in, 1)]
  <2>2. IsFiniteSet(rs) /\ \A in \in rs : IsList(in.endpoints) /\ Accepts(in)
    BY InputsAssumption
  <2>3. made \in Surjection(rs, values)
    BY DEF Surjection
  <2>4. IsFiniteSet(values)
    BY <2>2, <2>3, FS_Surjection
  <2>5. \A v \in values : DOMAIN v.endpoints # {}
    <3>1. SUFFICES ASSUME NEW in \in rs PROVE DOMAIN ReplicatedValue(in, 1).endpoints # {}
      OBVIOUS
    <3>2. Sound(NewValue(in, 1))
      BY <2>2, NewValueIsSound
    <3>3. ReplicatedValue(in, 1).endpoints = NewValue(in, 1).endpoints
      BY DEF ReplicatedValue, NewValue
    <3>4. QED
      BY <3>2, <3>3 DEF Sound
  <2>6. remote = Holding(values)
    BY <2>1
  <2> HIDE DEF values
  <2>7. QED
    BY <2>4, <2>5, <2>6, HoldingIsServed
<1>2. ASSUME ServedInv(remote), [ViewNext]_viewVars PROVE ServedInv(remote)'
  <2>1. remote' = remote
    BY <1>2 DEF ViewNext, viewVars, Register, Deregister, Heartbeat, Cleanup, Put, Delete,
                 Watch, Tick
  <2>2. QED
    BY <1>2, <2>1 DEF ServedInv
<1>3. ViewSpec => []ServedInv(remote)
  BY <1>1, <1>2, PTL DEF ViewSpec
<1>4. WatchInv => StoreInv(store)
  BY DEF WatchInv
<1>5. QED
  BY <1>3, <1>4, WatchInvAlways, PTL DEF ReadInv

(* Every query of at most one name is answered with the instances that it  *)
(* asks for, local ones first and no more than its limit, whatever its     *)
(* dimensions, prefixes and filter and whatever is stored or replicated,   *)
(* but for names that only the text of a prefix begins.                    *)
(* That the parser makes of a selector's text what it means is checked by  *)
(* runs only.                                                              *)
THEOREM QueryAnswersRequestAlways ==
  ASSUME FiltersAreParsed
  PROVE  ViewSpec => []QueryAnswersRequest
<1>1. ReadInv => QueryAnswersRequest
  BY AnswerIsWanted DEF ReadInv, QueryAnswersRequest, FiltersAreParsed
<1>2. QED
  BY <1>1, ReadInvAlways, PTL

-----------------------------------------------------------------------------
\* Type correctness.

LEMMA StepTypeOK == TypeOK /\ [Next]_vars => TypeOK'
<1> SUFFICES ASSUME TypeOK, [Next]_vars PROVE TypeOK'
  OBVIOUS
<1>0. MaxCommit \in Nat \ {0} /\ CtxOf \in [Readers -> Contexts] /\ MaxDrops \in Nat
  BY ConstantsAssumption
<1> USE <1>0
<1>1. CASE Commit
  BY <1>1 DEF TypeOK, Commit, callVars
<1>2. CASE Apply
  BY <1>2 DEF TypeOK, Apply, callVars, Position
<1>3. CASE Stop
  BY <1>3 DEF TypeOK, Stop, callVars, raftVars
<1>4. ASSUME NEW c \in Contexts, Confirm(c) PROVE TypeOK'
  <2>1. asked' \in [Contexts -> Position] /\ states' \subseteq Contexts \X Position
    BY <1>4 DEF TypeOK, Confirm, Position
  <2>2. QED
    BY <1>4, <2>1 DEF TypeOK, Confirm, callVars
<1>5. ASSUME NEW c \in Contexts, Drop(c) PROVE TypeOK'
  <2>1. asked' \in [Contexts -> Position] /\ states' \subseteq Contexts \X Position
    BY <1>5 DEF TypeOK, Drop, Position
  <2>2. drops' \in 0 .. MaxDrops
    BY <1>5 DEF TypeOK, Drop
  <2>3. QED
    BY <1>5, <2>1, <2>2 DEF TypeOK, Drop, callVars
<1>6. ASSUME NEW c \in Contexts, NEW i \in 1 .. MaxCommit, HandleReadState(c, i)
      PROVE  TypeOK'
  <2>1. chan' \in [Readers -> Channel]
    BY <1>6 DEF TypeOK, HandleReadState, Channel, Position
  <2>2. states' \subseteq Contexts \X Position
    BY <1>6 DEF TypeOK, HandleReadState
  <2>3. QED
    BY <1>6, <2>1, <2>2 DEF TypeOK, HandleReadState
<1>7. ASSUME NEW r \in Readers, RegisterWaiter(r) PROVE TypeOK'
  BY <1>7 DEF TypeOK, RegisterWaiter, raftVars, Position
<1>8. ASSUME NEW r \in Readers, Ask(r) PROVE TypeOK'
  <2>1. asked' \in [Contexts -> Position]
    BY <1>8 DEF TypeOK, Ask, Position
  <2>2. QED
    BY <1>8, <2>1 DEF TypeOK, Ask
<1>9. ASSUME NEW r \in Readers, GiveUp(r) PROVE TypeOK'
  <2>1. chan' \in [Readers -> Channel]
    <3>1. chan' = chan \/ \E w \in Readers : chan' = [chan EXCEPT ![w].open = FALSE]
      BY <1>9 DEF TypeOK, GiveUp, RemoveWaiter
    <3>2. chan \in [Readers -> Channel]
      BY <1>9 DEF TypeOK
    <3>3. QED
      BY <3>1, <3>2 DEF Channel
  <2>2. waiters' \in [Contexts -> Readers \cup {NoReader}]
    BY <1>9 DEF TypeOK, GiveUp, RemoveWaiter
  <2>3. QED
    BY <1>9, <2>1, <2>2 DEF TypeOK, GiveUp, raftVars
<1>10. ASSUME NEW r \in Readers, Receive(r) PROVE TypeOK'
  <2>1. chan' \in [Readers -> Channel] /\ readIndex' \in [Readers -> Position]
    BY <1>10 DEF TypeOK, Receive, Channel, Position
  <2>2. QED
    BY <1>10, <2>1 DEF TypeOK, Receive, raftVars
<1>11. ASSUME NEW r \in Readers, Served(r) \/ GiveUpPolling(r) PROVE TypeOK'
  BY <1>11 DEF TypeOK, Served, GiveUpPolling, raftVars
<1>12. CASE UNCHANGED vars
  BY <1>12 DEF TypeOK, vars, raftVars, callVars
<1>13. QED
  BY <1>1, <1>2, <1>3, <1>4, <1>5, <1>6, <1>7, <1>8, <1>9, <1>10, <1>11, <1>12
     DEF Next, CallStep

LEMMA InitTypeOK == Init => TypeOK
<1> SUFFICES ASSUME Init PROVE TypeOK
  OBVIOUS
<1>1. 0 \in Position /\ 1 \in Position /\ 1 \in 1 .. MaxCommit /\ 0 \in 0 .. MaxDrops
  BY ConstantsAssumption DEF Position
<1>2. chan \in [Readers -> Channel]
  BY <1>1 DEF Init, Channel
<1>3. QED
  BY <1>1, <1>2 DEF Init, TypeOK

\* Every reachable state has its variables in their types.
THEOREM TypeCorrect == Spec => []TypeOK
BY InitTypeOK, StepTypeOK, PTL DEF Spec

-----------------------------------------------------------------------------
\* The waiters, whatever calls share a context.

Empty == [buf |-> 0, open |-> TRUE]

\* The channel that a call is about to register is fresh.
FreshChannel == \A r \in Readers : pc[r] = "new" => chan[r] = Empty

WaitersInv == TypeOK /\ WaitersAreLive /\ FreshChannel

LEMMA StepWaiters == WaitersInv /\ [Next]_vars => WaitersInv'
<1> SUFFICES ASSUME WaitersInv, [Next]_vars PROVE WaitersInv'
  OBVIOUS
<1>0. TypeOK /\ TypeOK' /\ CtxOf \in [Readers -> Contexts] /\ NoReader \notin Readers
  BY StepTypeOK, ConstantsAssumption DEF WaitersInv
<1>1. ASSUME NEW c \in Contexts, NEW i \in 1 .. MaxCommit, HandleReadState(c, i)
      PROVE  WaitersInv'
  <2>1. WaitersAreLive'
    BY <1>0, <1>1 DEF WaitersInv, TypeOK, HandleReadState, WaitersAreLive
  <2>2. FreshChannel'
    BY <1>0, <1>1 DEF WaitersInv, TypeOK, HandleReadState, WaitersAreLive,
                      FreshChannel
  <2>3. QED
    BY <1>0, <2>1, <2>2 DEF WaitersInv
<1>2. ASSUME NEW r \in Readers, RegisterWaiter(r) PROVE WaitersInv'
  <2>0. pc[r] = "new"
    BY <1>2 DEF RegisterWaiter
  <2>1. /\ UNCHANGED chan
        /\ pc' = [pc EXCEPT ![r] = "registered"]
        /\ waiters' = [waiters EXCEPT ![CtxOf[r]] = r]
    BY <1>2 DEF RegisterWaiter
  <2>2. chan[r] = Empty
    BY <2>0 DEF WaitersInv, FreshChannel
  <2>3. WaitersAreLive'
    <3> SUFFICES ASSUME NEW c \in Contexts, waiters'[c] # NoReader
                 PROVE  /\ CtxOf[waiters'[c]] = c
                        /\ chan[waiters'[c]] = [buf |-> 0, open |-> TRUE]
                        /\ pc'[waiters'[c]] \in {"registered", "waiting"}
      BY <2>1 DEF WaitersAreLive
    <3>1. CASE c = CtxOf[r]
      <4>1. waiters'[c] = r /\ pc'[r] = "registered"
        BY <1>0, <2>1, <3>1 DEF TypeOK
      <4>2. QED
        BY <2>2, <3>1, <4>1 DEF Empty
    <3>2. CASE c # CtxOf[r]
      <4>1. waiters'[c] = waiters[c]
        BY <1>0, <2>1, <3>2 DEF TypeOK
      <4>2. waiters[c] \in Readers \ {r}
        BY <1>0, <3>2, <4>1 DEF TypeOK, WaitersInv, WaitersAreLive
      <4>3. pc'[waiters[c]] = pc[waiters[c]]
        BY <1>0, <2>1, <4>2 DEF TypeOK
      <4>4. QED
        BY <4>1, <4>3 DEF WaitersInv, WaitersAreLive
    <3>3. QED
      BY <3>1, <3>2
  <2>4. FreshChannel'
    BY <1>0, <2>1 DEF WaitersInv, TypeOK, FreshChannel
  <2>5. QED
    BY <1>0, <2>3, <2>4 DEF WaitersInv
<1>3. ASSUME NEW r \in Readers, Ask(r) PROVE WaitersInv'
  BY <1>0, <1>3 DEF WaitersInv, TypeOK, Ask, WaitersAreLive, FreshChannel, Empty
<1>4. ASSUME NEW r \in Readers, GiveUp(r) PROVE WaitersInv'
  <2>1. WaitersAreLive'
    BY <1>0, <1>4 DEF WaitersInv, TypeOK, GiveUp, RemoveWaiter, WaitersAreLive
  <2>2. FreshChannel'
    BY <1>0, <1>4 DEF WaitersInv, TypeOK, GiveUp, RemoveWaiter, WaitersAreLive,
                      FreshChannel
  <2>3. QED
    BY <1>0, <2>1, <2>2 DEF WaitersInv
<1>5. ASSUME NEW r \in Readers, Receive(r) PROVE WaitersInv'
  <2>1. \A c \in Contexts : waiters[c] # r
    BY <1>0, <1>5 DEF WaitersInv, Receive, WaitersAreLive
  <2>2. WaitersAreLive'
    BY <1>0, <1>5, <2>1 DEF WaitersInv, TypeOK, Receive, WaitersAreLive
  <2>3. FreshChannel'
    BY <1>0, <1>5 DEF WaitersInv, TypeOK, Receive, FreshChannel
  <2>4. QED
    BY <1>0, <2>2, <2>3 DEF WaitersInv
<1>6. ASSUME NEW r \in Readers, Served(r) \/ GiveUpPolling(r) PROVE WaitersInv'
  BY <1>0, <1>6 DEF WaitersInv, TypeOK, Served, GiveUpPolling, WaitersAreLive,
                    FreshChannel
<1>7. ASSUME UNCHANGED <<waiters, chan, pc>> PROVE WaitersInv'
  BY <1>0, <1>7 DEF WaitersInv, WaitersAreLive, FreshChannel
<1>8. QED
  BY <1>1, <1>2, <1>3, <1>4, <1>5, <1>6, <1>7
     DEF Next, CallStep, Commit, Apply, Stop, Confirm, Drop, vars, callVars

\* For every set of calls and every choice of contexts, a registered channel is
\* open, empty and still waited for: handleReadStates and removeWaiter neither
\* block nor close a channel twice.
THEOREM WaitersAreLiveAlways == Spec => []WaitersAreLive
<1>1. Init => WaitersInv
  BY InitTypeOK DEF Init, WaitersInv, WaitersAreLive, FreshChannel, Empty
<1>2. WaitersInv => WaitersAreLive
  BY DEF WaitersInv
<1>3. QED
  BY <1>1, <1>2, StepWaiters, PTL DEF Spec

-----------------------------------------------------------------------------
\* Linearizable reads, for the calls that share their context with no other.

\* raft was not asked for the context of a call that has not asked.
NotAskedYet ==
  \A r \in Alone :
    pc[r] \in {"new", "registered"} =>
      /\ asked[CtxOf[r]] = 0
      /\ \A i \in Position : <<CtxOf[r], i>> \notin states

\* What raft notes and answers for a context is no older than its call.
AnswersAreFresh ==
  \A r \in Alone :
    /\ asked[CtxOf[r]] # 0 => asked[CtxOf[r]] >= startedAt[r]
    /\ \A i \in Position : <<CtxOf[r], i>> \in states => i # 0 /\ i >= startedAt[r]

\* A call that waits is registered, or its answer is in its channel.
WaitsForAnswer ==
  \A r \in Alone :
    pc[r] \in {"registered", "waiting"} =>
      \/ waiters[CtxOf[r]] = r
      \/ pc[r] = "waiting" /\ chan[r].buf # 0 /\ chan[r].buf >= startedAt[r]

GotAnswer ==
  \A r \in Alone :
    /\ pc[r] \in {"polling", "done"} => readIndex[r] # 0 /\ readIndex[r] >= startedAt[r]
    /\ pc[r] = "done" => servedAt[r] >= startedAt[r]
    /\ startedAt[r] <= commit

FreshInv ==
  WaitersInv /\ NotAskedYet /\ AnswersAreFresh /\ WaitsForAnswer /\ GotAnswer

LEMMA StepFresh == FreshInv /\ [Next]_vars => FreshInv'
<1> SUFFICES ASSUME FreshInv, [Next]_vars PROVE FreshInv'
  OBVIOUS
<1>0. /\ WaitersInv' /\ TypeOK /\ WaitersAreLive
      /\ CtxOf \in [Readers -> Contexts] /\ NoReader \notin Readers
      /\ MaxCommit \in Nat \ {0}
      /\ Alone \subseteq Readers
  BY StepWaiters, ConstantsAssumption DEF FreshInv, WaitersInv, Alone
<1> USE <1>0
<1>1. CASE Commit
  BY <1>1 DEF Commit, FreshInv, NotAskedYet, AnswersAreFresh, WaitsForAnswer,
              GotAnswer, callVars, TypeOK, Position
<1>2. ASSUME UNCHANGED <<commit, asked, states, waiters, callVars>> PROVE FreshInv'
  BY <1>2 DEF FreshInv, NotAskedYet, AnswersAreFresh, WaitsForAnswer, GotAnswer,
              callVars
<1>3. ASSUME NEW c \in Contexts, Confirm(c) PROVE FreshInv'
  <2>1. /\ UNCHANGED <<commit, waiters, callVars>>
        /\ asked[c] # 0 /\ asked[c] \in Position
        /\ states' = states \cup {<<c, asked[c]>>}
        /\ asked' \in [Contexts -> Position]
        /\ \A d \in Contexts : asked'[d] = IF d = c THEN 0 ELSE asked[d]
    BY <1>3 DEF Confirm, TypeOK, Position
  <2>2. NotAskedYet'
    BY <2>1 DEF FreshInv, NotAskedYet, callVars
  <2>3. AnswersAreFresh'
    BY <2>1 DEF FreshInv, AnswersAreFresh, callVars
  <2>4. WaitsForAnswer' /\ GotAnswer'
    BY <2>1 DEF FreshInv, WaitsForAnswer, GotAnswer, callVars
  <2>5. QED
    BY <2>2, <2>3, <2>4 DEF FreshInv
<1>4. ASSUME NEW c \in Contexts, Drop(c) PROVE FreshInv'
  <2>1. /\ UNCHANGED <<commit, waiters, callVars>>
        /\ states' \subseteq states
        /\ \A d \in Contexts : asked'[d] \in {0, asked[d]}
    BY <1>4 DEF Drop, TypeOK
  <2>2. NotAskedYet' /\ AnswersAreFresh' /\ WaitsForAnswer' /\ GotAnswer'
    BY <2>1 DEF FreshInv, NotAskedYet, AnswersAreFresh, WaitsForAnswer, GotAnswer,
                callVars
  <2>3. QED
    BY <2>2 DEF FreshInv
<1>5. ASSUME NEW c \in Contexts, NEW i \in 1 .. MaxCommit, HandleReadState(c, i)
      PROVE  FreshInv'
  <2>1. /\ UNCHANGED <<commit, asked, pc, readIndex, servedAt, startedAt>>
        /\ states' \subseteq states /\ <<c, i>> \in states /\ i \in Position
        /\ waiters' = [waiters EXCEPT ![c] = NoReader]
        /\ chan' = IF waiters[c] = NoReader THEN chan
                   ELSE [chan EXCEPT ![waiters[c]] = [buf |-> i, open |-> FALSE]]
    BY <1>5 DEF HandleReadState, Position
  <2>2. NotAskedYet' /\ AnswersAreFresh' /\ GotAnswer'
    BY <2>1 DEF FreshInv, NotAskedYet, AnswersAreFresh, GotAnswer
  <2>3. ASSUME NEW r \in Alone, pc[r] \in {"registered", "waiting"}
        PROVE  \/ waiters'[CtxOf[r]] = r
               \/ pc[r] = "waiting" /\ chan'[r].buf # 0 /\ chan'[r].buf >= startedAt[r]
    <3>1. CASE waiters[c] = r
      <4>1. CtxOf[r] = c
        BY <3>1 DEF WaitersAreLive
      <4>2. pc[r] = "waiting" /\ i # 0 /\ i >= startedAt[r]
        BY <2>1, <2>3, <4>1 DEF FreshInv, NotAskedYet, AnswersAreFresh
      <4>3. chan'[r].buf = i
        BY <2>1, <3>1 DEF TypeOK
      <4>4. QED
        BY <4>2, <4>3
    <3>2. CASE waiters[c] # r
      <4>1. chan'[r] = chan[r]
        BY <2>1, <3>2 DEF TypeOK
      <4>2. waiters[CtxOf[r]] = r => waiters'[CtxOf[r]] = r
        BY <2>1, <3>2 DEF TypeOK
      <4>3. QED
        BY <2>3, <4>1, <4>2 DEF FreshInv, WaitsForAnswer
    <3>3. QED
      BY <3>1, <3>2
  <2>4. QED
    BY <2>1, <2>2, <2>3 DEF FreshInv, WaitsForAnswer
<1>6. ASSUME NEW r \in Readers, RegisterWaiter(r) PROVE FreshInv'
  <2>1. /\ UNCHANGED <<commit, asked, states, chan, readIndex, servedAt>>
        /\ pc[r] = "new" /\ pc' = [pc EXCEPT ![r] = "registered"]
        /\ waiters' = [waiters EXCEPT ![CtxOf[r]] = r]
        /\ startedAt' = [startedAt EXCEPT ![r] = commit]
    BY <1>6 DEF RegisterWaiter, raftVars
  <2>2. \A s \in Alone : s # r => CtxOf[s] # CtxOf[r]
    BY DEF Alone
  <2>3. NotAskedYet'
    BY <2>1 DEF FreshInv, NotAskedYet, TypeOK
  <2>4. AnswersAreFresh'
    BY <2>1, <2>2 DEF FreshInv, NotAskedYet, AnswersAreFresh, TypeOK
  <2>5. WaitsForAnswer'
    BY <2>1, <2>2 DEF FreshInv, WaitsForAnswer, TypeOK
  <2>6. GotAnswer'
    BY <2>1 DEF FreshInv, GotAnswer, TypeOK
  <2>7. QED
    BY <2>3, <2>4, <2>5, <2>6 DEF FreshInv
<1>7. ASSUME NEW r \in Readers, Ask(r) PROVE FreshInv'
  <2>1. /\ UNCHANGED <<commit, states, waiters, chan, readIndex, servedAt, startedAt>>
        /\ pc[r] = "registered" /\ pc' = [pc EXCEPT ![r] = "waiting"]
        /\ r \in Alone => asked[CtxOf[r]] = 0
        /\ asked' = [asked EXCEPT ![CtxOf[r]] = IF @ = 0 THEN commit ELSE @]
    BY <1>7 DEF Ask, FreshInv, NotAskedYet, TypeOK
  <2>2. \A s \in Alone : s # r => CtxOf[s] # CtxOf[r]
    BY DEF Alone
  <2>3. NotAskedYet'
    BY <2>1, <2>2 DEF FreshInv, NotAskedYet, TypeOK
  <2>4. AnswersAreFresh'
    BY <2>1, <2>2 DEF FreshInv, AnswersAreFresh, GotAnswer, TypeOK
  <2>5. WaitsForAnswer'
    BY <2>1, <2>2 DEF FreshInv, WaitsForAnswer, TypeOK
  <2>6. GotAnswer'
    BY <2>1 DEF FreshInv, GotAnswer, TypeOK
  <2>7. QED
    BY <2>3, <2>4, <2>5, <2>6 DEF FreshInv
<1>8. ASSUME NEW r \in Readers, GiveUp(r) PROVE FreshInv'
  <2>1. /\ UNCHANGED <<commit, asked, states, readIndex, servedAt, startedAt>>
        /\ pc' = [pc EXCEPT ![r] = "failed"]
        /\ waiters' = [waiters EXCEPT ![CtxOf[r]] = NoReader]
        /\ chan' = IF waiters[CtxOf[r]] = NoReader THEN chan
                   ELSE [chan EXCEPT ![waiters[CtxOf[r]]].open = FALSE]
    BY <1>8 DEF GiveUp, RemoveWaiter, raftVars
  <2>2. \A s \in Alone : s # r => CtxOf[s] # CtxOf[r]
    BY DEF Alone
  <2>3. NotAskedYet' /\ AnswersAreFresh' /\ GotAnswer'
    BY <2>1 DEF FreshInv, NotAskedYet, AnswersAreFresh, GotAnswer, TypeOK
  <2>4. \A s \in Readers : chan'[s].buf = chan[s].buf
    BY <2>1 DEF TypeOK, Channel
  <2>5. WaitsForAnswer'
    BY <2>1, <2>2, <2>4 DEF FreshInv, WaitsForAnswer, TypeOK
  <2>6. QED
    BY <2>3, <2>5 DEF FreshInv
<1>9. ASSUME NEW r \in Readers, Receive(r) PROVE FreshInv'
  <2>1. /\ UNCHANGED <<commit, asked, states, waiters, servedAt, startedAt>>
        /\ pc[r] = "waiting" /\ pc' = [pc EXCEPT ![r] = "polling"]
        /\ readIndex' = [readIndex EXCEPT ![r] = chan[r].buf]
        /\ chan' = [chan EXCEPT ![r].buf = 0]
    BY <1>9 DEF Receive, raftVars
  <2>2. waiters[CtxOf[r]] # r
    BY <1>9 DEF Receive, WaitersAreLive
  <2>3. r \in Alone => chan[r].buf # 0 /\ chan[r].buf >= startedAt[r]
    BY <2>1, <2>2 DEF FreshInv, WaitsForAnswer
  <2>4. NotAskedYet' /\ AnswersAreFresh'
    BY <2>1 DEF FreshInv, NotAskedYet, AnswersAreFresh, TypeOK
  <2>5. WaitsForAnswer'
    BY <2>1 DEF FreshInv, WaitsForAnswer, TypeOK
  <2>6. GotAnswer'
    BY <2>1, <2>3 DEF FreshInv, GotAnswer, TypeOK
  <2>7. QED
    BY <2>4, <2>5, <2>6 DEF FreshInv
<1>10. ASSUME NEW r \in Readers, Served(r) PROVE FreshInv'
  <2>1. /\ UNCHANGED <<commit, asked, states, waiters, chan, readIndex, startedAt>>
        /\ pc[r] = "polling" /\ pc' = [pc EXCEPT ![r] = "done"]
        /\ servedAt' = [servedAt EXCEPT ![r] = applied] /\ applied >= readIndex[r]
    BY <1>10 DEF Served, raftVars
  <2>2. r \in Alone => applied >= startedAt[r]
    BY <2>1 DEF FreshInv, GotAnswer, TypeOK, Position
  <2>3. QED
    BY <2>1, <2>2 DEF FreshInv, NotAskedYet, AnswersAreFresh, WaitsForAnswer,
                      GotAnswer, TypeOK
<1>11. ASSUME NEW r \in Readers, GiveUpPolling(r) PROVE FreshInv'
  BY <1>11 DEF GiveUpPolling, raftVars, FreshInv, NotAskedYet, AnswersAreFresh,
               WaitsForAnswer, GotAnswer, TypeOK
<1>12. QED
  BY <1>1, <1>2, <1>3, <1>4, <1>5, <1>6, <1>7, <1>8, <1>9, <1>10, <1>11
     DEF Next, CallStep, Apply, Stop, vars, raftVars

LEMMA InitFresh == Init => FreshInv
<1> SUFFICES ASSUME Init PROVE FreshInv
  OBVIOUS
<1>1. Alone \subseteq Readers /\ CtxOf \in [Readers -> Contexts]
  BY ConstantsAssumption DEF Alone
<1>2. WaitersInv
  BY InitTypeOK DEF Init, WaitersInv, WaitersAreLive, FreshChannel, Empty
<1>3. NotAskedYet /\ AnswersAreFresh /\ WaitsForAnswer /\ GotAnswer
  BY <1>1 DEF Init, NotAskedYet, AnswersAreFresh, WaitsForAnswer, GotAnswer
<1>4. QED
  BY <1>2, <1>3 DEF FreshInv

\* Whatever other calls do and whatever raft loses, a read with a context of its own
\* returns nothing older than what was committed when it began.
THEOREM ReadsAreFreshAlways == Spec => []ReadsAreFresh
<1>1. FreshInv => ReadsAreFresh
  BY DEF FreshInv, GotAnswer, ReadsAreFresh
<1>2. QED
  BY <1>1, StepFresh, InitFresh, PTL DEF Spec

\* Likewise, a call with a context of its own goes on only with an index that raft
\* answered.
THEOREM IndexIsAnsweredAlways == Spec => []IndexIsAnswered
<1>1. FreshInv => IndexIsAnswered
  BY DEF FreshInv, GotAnswer, IndexIsAnswered
<1>2. QED
  BY <1>1, StepFresh, InitFresh, PTL DEF Spec

=============================================================================
