---------------------------- MODULE RegistryView ----------------------------
(***************************************************************************)
(* What clients see of the registry (internal/transport/http):             *)
(* QueryInstances with its fallback to replicated instances, a watch       *)
(* stream (its snapshot and the events after it) and the targets of        *)
(* PrometheusSD, over the instances that Register, Heartbeat, Deregister   *)
(* and the cleanup leave in the store.  One watcher receives every event   *)
(* at once: delays, drops and closed streams are those of module WatchHub, *)
(* proposals that get lost those of module RegistryLease.                  *)
(***************************************************************************)
EXTENDS ServiceMatch, Functions

CONSTANTS
  Inputs,   \* registrations: namespace, service, dims, id, zone, labels, endpoints
  Requests, \* queries: namespace, services, prefixes, dims, zone, endpoint, filter, limit
  Remotes,  \* what may have been replicated: sets of registrations
  TTL,      \* leaseTtlSeconds
  MaxTime   \* bound: the clock, from 1 on

ASSUME ViewAssumption == TTL \in Nat \ {0} /\ MaxTime \in Nat \ {0}

VARIABLES
  store,   \* key -> value
  remote,  \* key -> value, the replicated instances
  now,     \* the clock
  watched, \* the watcher's query, or Unwatched
  view     \* what the watcher has been told: key -> instance

viewVars == <<store, remote, now, watched, view>>

Unwatched == [namespace |-> Blank]

-----------------------------------------------------------------------------
\* Instances.

Key(namespace, service, id) == <<namespace, service, id>>

\* Register's checks, with those of NormalizeRegisterInput.
Accepts(in) ==
  /\ AcceptsEndpoints(in.endpoints)
  /\ in.namespace # Blank /\ in.id # Blank /\ Identity(in.service, in.dims).service # <<>>

\* NewValue of the normalized input.
NewValue(in, time) ==
  LET identity == Identity(in.service, in.dims)
  IN [namespace |-> in.namespace, service |-> identity.service, dims |-> identity.dims,
      id |-> in.id, zone |-> in.zone, labels |-> in.labels,
      endpoints |-> Normalized(in.endpoints), heartbeat |-> time]

KeyOf(v) == Key(v.namespace, v.service, v.id)
With(values, k, v) == [j \in DOMAIN values \cup {k} |-> IF j = k THEN v ELSE values[j]]
Without(values, k) == Restrict(values, DOMAIN values \ {k})

Holding(values) == [k \in {KeyOf(v) : v \in values} |-> CHOOSE v \in values : KeyOf(v) = k]

\* Lists are finite, and what was replicated had been accepted.
IsList(s) == s \in Seq(ToSet(s))

ASSUME InputsAssumption ==
  /\ \A in \in Inputs : IsList(in.endpoints)
  /\ \A rs \in Remotes : IsFiniteSet(rs) /\ \A in \in rs : IsList(in.endpoints) /\ Accepts(in)
  /\ \A r \in Requests : /\ IsList(r.services) /\ r.limit \in Int
                         /\ \A s \in ToSet(r.services) : IsList(s)
                         /\ r.dims = [i \in 1 .. Dimensions |-> r.dims[i]]

IsAlive(v) == now <= v.heartbeat + TTL

\* replicatedValueFromDTO: what is replicated comes without its dimensions.
ReplicatedValue(in, time) == [NewValue(in, time) EXCEPT !.dims = NoDimensions]

ViewInit ==
  /\ store = <<>> /\ now = 1 /\ watched = Unwatched /\ view = <<>>
  /\ \E rs \in Remotes : remote = Holding({ReplicatedValue(in, 1) : in \in rs})

-----------------------------------------------------------------------------
\* Queries.

\* ServicePrefix and NamespacePrefix: where the scan for a query looks.
InNamespace(namespace) == {k \in DOMAIN store : k[1] = namespace}
OfService(namespace, service) == {k \in InNamespace(namespace) : k[2] = service}

Scanned(q) ==
  IF q.service # <<>> /\ Cardinality(q.services) <= 1 /\ q.prefixes = {}
  THEN OfService(q.namespace, q.service)
  ELSE InNamespace(q.namespace)

\* registryInstanceDTOFromValue: the instance as its readers see it.
Visible(v, q) == IsAlive(v) /\ MatchQuery(v, q)
Shown(v, q) == [v EXCEPT !.endpoints = Filtered(@, q.endpoint)]

\* The first so many; which ones these are is not told apart.
Limited(keys, limit) ==
  IF limit = 0 \/ Cardinality(keys) <= limit THEN keys
  ELSE CHOOSE first \in SUBSET keys : Cardinality(first) = limit

Local(q) ==
  LET found == {k \in Scanned(q) : Visible(store[k], q)}
  IN [k \in Limited(found, q.limit) |-> Shown(store[k], q)]

\* queryReplicatedInstances.
Replicated(q) ==
  LET found == {k \in DOMAIN remote : /\ k[1] = q.namespace /\ MatchService(k[2], q)
                                      /\ Visible(remote[k], q)}
  IN [k \in Limited(found, q.limit) |-> Shown(remote[k], q)]

\* QueryInstances: replicated instances only where there are no others.
QueryInstances(q) == IF DOMAIN Local(q) = {} THEN Replicated(q) ELSE Local(q)

-----------------------------------------------------------------------------
\* PrometheusSD.

Unspecified == {"0.0.0.0", "::"}

\* Mutant of ScrapeEndpoint: the first one that can be scraped.
RoutableEndpoint(v, expected) ==
  LET routable == SelectSeq(Filtered(v.endpoints, expected),
                            LAMBDA e : e.host \notin Unspecified)
  IN Head(IF routable = <<>> THEN v.endpoints ELSE routable)

\* findPrometheusEndpoint: the first endpoint of that name or protocol.
ScrapeEndpoint(v, expected) == Head(Filtered(v.endpoints, expected))

\* parsePrometheusSDQuery: the endpoint is "metrics" if none is asked for.
ScrapeQuery(request) ==
  [namespace |-> request.namespace, service |-> HeadName(request), services |-> {},
   prefixes |-> {}, zone |-> request.zone, endpoint |-> Blank,
   selector |-> Selector(request.selector), limit |-> 0]

\* local- and replicatedPrometheusSDTargetGroups, prometheusSDTargetGroupFromValue,
\* joinPrometheusTargetAddress: one target an instance, at a routable address.
TargetsIn(values, request) ==
  LET q == ScrapeQuery(request)
      expected == IF request.endpoint = Blank THEN "metrics" ELSE request.endpoint
      usable(v) == /\ AnyServes(v.endpoints, expected)
                   /\ ScrapeEndpoint(v, expected).host \notin Unspecified
      found == {k \in DOMAIN values : Visible(values[k], q) /\ usable(values[k])}
  IN {[key |-> k, host |-> ScrapeEndpoint(values[k], expected).host] : k \in found}

\* prometheusSDTargetGroups, scope=merged.
Targets(request) == TargetsIn(store, request) \cup TargetsIn(remote, request)

-----------------------------------------------------------------------------
\* The watch stream.

\* Mutant of Told: an upsert that does not match is not sent.
ToldUpserts(k, v) ==
  IF watched = Unwatched \/ k[1] # watched.namespace \/ ~MatchQuery(v, watched) THEN view
  ELSE With(view, k, Shown(v, watched))

\* registryWatchEventDTO and what its reader makes of it: an upsert that does
\* not match, or no longer, is a delete.
Told(k, v) ==
  IF watched = Unwatched \/ k[1] # watched.namespace \/ ~MatchService(k[2], watched) THEN view
  ELSE IF Visible(v, watched) THEN With(view, k, Shown(v, watched))
  ELSE Without(view, k)

Forgotten(k) ==
  IF watched = Unwatched \/ k[1] # watched.namespace \/ ~MatchService(k[2], watched) THEN view
  ELSE Without(view, k)

Put(v) ==
  /\ store' = With(store, KeyOf(v), v)
  /\ view' = Told(KeyOf(v), v)
  /\ UNCHANGED <<remote, now, watched>>

Delete(k) ==
  /\ store' = Without(store, k)
  /\ view' = Forgotten(k)
  /\ UNCHANGED <<remote, now, watched>>

Register(in) == Accepts(in) /\ Put(NewValue(in, now))

\* Deregister and Heartbeat name the instance as Register does; what is not
\* known is deleted all the same, and cannot be renewed.
NamedKey(in) == Key(in.namespace, Identity(in.service, in.dims).service, in.id)

Deregister(in) ==
  /\ Identity(in.service, in.dims).service # <<>>
  /\ Delete(NamedKey(in))

Heartbeat(in) ==
  /\ NamedKey(in) \in DOMAIN store
  /\ Put([store[NamedKey(in)] EXCEPT !.heartbeat = now])

\* The background cleanup.
Cleanup(k) == ~IsAlive(store[k]) /\ Delete(k)

\* WatchInstances from revision 0: the snapshot of registryWatchSnapshot.
Watch(request) ==
  /\ watched = Unwatched
  /\ AcceptsQuery(request)
  /\ watched' = Query(request)
  /\ view' = Local(Query(request))
  /\ UNCHANGED <<store, remote, now>>

Tick ==
  /\ now < MaxTime
  /\ now' = now + 1
  /\ UNCHANGED <<store, remote, watched, view>>

ViewNext ==
  \/ \E in \in Inputs : Register(in) \/ Deregister(in) \/ Heartbeat(in)
  \/ \E k \in DOMAIN store : Cleanup(k)
  \/ \E request \in Requests : Watch(request)
  \/ Tick

ViewSpec == ViewInit /\ [][ViewNext]_viewVars

-----------------------------------------------------------------------------
\* Properties.

\* What a requirement means, whichever way its text is read.
Holds(r, labels) ==
  LET equal == r.key \in DOMAIN labels /\ labels[r.key] \in r.values
  IN CASE r.op = "exists" -> r.key \in DOMAIN labels
       [] r.op = "not_exists" -> r.key \notin DOMAIN labels
       [] r.op \in {"equals", "in"} -> equal
       [] OTHER -> ~equal

\* The dimensions of a request, unless its name tells them all, are one more
\* prefix.
AskedPrefixes(request) ==
  LET given == {i \in 1 .. Dimensions : request.dims[i] # Blank}
      told == HasAll(Filled(FirstName(request), request.dims))
  IN (request.prefixes \ {<<>>}) \cup
       IF given = {} \/ told THEN {} ELSE {SubSeq(request.dims, 1, Max(given))}

\* What a request asks for, read off the request itself: its filter is the
\* meaning of its selector's text, and a prefix asks for the name itself and for
\* those that go on after it with a dot (internal/registry/README.md:92-95).
Wanted(v, request) ==
  /\ v.namespace = request.namespace
  /\ NamesOf(request) # {} => v.service \in NamesOf(request)
  /\ HasAll(request.dims) => v.service = request.dims
  /\ AskedPrefixes(request) # {} =>
       \E p \in AskedPrefixes(request) : IsPrefix(p, v.service)
  /\ request.zone \in {Blank, v.zone}
  /\ \E i \in DOMAIN v.endpoints :
       request.endpoint \in {Blank, v.endpoints[i].name, v.endpoints[i].protocol}
  /\ \A r \in request.filter : Holds(r, v.labels)
  /\ IsAlive(v)

\* HasPrefix also takes a name that goes on within the prefix's last part
\* (model.go:550).  This says that none of the names here does.
PrefixesAreWhole(request) ==
  \A k \in DOMAIN store \cup DOMAIN remote, p \in AskedPrefixes(request) :
    HasPrefix(k[2], p) <=> IsPrefix(p, k[2])

\* The instances that a request asks for, local ones first, and no more than
\* its limit.
Answered(request) ==
  LET answer == DOMAIN QueryInstances(Query(request))
      here == {k \in DOMAIN store : Wanted(store[k], request)}
      there == {k \in DOMAIN remote : Wanted(remote[k], request)}
      wanted == IF here # {} THEN here ELSE there
  IN /\ answer \subseteq wanted
     /\ answer = wanted \/ (request.limit > 0 /\ Cardinality(answer) = request.limit)

(* A query of at most one name is answered with the instances that it asks *)
(* for: whichever way the parser turned name, dimensions and selector into *)
(* a query and the scan was narrowed, unless there are names that only the *)
(* text of a prefix begins.                                                *)
QueryAnswersRequest ==
  \A request \in Requests :
    AcceptsQuery(request) /\ Cardinality(NamesOf(request)) <= 1 /\ PrefixesAreWhole(request)
    => Answered(request)

(* The same of every query: `service` can be given several times           *)
(* (README.md:798).                                                        *)
EveryNameIsAnswered ==
  \A request \in Requests :
    AcceptsQuery(request) /\ PrefixesAreWhole(request) => Answered(request)

(* A watcher who applies the events to its snapshot has what a query of    *)
(* this cluster's own instances would give, but for those whose lease ran  *)
(* out without an event.                                                   *)
WatchFollowsQuery ==
  watched # Unwatched /\ watched.limit = 0 =>
    /\ \A k \in DOMAIN Local(watched) : k \in DOMAIN view /\ view[k] = Local(watched)[k]
    /\ \A k \in DOMAIN view \ DOMAIN Local(watched) : k \in DOMAIN store /\ ~IsAlive(store[k])

(* An instance registered by name or by dimensions is one instance: a      *)
(* request in either form reaches it, and every prefix of its dimensions   *)
(* finds it.                                                               *)
EitherFormReaches ==
  \A k \in DOMAIN store :
    LET v == store[k]
        ask(dims) == [namespace |-> v.namespace, services |-> <<>>, prefixes |-> {},
                      dims |-> dims, zone |-> Blank, endpoint |-> Blank, selector |-> <<>>,
                      limit |-> 0]
        upTo(n) == [i \in 1 .. Dimensions |-> IF i <= n THEN v.service[i] ELSE Blank]
    IN /\ k = Key(v.namespace, Identity(v.service, NoDimensions).service, v.id)
       /\ HasAny(v.dims) => k = Key(v.namespace, Identity(<<>>, v.dims).service, v.id)
       /\ HasAny(v.dims) /\ IsAlive(v) =>
            \A n \in 1 .. Dimensions : k \in DOMAIN Local(Query(ask(upTo(n))))

(* Prometheus scrapes the instances that a query for the same endpoint     *)
(* gives, each once, unless the first such endpoint has no address.  It    *)
(* knows neither dimensions nor prefixes, and reads the first name only.   *)
ScrapedIsQueried ==
  \A request \in {r \in Requests : /\ AcceptsQuery(r) /\ r.endpoint # Blank /\ r.limit = 0
                                   /\ ~HasAny(r.dims) /\ r.prefixes \subseteq {<<>>}
                                   /\ <<>> \notin ToSet(r.services)} :
    LET answer == Local(Query(request))
        targets == TargetsIn(store, request)
    IN /\ \A t, u \in targets : t.key = u.key => t = u
       /\ {t.key : t \in targets}
            = {k \in DOMAIN answer : Head(answer[k].endpoints).host \notin Unspecified}

=============================================================================
