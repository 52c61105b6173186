--------------------------- MODULE RegistryLease ---------------------------
(***************************************************************************)
(* Instances and their leases: the Register, Deregister and Heartbeat      *)
(* handlers (internal/transport/http), and the cleanup that every leader   *)
(* runs in the background (internal/app, internal/registry/cleanup.go).    *)
(*                                                                         *)
(* Handlers answer when raft has accepted their command, not when it is    *)
(* committed.  What raft has accepted and not committed is one sequence;   *)
(* a change of leader cuts it anywhere, and a node that has not yet heard  *)
(* of the change still calls itself the leader.  Reads are linearizable    *)
(* (module ReadBarrier), so they see the committed instances.              *)
(***************************************************************************)
EXTENDS Integers, Sequences, FiniteSets, Functions

CONSTANTS
  Nodes,
  Handlers,     \* heartbeat requests that can be under way at a time
  MaxKey,       \* bound: instances are 1 .. MaxKey, in the order of their keys
  Data,         \* what an instance registers besides its lease
  TTLs,         \* leaseTtlSeconds of the requests
  DefaultTTL,   \* DefaultLeaseTTLSeconds
  Limit,        \* RegistryCleanupDeleteLimit
  MaxTime,      \* bound: the clock, in seconds, from 1 on
  MaxTail,      \* bound: proposals not yet committed
  MaxCalls,     \* bound: requests
  MaxChanges,   \* bound: leader changes
  MaxFailures   \* bound: cleanup rounds that an error ends

ASSUME ConstantsAssumption ==
  /\ Nodes # {} /\ TTLs \subseteq Nat /\ "gone" \notin Data
  /\ MaxKey \in Nat /\ DefaultTTL \in Nat \ {0} /\ Limit \in Nat \ {0}
  /\ MaxTime \in Nat \ {0} /\ MaxTail \in Nat /\ MaxCalls \in Nat
  /\ MaxChanges \in Nat /\ MaxFailures \in Nat

Keys == 1 .. MaxKey
Time == 1 .. MaxTime

VARIABLES
  store,    \* committed and applied: instance -> value
  tail,     \* commands accepted and not yet committed
  leader,   \* the node that raft elected last
  believes, \* nodes whose Status() says that they lead
  now,      \* the clock
  request,  \* handler -> what its heartbeat has read, or Idle
  cursor,   \* node -> CleanupCursor.ScanStart
  batch,    \* node -> scanned items, and when, that its cleanup has yet to decide on
  behind,   \* node -> instances scanned since its cursor was last reset (history)
  present,  \* node -> instances in the store ever since then (history)
  calls, changes, failures

raftVars == <<store, tail, leader, believes>>
cleanupVars == <<cursor, batch, behind, present>>
vars == <<raftVars, cleanupVars, now, request, calls, changes, failures>>

Gone == [data |-> "gone", ttl |-> 0, heartbeat |-> 0]
Value == [data : Data, ttl : (TTLs \cup {DefaultTTL}) \ {0}, heartbeat : Time]
Command == [key : Keys, value : Value \cup {Gone}, base : Value \cup {Gone},
            by : {"register", "deregister", "heartbeat", "cleanup"}]
Idle == [node |-> CHOOSE n \in Nodes : TRUE, key |-> 0, value |-> Gone, ttl |-> 0]

TypeOK ==
  /\ store \in [DOMAIN store -> Value] /\ DOMAIN store \subseteq Keys
  /\ tail \in Seq(Command) /\ Len(tail) <= MaxTail
  /\ leader \in Nodes /\ believes \subseteq Nodes /\ leader \in believes
  /\ now \in Time
  /\ request \in [Handlers -> {Idle} \cup [node : Nodes, key : Keys, value : Value, ttl : TTLs]]
  /\ cursor \in [Nodes -> 1 .. MaxKey + 1]
  /\ batch \in [Nodes -> SUBSET [key : Keys, value : Value, at : Time]]
  /\ behind \in [Nodes -> SUBSET Keys] /\ present \in [Nodes -> SUBSET Keys]
  /\ calls \in 0 .. MaxCalls /\ changes \in 0 .. MaxChanges /\ failures \in 0 .. MaxFailures

-----------------------------------------------------------------------------
\* Helpers.

EffectiveTTL(ttl) == IF ttl > 0 THEN ttl ELSE DefaultTTL

IsAlive(v, t) == t <= v.heartbeat + EffectiveTTL(v.ttl)

NewValue(d, ttl) == [data |-> d, ttl |-> EffectiveTTL(ttl), heartbeat |-> now]

\* Heartbeat changes the value it read, and writes all of it.
Renewed(v, ttl) ==
  [v EXCEPT !.ttl = IF ttl > 0 THEN ttl ELSE EffectiveTTL(@), !.heartbeat = now]

Init ==
  /\ store = <<>> /\ tail = <<>>
  /\ leader = CHOOSE n \in Nodes : TRUE
  /\ believes = {leader} /\ now = 1
  /\ request = [h \in Handlers |-> Idle]
  /\ cursor = [n \in Nodes |-> 1] /\ batch = [n \in Nodes |-> {}]
  /\ behind = [n \in Nodes |-> {}] /\ present = [n \in Nodes |-> {}]
  /\ calls = 0 /\ changes = 0 /\ failures = 0

-----------------------------------------------------------------------------
\* Proposals.

\* ProposeCommand returns once raft took the command: the leader into its log,
\* while that of a node which no longer leads is passed on or lost.
Propose(n, k, v, base, by) ==
  /\ Len(tail) < MaxTail
  /\ \/ tail' = Append(tail, [key |-> k, value |-> v, base |-> base, by |-> by])
     \/ n # leader /\ UNCHANGED tail
  /\ UNCHANGED <<store, leader, believes>>

\* ensureWritable, and the bound on requests.
Writable(n) == n \in believes /\ calls < MaxCalls /\ calls' = calls + 1

Register(n, k, d, ttl) ==
  /\ Writable(n)
  /\ Propose(n, k, NewValue(d, ttl), Gone, "register")
  /\ UNCHANGED <<cleanupVars, now, request, changes, failures>>

Deregister(n, k) ==
  /\ Writable(n)
  /\ Propose(n, k, Gone, Gone, "deregister")
  /\ UNCHANGED <<cleanupVars, now, request, changes, failures>>

\* Heartbeat up to node.Get; an unknown instance is answered 404.
HeartbeatRead(h, n, k, ttl) ==
  /\ request[h] = Idle /\ Writable(n) /\ k \in DOMAIN store
  /\ request' = [request EXCEPT ![h] = [node |-> n, key |-> k, value |-> store[k], ttl |-> ttl]]
  /\ UNCHANGED <<raftVars, cleanupVars, now, changes, failures>>

\* The rest of Heartbeat, whatever happened to the instance since.
HeartbeatWrite(h) ==
  LET r == request[h]
  IN /\ r # Idle
     /\ Propose(r.node, r.key, Renewed(r.value, r.ttl), r.value, "heartbeat")
     /\ request' = [request EXCEPT ![h] = Idle]
     /\ UNCHANGED <<cleanupVars, now, calls, changes, failures>>

\* Heartbeat runs into its timeout.
HeartbeatFails(h) ==
  /\ request[h] # Idle
  /\ request' = [request EXCEPT ![h] = Idle]
  /\ UNCHANGED <<raftVars, cleanupVars, now, calls, changes, failures>>

-----------------------------------------------------------------------------
\* Raft.

\* The oldest accepted command is committed and applied.
Commit ==
  LET c == Head(tail)
  IN /\ tail # <<>>
     /\ store' = IF c.value = Gone THEN Restrict(store, DOMAIN store \ {c.key})
                 ELSE [k \in DOMAIN store \cup {c.key} |-> IF k = c.key THEN c.value ELSE store[k]]
     /\ tail' = Tail(tail)
     /\ present' = [n \in Nodes |-> IF c.value = Gone THEN present[n] \ {c.key} ELSE present[n]]
     /\ UNCHANGED <<leader, believes, cursor, batch, behind, now, request,
                    calls, changes, failures>>

\* Another node is elected: the commands it does not have are lost.
ChangeLeader(n) ==
  /\ changes < MaxChanges /\ n # leader
  /\ leader' = n /\ believes' = believes \cup {n}
  /\ \E len \in 0 .. Len(tail) : tail' = SubSeq(tail, 1, len)
  /\ changes' = changes + 1
  /\ UNCHANGED <<store, cleanupVars, now, request, calls, failures>>

\* A former leader hears of the new one.
StepDown(n) ==
  /\ n \in believes \ {leader}
  /\ believes' = believes \ {n}
  /\ UNCHANGED <<store, tail, leader, cleanupVars, now, request, calls, changes, failures>>

Tick ==
  /\ now < MaxTime
  /\ now' = now + 1
  /\ UNCHANGED <<raftVars, cleanupVars, request, calls, changes, failures>>

-----------------------------------------------------------------------------
\* CleanupExpiredRegistry.

\* What the scan has before it, and how many instances come before k.
Ahead(n) == {k \in DOMAIN store : k >= cursor[n]}
Rank(n, k) == Cardinality({j \in Ahead(n) : j < k})

\* Scan from the cursor on: the first Limit instances.
Scanned(n) == {k \in Ahead(n) : Rank(n, k) < Limit}

\* The last instance of a full batch.
IsLast(n, k) == k \in Ahead(n) /\ Rank(n, k) = Limit - 1

\* Mutant of Advanced: one instance too far.
AdvancedTwice(n) ==
  IF \E k \in Keys : IsLast(n, k) THEN (CHOOSE k \in Keys : IsLast(n, k)) + 2 ELSE 1

\* Mutant of Advanced: kept where it is when the batch is not full.
AdvancedAlways(n) ==
  IF \E k \in Keys : IsLast(n, k) THEN (CHOOSE k \in Keys : IsLast(n, k)) + 1 ELSE cursor[n]

\* CleanupCursor.Advance: behind a full batch, else back to the start.
Advanced(n) ==
  IF \E k \in Keys : IsLast(n, k) THEN (CHOOSE k \in Keys : IsLast(n, k)) + 1 ELSE 1

\* A round begins: the cursor moves before anything is decided.
CleanupScan(n) ==
  LET wraps == Advanced(n) = 1
  IN /\ n \in believes /\ batch[n] = {}
     /\ batch' = [batch EXCEPT ![n] =
                    {[key |-> k, value |-> store[k], at |-> now] : k \in Scanned(n)}]
     /\ cursor' = [cursor EXCEPT ![n] = Advanced(n)]
     /\ behind' = [behind EXCEPT ![n] = IF wraps THEN {} ELSE @ \cup Scanned(n)]
     /\ present' = [present EXCEPT ![n] = IF wraps \/ cursor[n] = 1 THEN DOMAIN store ELSE @]
     /\ UNCHANGED <<raftVars, now, request, calls, changes, failures>>

\* The items come in the order of their keys.
TakeItem(n, item) ==
  /\ n \in believes /\ item \in batch[n]
  /\ \A other \in batch[n] : item.key <= other.key
  /\ batch' = [batch EXCEPT ![n] = @ \ {item}]

\* Mutant of CleanupItem: the lease is not looked at.
CleanupItemUnchecked(n) ==
  \E item \in batch[n] :
    /\ TakeItem(n, item)
    /\ Propose(n, item.key, Gone, item.value, "cleanup")
    /\ UNCHANGED <<cursor, behind, present, now, request, calls, changes, failures>>

\* An item: kept if its scanned value was alive, deleted otherwise.
CleanupItem(n) ==
  \E item \in batch[n] :
    /\ TakeItem(n, item)
    /\ IF IsAlive(item.value, item.at)
       THEN UNCHANGED raftVars
       ELSE Propose(n, item.key, Gone, item.value, "cleanup")
    /\ UNCHANGED <<cursor, behind, present, now, request, calls, changes, failures>>

\* The round ends early: the node no longer leads, or the proposal failed.
CleanupEnds(n) ==
  /\ batch[n] # {}
  /\ \/ n \notin believes /\ UNCHANGED failures
     \/ failures < MaxFailures /\ failures' = failures + 1
  /\ batch' = [batch EXCEPT ![n] = {}]
  /\ UNCHANGED <<raftVars, cursor, behind, present, now, request, calls, changes>>

Next ==
  \/ \E n \in Nodes :
       \/ \E k \in Keys : \/ Deregister(n, k)
                          \/ \E ttl \in TTLs : \/ \E d \in Data : Register(n, k, d, ttl)
                                               \/ \E h \in Handlers : HeartbeatRead(h, n, k, ttl)
       \/ ChangeLeader(n) \/ StepDown(n)
       \/ CleanupScan(n) \/ CleanupItem(n) \/ CleanupEnds(n)
  \/ \E h \in Handlers : HeartbeatWrite(h) \/ HeartbeatFails(h)
  \/ Commit \/ Tick

\* The leader commits, nodes hear of it, and the cleanup loop has a ticker.
Fairness ==
  /\ WF_vars(Commit)
  /\ \A n \in Nodes : /\ WF_vars(StepDown(n)) /\ WF_vars(CleanupScan(n))
                      /\ WF_vars(CleanupItem(n)) /\ WF_vars(CleanupEnds(n))

Spec == Init /\ [][Next]_vars /\ Fairness

-----------------------------------------------------------------------------
\* Properties.

(* Whatever is registered and removed between the rounds of the cleanup,   *)
(* an instance that is there all the while and behind the cursor has been  *)
(* scanned since the cursor was last reset: no full pass skips one.        *)
PassSkipsNothing ==
  \A n \in Nodes : \A k \in present[n] : k < cursor[n] => k \in behind[n]

(* An instance within its lease leaves the store by a Deregister, or by a  *)
(* cleanup that a change of it has overtaken: never because the cleanup    *)
(* judged the value that it removes.                                       *)
RemovalIsJustified ==
  [][\A k \in DOMAIN store \ DOMAIN store' :
       \/ Head(tail).by = "deregister"
       \/ ~IsAlive(store[k], now)
       \/ store[k] # Head(tail).base]_vars

(* An expired instance does not stay in the store: the leader's rounds get *)
(* to it, through leader changes, lost proposals and rounds cut short.     *)
ExpiredIsRemoved ==
  \A k \in Keys : <>[](k \in DOMAIN store => IsAlive(store[k], now))

=============================================================================
