------------------------ MODULE RegistryLeaseProofs ------------------------
(***************************************************************************)
(* Proofs about RegistryLease, for any nodes, instances, leases and limit: *)
(* the cleanup's cursor passes over no instance, and no instance within    *)
(* its lease is removed by a cleanup that judged the value it removes.     *)
(***************************************************************************)
EXTENDS RegistryLease, FiniteSetTheorems, TLAPS

-----------------------------------------------------------------------------
\* Values and commands.

LEMMA TTLIsPositive == \A t \in TTLs \cup {DefaultTTL} :
                         EffectiveTTL(t) \in (TTLs \cup {DefaultTTL}) \ {0}
BY ConstantsAssumption DEF EffectiveTTL

LEMMA NewValueType ==
  ASSUME TypeOK, NEW d \in Data, NEW ttl \in TTLs
  PROVE  NewValue(d, ttl) \in Value
BY TTLIsPositive DEF NewValue, Value, TypeOK

LEMMA RenewedType ==
  ASSUME TypeOK, NEW v \in Value, NEW ttl \in TTLs
  PROVE  Renewed(v, ttl) \in Value
<1>1. v.ttl \in (TTLs \cup {DefaultTTL}) \ {0} /\ v.data \in Data
  BY DEF Value
<1>2. (IF ttl > 0 THEN ttl ELSE EffectiveTTL(v.ttl)) \in (TTLs \cup {DefaultTTL}) \ {0}
  <2>1. CASE ttl > 0
    BY <2>1, ConstantsAssumption
  <2>2. CASE ~(ttl > 0)
    BY <1>1, <2>2, TTLIsPositive
  <2>3. QED
    BY <2>1, <2>2
<1>3. QED
  BY <1>1, <1>2 DEF Renewed, Value, TypeOK

LEMMA GoneIsNoValue == Gone \notin Value
BY ConstantsAssumption DEF Gone, Value

LEMMA ProposeType ==
  ASSUME TypeOK, NEW n, NEW k \in Keys, NEW v \in Value \cup {Gone},
         NEW base \in Value \cup {Gone},
         NEW by \in {"register", "deregister", "heartbeat", "cleanup"},
         Propose(n, k, v, base, by)
  PROVE  /\ store' = store /\ leader' = leader /\ believes' = believes
         /\ tail' \in Seq(Command) /\ Len(tail') <= MaxTail
<1>1. [key |-> k, value |-> v, base |-> base, by |-> by] \in Command
  BY DEF Command
<1>2. tail \in Seq(Command) /\ Len(tail) <= MaxTail /\ MaxTail \in Nat
  BY ConstantsAssumption DEF TypeOK
<1>3. QED
  BY <1>1, <1>2 DEF Propose

-----------------------------------------------------------------------------
\* Type correctness.

LEMMA InitTypeOK == Init => TypeOK
<1> SUFFICES ASSUME Init PROVE TypeOK
  OBVIOUS
<1>1. store \in [DOMAIN store -> Value] /\ DOMAIN store \subseteq Keys
  BY DEF Init
<1>2. tail \in Seq(Command) /\ Len(tail) <= MaxTail
  BY ConstantsAssumption DEF Init
<1>3. leader \in Nodes /\ believes \subseteq Nodes /\ leader \in believes
  BY ConstantsAssumption DEF Init
<1>4. now \in Time /\ calls \in 0 .. MaxCalls /\ changes \in 0 .. MaxChanges
      /\ failures \in 0 .. MaxFailures /\ cursor \in [Nodes -> 1 .. MaxKey + 1]
  BY ConstantsAssumption DEF Init, Time
<1>5. QED
  BY <1>1, <1>2, <1>3, <1>4 DEF Init, TypeOK

LEMMA StepTypeOK == TypeOK /\ [Next]_vars => TypeOK'
<1> SUFFICES ASSUME TypeOK, [Next]_vars PROVE TypeOK'
  OBVIOUS
<1>0. /\ MaxKey \in Nat /\ MaxTime \in Nat /\ MaxTail \in Nat /\ MaxCalls \in Nat
      /\ MaxChanges \in Nat /\ MaxFailures \in Nat
  BY ConstantsAssumption
<1>1. ASSUME NEW n \in Nodes, NEW k \in Keys, NEW d \in Data, NEW ttl \in TTLs,
             Register(n, k, d, ttl)
      PROVE  TypeOK'
  <2>1. tail' \in Seq(Command) /\ Len(tail') <= MaxTail
        /\ store' = store /\ leader' = leader /\ believes' = believes
    BY <1>1, NewValueType, ProposeType DEF Register
  <2>2. calls' \in 0 .. MaxCalls
    BY <1>0, <1>1 DEF Register, Writable, TypeOK
  <2>3. QED
    BY <1>1, <2>1, <2>2 DEF Register, TypeOK, cleanupVars
<1>2. ASSUME NEW n \in Nodes, NEW k \in Keys, Deregister(n, k) PROVE TypeOK'
  <2>1. tail' \in Seq(Command) /\ Len(tail') <= MaxTail
        /\ store' = store /\ leader' = leader /\ believes' = believes
    BY <1>2, ProposeType DEF Deregister
  <2>2. calls' \in 0 .. MaxCalls
    BY <1>0, <1>2 DEF Deregister, Writable, TypeOK
  <2>3. QED
    BY <1>2, <2>1, <2>2 DEF Deregister, TypeOK, cleanupVars
<1>3. ASSUME NEW h \in Handlers, NEW n \in Nodes, NEW k \in Keys, NEW ttl \in TTLs,
             HeartbeatRead(h, n, k, ttl)
      PROVE  TypeOK'
  <2>1. calls' \in 0 .. MaxCalls
    BY <1>0, <1>3 DEF HeartbeatRead, Writable, TypeOK
  <2>2. request' \in [Handlers -> {Idle} \cup [node : Nodes, key : Keys, value : Value, ttl : TTLs]]
    BY <1>3 DEF HeartbeatRead, TypeOK
  <2>3. QED
    BY <1>3, <2>1, <2>2 DEF HeartbeatRead, TypeOK, cleanupVars, raftVars
<1>4. ASSUME NEW h \in Handlers, HeartbeatWrite(h) PROVE TypeOK'
  <2>1. request[h] \in [node : Nodes, key : Keys, value : Value, ttl : TTLs]
    BY <1>4 DEF HeartbeatWrite, TypeOK
  <2>2. Renewed(request[h].value, request[h].ttl) \in Value /\ request[h].value \in Value
        /\ request[h].key \in Keys
    BY <2>1, RenewedType
  <2>3. tail' \in Seq(Command) /\ Len(tail') <= MaxTail
        /\ store' = store /\ leader' = leader /\ believes' = believes
    BY <1>4, <2>2, ProposeType DEF HeartbeatWrite
  <2>4. request' \in [Handlers -> {Idle} \cup [node : Nodes, key : Keys, value : Value, ttl : TTLs]]
    BY <1>4 DEF HeartbeatWrite, TypeOK
  <2>5. QED
    BY <1>4, <2>3, <2>4 DEF HeartbeatWrite, TypeOK, cleanupVars
<1>5. ASSUME NEW h \in Handlers, HeartbeatFails(h) PROVE TypeOK'
  BY <1>5 DEF HeartbeatFails, TypeOK, cleanupVars, raftVars
<1>6. CASE Commit
  <2>1. tail \in Seq(Command) /\ tail # <<>>
    BY <1>6 DEF Commit, TypeOK
  <2>2. Head(tail) \in Command /\ tail' \in Seq(Command) /\ Len(tail') <= MaxTail
    BY <1>0, <1>6, <2>1 DEF Commit, TypeOK
  <2>3. Head(tail).key \in Keys /\ Head(tail).value \in Value \cup {Gone}
    BY <2>2 DEF Command
  <2>4. store' \in [DOMAIN store' -> Value] /\ DOMAIN store' \subseteq Keys
    <3>1. CASE Head(tail).value = Gone
      BY <1>6, <3>1 DEF Commit, TypeOK, Restrict
    <3>2. CASE Head(tail).value # Gone
      BY <1>6, <2>3, <3>2 DEF Commit, TypeOK
    <3>3. QED
      BY <3>1, <3>2
  <2>5. present' \in [Nodes -> SUBSET Keys]
    BY <1>6 DEF Commit, TypeOK
  <2>6. QED
    BY <1>6, <2>2, <2>4, <2>5 DEF Commit, TypeOK
<1>7. ASSUME NEW n \in Nodes, ChangeLeader(n) PROVE TypeOK'
  <2>1. PICK len \in 0 .. Len(tail) : tail' = SubSeq(tail, 1, len)
    BY <1>7 DEF ChangeLeader
  <2>2. tail' \in Seq(Command) /\ Len(tail') <= MaxTail
    <3>1. tail \in Seq(Command) /\ Len(tail) <= MaxTail
      BY DEF TypeOK
    <3>2. Len(tail') = len
      BY <2>1, <3>1, SMTT(30)
    <3>3. \A i \in 1 .. len : tail[i] \in Command
      BY <3>1, SMTT(30)
    <3>4. tail' \in Seq(Command)
      BY <2>1, <3>1, <3>3, SMTT(30)
    <3>5. QED
      BY <1>0, <3>1, <3>2, <3>4
  <2>3. changes' \in 0 .. MaxChanges
    <3>1. changes \in 0 .. MaxChanges /\ MaxChanges \in Nat
      BY <1>0 DEF TypeOK
    <3>2. changes < MaxChanges /\ changes' = changes + 1
      BY <1>7 DEF ChangeLeader
    <3>3. QED
      BY <3>1, <3>2
  <2>4. QED
    BY <1>7, <2>2, <2>3 DEF ChangeLeader, TypeOK, cleanupVars
<1>8. ASSUME NEW n \in Nodes, StepDown(n) PROVE TypeOK'
  BY <1>8 DEF StepDown, TypeOK, cleanupVars
<1>9. CASE Tick
  BY <1>0, <1>9 DEF Tick, TypeOK, cleanupVars, raftVars, Time
<1>10. ASSUME NEW n \in Nodes, CleanupScan(n) PROVE TypeOK'
  <2>1. Scanned(n) \subseteq DOMAIN store
    BY DEF Scanned, Ahead
  <2>2. batch' \in [Nodes -> SUBSET [key : Keys, value : Value, at : Time]]
    <3>1. \A k \in Scanned(n) : [key |-> k, value |-> store[k], at |-> now]
                                  \in [key : Keys, value : Value, at : Time]
      BY <2>1 DEF TypeOK
    <3>2. QED
      BY <1>10, <3>1 DEF CleanupScan, TypeOK
  <2>3. Advanced(n) \in 1 .. MaxKey + 1
    BY <1>0 DEF Advanced, Keys
  <2>4. behind' \in [Nodes -> SUBSET Keys] /\ present' \in [Nodes -> SUBSET Keys]
    BY <1>10, <2>1 DEF CleanupScan, TypeOK
  <2>5. QED
    BY <1>10, <2>2, <2>3, <2>4 DEF CleanupScan, TypeOK, raftVars
<1>11. ASSUME NEW n \in Nodes, CleanupItem(n) PROVE TypeOK'
  <2>1. PICK item \in batch[n] :
          /\ TakeItem(n, item)
          /\ IF IsAlive(item.value, item.at)
             THEN UNCHANGED raftVars
             ELSE Propose(n, item.key, Gone, item.value, "cleanup")
          /\ UNCHANGED <<cursor, behind, present, now, request, calls, changes, failures>>
    BY <1>11 DEF CleanupItem
  <2>2. item.key \in Keys /\ item.value \in Value
    BY DEF TypeOK
  <2>3. /\ tail' \in Seq(Command) /\ Len(tail') <= MaxTail
        /\ store' = store /\ leader' = leader /\ believes' = believes
    <3>1. CASE UNCHANGED raftVars
      BY <3>1 DEF raftVars, TypeOK
    <3>2. CASE Propose(n, item.key, Gone, item.value, "cleanup")
      BY <2>2, <3>2, ProposeType
    <3>3. QED
      BY <2>1, <3>1, <3>2
  <2>4. batch' \in [Nodes -> SUBSET [key : Keys, value : Value, at : Time]]
    BY <2>1 DEF TakeItem, TypeOK
  <2>5. QED
    BY <2>1, <2>3, <2>4 DEF TypeOK
<1>12. ASSUME NEW n \in Nodes, CleanupEnds(n) PROVE TypeOK'
  BY <1>0, <1>12, SMTT(30) DEF CleanupEnds, TypeOK, raftVars
<1>13. CASE UNCHANGED vars
  BY <1>13 DEF TypeOK, vars, raftVars, cleanupVars
<1>14. QED
  BY <1>1, <1>2, <1>3, <1>4, <1>5, <1>6, <1>7, <1>8, <1>9, <1>10, <1>11, <1>12, <1>13
     DEF Next

(* The instances, the commands on their way and the cleanups' cursors keep *)
(* their types, for every value of the constants.                          *)
THEOREM TypeCorrect == Spec => []TypeOK
<1>1. Init => TypeOK
  BY InitTypeOK
<1>2. TypeOK /\ [Next]_vars => TypeOK'
  BY StepTypeOK
<1>3. QED
  BY <1>1, <1>2, PTL DEF Spec

-----------------------------------------------------------------------------
\* The cursor.

\* What a cleanup remembers as present is present: Commit takes away what goes.
PresentIsStored == \A n \in Nodes : present[n] \subseteq DOMAIN store

LEMMA KeysAreFinite == \A S \in SUBSET Keys : IsFiniteSet(S)
<1>1. IsFiniteSet(Keys)
  BY ConstantsAssumption, FS_Interval DEF Keys
<1>2. QED
  BY <1>1, FS_Subset

\* What lies before an instance has no higher rank than the instance.
LEMMA RankIsMonotone ==
  ASSUME TypeOK, NEW n \in Nodes, NEW j \in Keys, NEW k \in Keys, j <= k
  PROVE  Rank(n, j) <= Rank(n, k) /\ Rank(n, j) \in Nat /\ Rank(n, k) \in Nat
<1> DEFINE A == {i \in Ahead(n) : i < j}
           B == {i \in Ahead(n) : i < k}
<1>1. Ahead(n) \subseteq Keys /\ Keys \subseteq Nat
  BY DEF TypeOK, Ahead, Keys
<1>2. A \subseteq B
  BY <1>1 DEF Keys
<1>3. IsFiniteSet(A) /\ IsFiniteSet(B)
  BY <1>1, KeysAreFinite
<1>4. Cardinality(A) <= Cardinality(B) /\ Cardinality(A) \in Nat /\ Cardinality(B) \in Nat
  BY <1>2, <1>3, FS_Subset, FS_CardinalityType
<1>5. QED
  BY <1>4 DEF Rank

\* A scan that does not wrap has seen all between the old cursor and the new.
LEMMA ScanReachesCursor ==
  ASSUME TypeOK, NEW n \in Nodes, Advanced(n) # 1,
         NEW k \in DOMAIN store, cursor[n] <= k, k < Advanced(n)
  PROVE  k \in Scanned(n)
<1>1. PICK last \in Keys : IsLast(n, last) /\ Advanced(n) = last + 1
  BY DEF Advanced
<1>2. k \in Keys /\ Keys \subseteq Int /\ k <= last
  BY <1>1 DEF TypeOK, Keys
<1>3. Rank(n, k) <= Rank(n, last) /\ Rank(n, k) \in Nat /\ Rank(n, last) \in Nat
  BY <1>1, <1>2, RankIsMonotone
<1>4. Rank(n, k) < Limit
  BY <1>1, <1>3, ConstantsAssumption DEF IsLast
<1>5. QED
  BY <1>4 DEF Scanned, Ahead

LEMMA StepPassInv ==
  TypeOK /\ PresentIsStored /\ PassSkipsNothing /\ [Next]_vars
    => PresentIsStored' /\ PassSkipsNothing'
<1> SUFFICES ASSUME TypeOK, PresentIsStored, PassSkipsNothing, [Next]_vars
             PROVE  PresentIsStored' /\ PassSkipsNothing'
  OBVIOUS
<1>1. CASE UNCHANGED <<store, cursor, behind, present>>
  BY <1>1 DEF PresentIsStored, PassSkipsNothing
<1>2. CASE Commit
  <2>1. PassSkipsNothing'
    <3>1. cursor' = cursor /\ behind' = behind /\ \A n \in Nodes : present'[n] \subseteq present[n]
      BY <1>2 DEF Commit
    <3>2. QED
      BY <3>1 DEF PassSkipsNothing
  <2>2. PresentIsStored'
    <3>1. CASE Head(tail).value = Gone
      BY <1>2, <3>1 DEF Commit, PresentIsStored, Restrict
    <3>2. CASE Head(tail).value # Gone
      BY <1>2, <3>2 DEF Commit, PresentIsStored
    <3>3. QED
      BY <3>1, <3>2
  <2>3. QED
    BY <2>1, <2>2
<1>3. ASSUME NEW n \in Nodes, CleanupScan(n)
      PROVE  PresentIsStored' /\ PassSkipsNothing'
  <2>1. PresentIsStored'
    BY <1>3 DEF CleanupScan, PresentIsStored, raftVars, TypeOK
  <2>2. ASSUME NEW m \in Nodes, NEW k \in present'[m], k < cursor'[m]
        PROVE  k \in behind'[m]
    <3>1. CASE m # n
      BY <1>3, <2>2, <3>1 DEF CleanupScan, PassSkipsNothing, TypeOK
    <3>2. CASE m = n
      <4>1. cursor'[n] = Advanced(n)
        BY <1>3 DEF CleanupScan, TypeOK
      <4>2. k \in DOMAIN store /\ k \in Keys /\ k >= 1
        BY <2>1, <1>3, <3>2 DEF CleanupScan, PresentIsStored, raftVars, TypeOK, Keys
      <4>3. Advanced(n) # 1
        BY <2>2, <3>2, <4>1, <4>2 DEF Keys
      <4>4. behind'[n] = behind[n] \cup Scanned(n)
        BY <1>3, <4>3 DEF CleanupScan, TypeOK
      <4>5. CASE cursor[n] <= k
        BY <2>2, <3>2, <4>1, <4>2, <4>3, <4>4, <4>5, ScanReachesCursor
      <4>6. CASE k < cursor[n]
        <5>1. cursor[n] # 1
          BY <4>2, <4>6 DEF Keys
        <5>2. present'[n] = present[n]
          BY <1>3, <4>3, <5>1 DEF CleanupScan, TypeOK
        <5>3. QED
          BY <3>2, <4>4, <4>6, <5>2, <2>2 DEF PassSkipsNothing
      <4>7. QED
        BY <4>2, <4>5, <4>6 DEF TypeOK, Keys
    <3>3. QED
      BY <3>1, <3>2
  <2>3. QED
    BY <2>1, <2>2 DEF PassSkipsNothing
<1>4. QED
  <2>1. ASSUME NEW n \in Nodes, NEW k \in Keys, Deregister(n, k)
        PROVE  UNCHANGED <<store, cursor, behind, present>>
    BY <2>1 DEF Deregister, Propose, cleanupVars
  <2>2. ASSUME NEW n \in Nodes, NEW k \in Keys, NEW d \in Data, NEW ttl \in TTLs,
               Register(n, k, d, ttl)
        PROVE  UNCHANGED <<store, cursor, behind, present>>
    BY <2>2 DEF Register, Propose, cleanupVars
  <2>3. ASSUME NEW n \in Nodes, NEW k \in Keys, NEW ttl \in TTLs, NEW h \in Handlers,
               HeartbeatRead(h, n, k, ttl)
        PROVE  UNCHANGED <<store, cursor, behind, present>>
    BY <2>3 DEF HeartbeatRead, cleanupVars, raftVars
  <2>4. ASSUME NEW h \in Handlers, HeartbeatWrite(h) \/ HeartbeatFails(h)
        PROVE  UNCHANGED <<store, cursor, behind, present>>
    BY <2>4 DEF HeartbeatWrite, HeartbeatFails, Propose, cleanupVars, raftVars
  <2>5. ASSUME NEW n \in Nodes, ChangeLeader(n) \/ StepDown(n) \/ CleanupEnds(n)
        PROVE  UNCHANGED <<store, cursor, behind, present>>
    BY <2>5 DEF ChangeLeader, StepDown, CleanupEnds, cleanupVars, raftVars
  <2>6. ASSUME NEW n \in Nodes, CleanupItem(n)
        PROVE  UNCHANGED <<store, cursor, behind, present>>
    BY <2>6 DEF CleanupItem, Propose, raftVars
  <2>7. ASSUME Tick \/ UNCHANGED vars
        PROVE  UNCHANGED <<store, cursor, behind, present>>
    BY <2>7 DEF Tick, vars, cleanupVars, raftVars
  <2>8. QED
    BY <1>1, <1>2, <1>3, <2>1, <2>2, <2>3, <2>4, <2>5, <2>6, <2>7 DEF Next

(* However the instances change while the cleanup goes over them limit by  *)
(* limit, one that is there all the while is scanned in every full pass.   *)
THEOREM PassSkipsNothingAlways == Spec => []PassSkipsNothing
<1>1. Init => TypeOK /\ PresentIsStored /\ PassSkipsNothing
  BY InitTypeOK DEF Init, PresentIsStored, PassSkipsNothing
<1>2. TypeOK /\ PresentIsStored /\ PassSkipsNothing /\ [Next]_vars
        => TypeOK' /\ PresentIsStored' /\ PassSkipsNothing'
  BY StepTypeOK, StepPassInv
<1>3. QED
  BY <1>1, <1>2, PTL DEF Spec

-----------------------------------------------------------------------------
\* Removals.

\* A scanned item was read in the past; a delete that the cleanup proposed goes
\* back to a value whose lease had run out; registrations and heartbeats put.
ItemsArePast == \A n \in Nodes : \A item \in batch[n] : item.at <= now

Judged(c, t) == /\ c.by = "cleanup" => ~IsAlive(c.base, t)
                /\ c.by \in {"register", "heartbeat"} => c.value # Gone

TailIsJudged == \A i \in 1 .. Len(tail) : Judged(tail[i], now)

LEMMA LeaseEnd ==
  ASSUME TypeOK, NEW v \in Value \cup {Gone}
  PROVE  v.heartbeat + EffectiveTTL(v.ttl) \in Int
<1>1. v.heartbeat \in Int
  BY DEF Value, Time, Gone
<1>2. v.ttl \in Nat
  <2>1. \A t \in TTLs \cup {DefaultTTL, 0} : t \in Nat
    BY ConstantsAssumption
  <2>2. v.ttl \in TTLs \cup {DefaultTTL, 0}
    BY DEF Value, Gone
  <2>3. QED
    BY <2>1, <2>2
<1>3. EffectiveTTL(v.ttl) \in Nat
  BY <1>2, ConstantsAssumption DEF EffectiveTTL
<1>4. QED
  BY <1>1, <1>3

\* A lease that has run out stays so.
LEMMA JudgedStays ==
  ASSUME TypeOK, NEW c \in Command, NEW t \in Int, NEW u \in Int, t <= u, Judged(c, t)
  PROVE  Judged(c, u)
<1>1. c.base.heartbeat + EffectiveTTL(c.base.ttl) \in Int
  BY LeaseEnd DEF Command
<1>2. QED
  BY <1>1 DEF Judged, IsAlive

LEMMA ProposeJudged ==
  ASSUME TypeOK, TailIsJudged, now' = now,
         NEW n, NEW k \in Keys, NEW v \in Value \cup {Gone}, NEW base \in Value \cup {Gone},
         NEW by \in {"register", "deregister", "heartbeat", "cleanup"},
         Propose(n, k, v, base, by),
         Judged([key |-> k, value |-> v, base |-> base, by |-> by], now)
  PROVE  TailIsJudged'
<1> DEFINE c == [key |-> k, value |-> v, base |-> base, by |-> by]
<1>1. CASE tail' = Append(tail, c)
  <2>1. tail \in Seq(Command) /\ Len(tail) \in Nat /\ c \in Command
    BY DEF TypeOK, Command
  <2>2. Len(tail') = Len(tail) + 1 /\ tail'[Len(tail) + 1] = c
        /\ \A i \in 1 .. Len(tail) : tail'[i] = tail[i]
    BY <1>1, <2>1
  <2>3. ASSUME NEW i \in 1 .. Len(tail') PROVE Judged(tail'[i], now)
    <3>1. i \in 1 .. Len(tail) \/ i = Len(tail) + 1
      BY <2>1, <2>2, <2>3
    <3>2. QED
      BY <2>2, <3>1 DEF TailIsJudged
  <2>4. QED
    BY <2>3 DEF TailIsJudged
<1>2. CASE tail' = tail
  BY <1>2 DEF TailIsJudged
<1>3. QED
  BY <1>1, <1>2 DEF Propose

LEMMA StepJudged ==
  TypeOK /\ ItemsArePast /\ TailIsJudged /\ [Next]_vars => ItemsArePast' /\ TailIsJudged'
<1> SUFFICES ASSUME TypeOK, ItemsArePast, TailIsJudged, [Next]_vars
             PROVE  ItemsArePast' /\ TailIsJudged'
  OBVIOUS
<1>0. now \in Int /\ tail \in Seq(Command) /\ Len(tail) \in Nat
  BY DEF TypeOK, Time
<1>1. CASE UNCHANGED <<batch, tail, now>>
  BY <1>1 DEF ItemsArePast, TailIsJudged
<1>2. ASSUME NEW n \in Nodes, NEW k \in Keys, NEW d \in Data, NEW ttl \in TTLs,
             Register(n, k, d, ttl)
      PROVE  ItemsArePast' /\ TailIsJudged'
  <2>1. NewValue(d, ttl) \in Value /\ NewValue(d, ttl) # Gone
    BY NewValueType, GoneIsNoValue
  <2>2. TailIsJudged'
    BY <1>2, <2>1, ProposeJudged DEF Register, Judged
  <2>3. QED
    BY <1>2, <2>2 DEF Register, ItemsArePast, cleanupVars
<1>3. ASSUME NEW n \in Nodes, NEW k \in Keys, Deregister(n, k)
      PROVE  ItemsArePast' /\ TailIsJudged'
  <2>1. TailIsJudged'
    BY <1>3, ProposeJudged DEF Deregister, Judged
  <2>2. QED
    BY <1>3, <2>1 DEF Deregister, ItemsArePast, cleanupVars
<1>4. ASSUME NEW h \in Handlers, HeartbeatWrite(h) PROVE ItemsArePast' /\ TailIsJudged'
  <2>1. request[h] \in [node : Nodes, key : Keys, value : Value, ttl : TTLs]
    BY <1>4 DEF HeartbeatWrite, TypeOK
  <2>2. /\ Renewed(request[h].value, request[h].ttl) \in Value
        /\ Renewed(request[h].value, request[h].ttl) # Gone
        /\ request[h].value \in Value /\ request[h].key \in Keys
    BY <2>1, RenewedType, GoneIsNoValue
  <2>3. TailIsJudged'
    BY <1>4, <2>2, ProposeJudged DEF HeartbeatWrite, Judged
  <2>4. QED
    BY <1>4, <2>3 DEF HeartbeatWrite, ItemsArePast, cleanupVars
<1>5. CASE Commit
  <2>1. tail # <<>> /\ tail' = Tail(tail)
    BY <1>5 DEF Commit
  <2>2. \A i \in 1 .. Len(tail') : i + 1 \in 1 .. Len(tail) /\ tail'[i] = tail[i + 1]
    BY <1>0, <2>1
  <2>3. QED
    BY <1>5, <2>2 DEF Commit, ItemsArePast, TailIsJudged
<1>6. ASSUME NEW n \in Nodes, ChangeLeader(n) PROVE ItemsArePast' /\ TailIsJudged'
  <2>1. PICK len \in 0 .. Len(tail) : tail' = SubSeq(tail, 1, len)
    BY <1>6 DEF ChangeLeader
  <2>2. \A i \in 1 .. Len(tail') : i \in 1 .. Len(tail) /\ tail'[i] = tail[i]
    BY <1>0, <2>1
  <2>3. QED
    BY <1>6, <2>2 DEF ChangeLeader, ItemsArePast, TailIsJudged, cleanupVars
<1>7. CASE Tick
  <2>1. now' \in Int /\ now <= now' /\ tail' = tail /\ batch' = batch
    BY <1>0, <1>7 DEF Tick, raftVars, cleanupVars
  <2>2. \A i \in 1 .. Len(tail) : tail[i] \in Command
    BY <1>0
  <2>3. TailIsJudged'
    BY <1>0, <2>1, <2>2, JudgedStays DEF TailIsJudged
  <2>4. \A n \in Nodes : \A item \in batch[n] : item.at \in Int
    BY DEF TypeOK, Time
  <2>5. ItemsArePast'
    BY <1>0, <2>1, <2>4 DEF ItemsArePast
  <2>6. QED
    BY <2>3, <2>5
<1>8. ASSUME NEW n \in Nodes, CleanupScan(n) PROVE ItemsArePast' /\ TailIsJudged'
  <2>1. ASSUME NEW m \in Nodes, NEW item \in batch'[m] PROVE item.at <= now
    <3>1. CASE m = n
      BY <1>0, <1>8, <2>1, <3>1 DEF CleanupScan, TypeOK
    <3>2. CASE m # n
      BY <1>8, <2>1, <3>2 DEF CleanupScan, TypeOK, ItemsArePast
    <3>3. QED
      BY <3>1, <3>2
  <2>2. QED
    BY <1>8, <2>1 DEF CleanupScan, ItemsArePast, TailIsJudged, raftVars
<1>9. ASSUME NEW n \in Nodes, CleanupItem(n) PROVE ItemsArePast' /\ TailIsJudged'
  <2>1. PICK item \in batch[n] :
          /\ TakeItem(n, item)
          /\ IF IsAlive(item.value, item.at)
             THEN UNCHANGED raftVars
             ELSE Propose(n, item.key, Gone, item.value, "cleanup")
          /\ UNCHANGED <<cursor, behind, present, now, request, calls, changes, failures>>
    BY <1>9 DEF CleanupItem
  <2>2. item.key \in Keys /\ item.value \in Value /\ item.at \in Int /\ item.at <= now
    BY DEF TypeOK, Time, ItemsArePast
  <2>3. TailIsJudged'
    <3>1. CASE IsAlive(item.value, item.at)
      BY <2>1, <3>1 DEF raftVars, TailIsJudged
    <3>2. CASE ~IsAlive(item.value, item.at)
      <4>1. ~IsAlive(item.value, now)
        BY <1>0, <2>2, <3>2, LeaseEnd DEF IsAlive
      <4>2. Judged([key |-> item.key, value |-> Gone, base |-> item.value,
                    by |-> "cleanup"], now)
        BY <4>1 DEF Judged
      <4>3. QED
        BY <2>1, <2>2, <3>2, <4>2, ProposeJudged
    <3>3. QED
      BY <3>1, <3>2
  <2>4. ItemsArePast'
    BY <2>1 DEF TakeItem, ItemsArePast, TypeOK
  <2>5. QED
    BY <2>3, <2>4
<1>10. ASSUME NEW n \in Nodes, CleanupEnds(n) PROVE ItemsArePast' /\ TailIsJudged'
  BY <1>10 DEF CleanupEnds, ItemsArePast, TailIsJudged, TypeOK, raftVars
<1>11. QED
  <2>1. ASSUME NEW n \in Nodes, NEW k \in Keys, NEW ttl \in TTLs, NEW h \in Handlers,
               HeartbeatRead(h, n, k, ttl)
        PROVE  UNCHANGED <<batch, tail, now>>
    BY <2>1 DEF HeartbeatRead, cleanupVars, raftVars
  <2>2. ASSUME NEW h \in Handlers, HeartbeatFails(h) PROVE UNCHANGED <<batch, tail, now>>
    BY <2>2 DEF HeartbeatFails, cleanupVars, raftVars
  <2>3. ASSUME NEW n \in Nodes, StepDown(n) PROVE UNCHANGED <<batch, tail, now>>
    BY <2>3 DEF StepDown, cleanupVars
  <2>4. ASSUME UNCHANGED vars PROVE UNCHANGED <<batch, tail, now>>
    BY <2>4 DEF vars, cleanupVars, raftVars
  <2>5. QED
    BY <1>1, <1>2, <1>3, <1>4, <1>5, <1>6, <1>7, <1>8, <1>9, <1>10, <2>1, <2>2, <2>3, <2>4
       DEF Next

LEMMA StepRemoval ==
  ASSUME TypeOK, TailIsJudged, [Next]_vars, NEW k \in DOMAIN store \ DOMAIN store'
  PROVE  \/ Head(tail).by = "deregister"
         \/ ~IsAlive(store[k], now)
         \/ store[k] # Head(tail).base
<1>1. Commit
  <2>1. ASSUME store' = store PROVE FALSE
    BY <2>1
  <2>2. Commit \/ store' = store
    BY DEF Next, vars, raftVars, Register, Deregister, HeartbeatRead, HeartbeatWrite,
           HeartbeatFails, Propose, ChangeLeader, StepDown, Tick, CleanupScan, CleanupItem,
           CleanupEnds
  <2>3. QED
    BY <2>1, <2>2
<1>2. tail # <<>> /\ tail \in Seq(Command) /\ Head(tail).value = Gone
  BY <1>1 DEF Commit, TypeOK
<1>3. Head(tail) = tail[1] /\ 1 \in 1 .. Len(tail) /\ Head(tail) \in Command
  BY <1>2
<1>4. Judged(Head(tail), now)
  BY <1>3 DEF TailIsJudged
<1>5. Head(tail).by \in {"register", "deregister", "heartbeat", "cleanup"}
  BY <1>3 DEF Command
<1>6. QED
  BY <1>2, <1>4, <1>5 DEF Judged

(* Whatever overtakes the cleanup on the way to the log, across changes of *)
(* leader, an instance within its lease is removed only by a Deregister or *)
(* by a cleanup that judged another value of it.                           *)
THEOREM RemovalIsJustifiedAlways == Spec => RemovalIsJustified
<1>1. Init => TypeOK /\ ItemsArePast /\ TailIsJudged
  BY InitTypeOK DEF Init, ItemsArePast, TailIsJudged
<1>2. TypeOK /\ ItemsArePast /\ TailIsJudged /\ [Next]_vars
        => TypeOK' /\ ItemsArePast' /\ TailIsJudged'
  BY StepTypeOK, StepJudged
<1>3. TypeOK /\ TailIsJudged /\ [Next]_vars
        => [\A k \in DOMAIN store \ DOMAIN store' :
              \/ Head(tail).by = "deregister"
              \/ ~IsAlive(store[k], now)
              \/ store[k] # Head(tail).base]_vars
  BY StepRemoval
<1>4. QED
  BY <1>1, <1>2, <1>3, PTL DEF Spec, RemovalIsJustified

=============================================================================
