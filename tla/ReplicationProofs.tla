-------------------------- MODULE ReplicationProofs --------------------------
(***************************************************************************)
(* Proofs about Replication, for every set of nodes, number of instances   *)
(* and length of the source's history, and for every bound.                *)
(***************************************************************************)
EXTENDS Replication, FiniteSetTheorems, SequenceTheorems, NaturalsInduction,
        WellFoundedInduction, TLAPS

-----------------------------------------------------------------------------
\* The inductive invariant.

\* A stream with the log to itself: nothing but what it sends comes after the
\* checkpoint that it started from.
Own(n) == n = leader /\ stream[n].term = changes /\ stream[n].clean

\* What has been taken from the source and is on its way into the replica.
Pending == tail \o (IF Own(leader) THEN stream[leader].todo ELSE <<>>)

Writes(c, k) == c.op = "clear" \/ (c.op = "put" /\ c.key = k)
Written(c) == IF c.op = "clear" THEN 0 ELSE c.value
IsMark(c) == c.op = "checkpoint"

\* Instance k has value v after the first j commands of q on a replica.
Shows(image, q, k, j, v) ==
  \/ (\A p \in 1 .. j : ~Writes(q[p], k)) /\ v = image[k]
  \/ \E p \in 1 .. j : /\ Writes(q[p], k) /\ v = Written(q[p])
                       /\ \A l \in p + 1 .. j : ~Writes(q[l], k)

\* It then is what the source held at revision r or later.
Holds(image, q, k, j, r) == \E i \in r .. Latest : Shows(image, q, k, j, At(k, i))

\* Nothing is missing at a checkpoint that is pending.
MarksInv(image, q) ==
  \A j \in 1 .. Len(q) : IsMark(q[j]) =>
    \A k \in Keys : Holds(image, q, k, j, q[j].value.applied)

\* A put is not older than the checkpoints before it, and those are not ahead of
\* the source.
PutsInv(q, c) ==
  /\ c <= Latest
  /\ \A p \in 1 .. Len(q) :
       /\ IsMark(q[p]) => q[p].value.applied <= Latest
       /\ q[p].op = "put" => \E i \in c .. Latest :
            /\ q[p].value = At(q[p].key, i)
            /\ \A l \in 1 .. p : IsMark(q[l]) => q[l].value.applied <= i

\* The end of a snapshot comes after the first j commands, and not behind another
\* clearing of the service.
Ends(q, j) ==
  \E p \in j + 1 .. Len(q) : /\ IsMark(q[p]) /\ q[p].value.snapshot > 0
                             /\ \A l \in j + 1 .. p : q[l].op # "clear"

\* A service that is cleared, or will be, is written again.
ClearsInv(image, q, c) ==
  /\ \A p \in 1 .. Len(q) : q[p].op = "clear" => Ends(q, p)
  /\ \/ \A k \in Keys : \E i \in c .. Latest : image[k] = At(k, i)
     \/ Ends(q, 0)

DataInv(image, q, c) == MarksInv(image, q) /\ PutsInv(q, c) /\ ClearsInv(image, q, c)

\* The replica has been brought up to revision r, and no checkpoint is further ahead
\* than a snapshot's can be.
UpTo(image, q, c, r) ==
  /\ r <= Latest /\ c <= r + 1
  /\ \A k \in Keys : Holds(image, q, k, Len(q), r)
  /\ \A p \in 1 .. Len(q) : IsMark(q[p]) => q[p].value.applied <= r + 1

StreamsInv ==
  \A n \in Nodes :
    /\ stream[n].term <= changes
    /\ stream[n].phase \in {"idle", "checked", "snapshot"} => stream[n].todo = <<>>

IInv ==
  /\ StreamsInv
  /\ ~excused =>
       /\ DataInv(replica, Pending, checkpoint.applied)
       /\ Own(leader) /\ stream[leader].phase = "events" =>
            UpTo(replica, Pending, checkpoint.applied, stream[leader].since)
       /\ \A n \in Nodes : InSnapshot(n) => Own(n)

-----------------------------------------------------------------------------
\* Values, and the commands that an event or a snapshot becomes.

LEMMA ConstantsType ==
  /\ MaxKey \in Nat /\ MaxRev \in Nat /\ MaxTail \in Nat /\ MaxChanges \in Nat
  /\ MaxFailures \in Nat /\ MaxRestarts \in Nat /\ History \in Nat /\ History >= 1
BY ConstantsAssumption

LEMMA HasGreatest ==
  ASSUME NEW m \in Nat, NEW S \in SUBSET (0 .. m), S # {}
  PROVE  \E e \in S : \A s \in S : e >= s
<1> DEFINE T == {m - s : s \in S}
<1>1. T \subseteq Nat /\ T # {}
  <2>1. \A s \in S : m - s \in Nat
    OBVIOUS
  <2>2. PICK s \in S : TRUE
    OBVIOUS
  <2>3. m - s \in T
    BY <2>2
  <2>4. QED
    BY <2>1, <2>3
<1>2. \E n \in T : \A l \in T : ~(<<l, n>> \in OpToRel(<, Nat))
  <2> HIDE DEF T
  <2>1. QED
    BY <1>1, NatLessThanWellFounded, WFMin
<1>3. PICK n \in T : \A l \in T : ~(l < n)
  <2> HIDE DEF T
  <2>1. QED
    BY <1>1, <1>2 DEF OpToRel
<1>4. PICK e \in S : n = m - e
  BY <1>3
<1>5. ASSUME NEW s \in S PROVE e >= s
  <2>1. m - s \in T
    OBVIOUS
  <2>2. ~(m - s < m - e)
    <3> HIDE DEF T
    <3>1. QED
      BY <1>3, <1>4, <2>1
  <2>3. m \in Int /\ e \in Int /\ s \in Int
    OBVIOUS
  <2> HIDE DEF T
  <2>4. QED
    BY <2>2, <2>3
<1> HIDE DEF T
<1>6. QED
  BY <1>5

\* What the source's part of TypeOK says.
SourceType ==
  /\ source \in Seq(Event) /\ Len(source) <= MaxRev
  /\ oldest \in 1 .. Len(source) + 1

\* The value of an instance is the revision of its last write, or 0.
LEMMA ValueAt ==
  ASSUME SourceType, NEW k \in Keys, NEW r \in 0 .. Latest
  PROVE  At(k, r) \in 0 .. r /\ At(k, r) \in Revisions
<1> DEFINE writes == {i \in 1 .. r : source[i].key = k}
<1>1. /\ Latest \in Nat /\ Latest <= MaxRev /\ MaxRev \in Nat /\ r \in Nat /\ r <= Latest
  BY ConstantsType DEF SourceType, Latest
<1>2. writes # {} => Max(writes) \in writes
  <2>1. writes \in SUBSET (0 .. r)
    BY <1>1
  <2>2. writes # {} => \E e \in writes : \A s \in writes : e >= s
    BY <1>1, <2>1, HasGreatest
  <2> HIDE DEF writes
  <2>3. QED
    BY <2>2 DEF Max
<1>3. At(k, r) = IF writes # {} /\ source[Max(writes)].alive THEN Max(writes) ELSE 0
  BY DEF At
<1>4. At(k, r) \in 0 .. r
  BY <1>1, <1>2, <1>3
<1>5. QED
  BY <1>1, <1>4 DEF Revisions

\* An event about another instance changes nothing.
LEMMA ValueStays ==
  ASSUME SourceType, NEW k \in Keys, NEW r \in 1 .. Latest, source[r].key # k
  PROVE  At(k, r) = At(k, r - 1)
<1>1. r \in Nat
  BY DEF SourceType, Latest
<1>2. {i \in 1 .. r : source[i].key = k} = {i \in 1 .. r - 1 : source[i].key = k}
  BY <1>1
<1>3. QED
  BY <1>2 DEF At

\* What the source held at a revision does not change.
LEMMA ValueKept ==
  ASSUME SourceType, NEW k \in Keys, NEW r \in 0 .. Latest,
         \A i \in 1 .. Latest : source'[i] = source[i]
  PROVE  At(k, r)' = At(k, r)
<1> DEFINE writes == {i \in 1 .. r : source[i].key = k}
           writesNext == {i \in 1 .. r : source'[i].key = k}
<1>1. Latest \in Nat /\ r \in Nat /\ r <= Latest
  BY DEF SourceType, Latest
<1>2. writes # {} => Max(writes) \in 1 .. Latest
  <2>1. writes \in SUBSET (0 .. r)
    BY <1>1
  <2>2. writes # {} => \E e \in writes : \A s \in writes : e >= s
    BY <1>1, <2>1, HasGreatest
  <2>3. writes # {} => Max(writes) \in writes
    <3> HIDE DEF writes
    <3>1. QED
      BY <2>2 DEF Max
  <2>4. QED
    BY <1>1, <2>3
<1>3. writesNext = writes
  BY <1>1
<1>4. /\ At(k, r) = (IF writes # {} /\ source[Max(writes)].alive THEN Max(writes) ELSE 0)
      /\ At(k, r)' = (IF writesNext # {} /\ source'[Max(writesNext)].alive
                      THEN Max(writesNext) ELSE 0)
  BY DEF At
<1> HIDE DEF writes, writesNext
<1>5. QED
  BY <1>2, <1>3, <1>4

LEMMA CommandType ==
  /\ [op |-> "clear"] \in Command
  /\ \A k \in Keys, v \in Revisions : Put(k, v) \in Command
  /\ \A a, s \in Revisions : Mark(a, s) \in Command
BY DEF Command, Put, Mark, Checkpoint

LEMMA EventCommandsType ==
  ASSUME SourceType, NEW r \in 1 .. Latest
  PROVE  /\ EventCommands(r) \in Seq(Command) /\ Len(EventCommands(r)) = 2
         /\ source[r].key \in Keys
         /\ EventCommands(r)[1] = Put(source[r].key, At(source[r].key, r))
         /\ EventCommands(r)[2] = Mark(r, 0)
<1>1. Latest \in Nat /\ Latest <= MaxRev /\ MaxRev \in Nat
  BY ConstantsType DEF SourceType, Latest
<1>2. r \in Revisions /\ 0 \in Revisions /\ r \in 0 .. Latest
  BY <1>1 DEF Revisions
<1>3. source[r].key \in Keys
  <2>1. source[r] \in Event
    BY DEF SourceType, Latest
  <2>2. QED
    BY <2>1 DEF Event
<1>4. At(source[r].key, r) \in Revisions
  BY <1>2, <1>3, ValueAt
<1>5. /\ Put(source[r].key, At(source[r].key, r)) \in Command
      /\ Mark(r, 0) \in Command
  BY <1>2, <1>3, <1>4, CommandType
<1>6. QED
  BY <1>3, <1>5 DEF EventCommands

\* A set in some order.
LEMMA Listed ==
  ASSUME NEW S, IsFiniteSet(S)
  PROVE  /\ SetToSeq(S) \in Seq(S) /\ IsInjective(SetToSeq(S))
         /\ \A e \in S : \E i \in 1 .. Len(SetToSeq(S)) : SetToSeq(S)[i] = e
<1>1. Cardinality(S) \in Nat /\ ExistsBijection(1 .. Cardinality(S), S)
  BY FS_CardinalityType
<1>2. PICK f \in Bijection(1 .. Cardinality(S), S) : TRUE
  BY <1>1 DEF ExistsBijection
<1>3. f \in [1 .. Cardinality(S) -> S] /\ IsInjective(f)
  BY <1>2 DEF Bijection, Injection, IsInjective
<1>4. /\ SetToSeq(S) \in [1 .. Cardinality(S) -> S] /\ IsInjective(SetToSeq(S))
  BY <1>3 DEF SetToSeq
<1>5. SetToSeq(S) \in Seq(S) /\ Len(SetToSeq(S)) = Cardinality(S)
  BY <1>1, <1>4
<1>6. SetToSeq(S) \in Surjection(1 .. Cardinality(S), S)
  <2>1. SetToSeq(S) \in Injection(1 .. Cardinality(S), S)
    BY <1>4 DEF Injection, IsInjective
  <2>2. IsFiniteSet(1 .. Cardinality(S)) /\ Cardinality(1 .. Cardinality(S)) = Cardinality(S)
    BY <1>1, FS_Interval
  <2>3. QED
    BY <2>1, <2>2, FS_Injection
<1>7. QED
  BY <1>4, <1>5, <1>6 DEF Surjection

\* What SnapshotCommands puts, in the order of the list.
Present(now) == {k \in Keys : At(k, now) # 0}

LEMMA SnapshotCommandsType ==
  ASSUME SourceType, NEW r \in Revisions, NEW now \in 0 .. Latest
  PROVE  LET q == SnapshotCommands(r, now)
         IN  /\ q \in Seq(Command) /\ Len(q) >= 2
             /\ q[1] = [op |-> "clear"] /\ q[Len(q)] = Mark(r, r)
             /\ \A p \in 2 .. Len(q) - 1 : \E k \in Keys :
                  q[p] = Put(k, At(k, now)) /\ At(k, now) \in Revisions /\ At(k, now) # 0
             /\ \A p, l \in 2 .. Len(q) - 1 : q[p].key = q[l].key => p = l
             /\ \A k \in Keys : At(k, now) # 0 =>
                  \E p \in 2 .. Len(q) - 1 : q[p] = Put(k, At(k, now))
<1> DEFINE there == SetToSeq(Present(now))
           puts == [i \in DOMAIN there |-> Put(there[i], At(there[i], now))]
           clear == <<[op |-> "clear"]>>
           mark == <<Mark(r, r)>>
<1>1. IsFiniteSet(Present(now))
  <2>1. IsFiniteSet(Keys)
    BY ConstantsType, FS_Interval DEF Keys
  <2>2. QED
    BY <2>1, FS_Subset DEF Present
<1>2. /\ there \in Seq(Present(now)) /\ IsInjective(there)
      /\ \A k \in Present(now) : \E i \in 1 .. Len(there) : there[i] = k
  BY <1>1, Listed
<1>3. /\ Len(there) \in Nat /\ DOMAIN there = 1 .. Len(there)
      /\ \A i \in 1 .. Len(there) : there[i] \in Keys /\ At(there[i], now) # 0
      /\ \A i, j \in 1 .. Len(there) : there[i] = there[j] => i = j
  <2>1. \A k \in Present(now) : k \in Keys /\ At(k, now) # 0
    BY DEF Present
  <2> HIDE DEF there
  <2>2. /\ Len(there) \in Nat /\ DOMAIN there = 1 .. Len(there)
        /\ \A i \in 1 .. Len(there) : there[i] \in Present(now)
    BY <1>2
  <2>3. \A i, j \in DOMAIN there : there[i] = there[j] => i = j
    BY <1>2 DEF IsInjective
  <2>4. QED
    BY <2>1, <2>2, <2>3
<1>4. SnapshotCommands(r, now) = (clear \o puts) \o mark
  BY DEF SnapshotCommands, Present
<1>5. \A k \in Keys : At(k, now) \in Revisions
  BY ValueAt
<1>6. \A i \in 1 .. Len(there) : Put(there[i], At(there[i], now)) \in Command
  BY <1>3, <1>5, CommandType
<1>7. /\ puts \in Seq(Command) /\ Len(puts) = Len(there)
      /\ \A i \in 1 .. Len(there) : puts[i] = Put(there[i], At(there[i], now))
  <2> HIDE DEF there
  <2>1. QED
    BY <1>3, <1>6
<1>8. clear \in Seq(Command) /\ mark \in Seq(Command) /\ Len(clear) = 1 /\ Len(mark) = 1
      /\ clear[1] = [op |-> "clear"] /\ mark[1] = Mark(r, r)
  BY CommandType
<1> DEFINE n == Len(there)
           q == (clear \o puts) \o mark
<1> HIDE DEF there, puts, clear, mark
<1>9. /\ q \in Seq(Command) /\ Len(q) = n + 2 /\ n \in Nat
      /\ q[1] = clear[1] /\ q[n + 2] = mark[1]
      /\ \A i \in 1 .. n : q[i + 1] = puts[i]
  <2> DEFINE head == clear \o puts
  <2>1. n \in Nat /\ Len(puts) = n /\ puts \in Seq(Command) /\ clear \in Seq(Command)
    BY <1>3, <1>7, <1>8
  <2>2. /\ head \in Seq(Command) /\ Len(head) = n + 1
        /\ \A i \in 1 .. n + 1 : head[i] = IF i <= 1 THEN clear[i] ELSE puts[i - 1]
    <3>1. /\ head \in Seq(Command) /\ Len(head) = Len(clear) + Len(puts)
          /\ \A i \in 1 .. Len(clear) + Len(puts) :
               head[i] = IF i <= Len(clear) THEN clear[i] ELSE puts[i - Len(clear)]
      BY <2>1, ConcatProperties
    <3>2. Len(clear) + Len(puts) = n + 1
      BY <1>8, <2>1
    <3> HIDE DEF head
    <3>3. QED
      BY <1>8, <3>1, <3>2
  <2>3. head[1] = clear[1]
    BY <2>1, <2>2
  <2>4. \A i \in 1 .. n : head[i + 1] = puts[i]
    <3>1. TAKE i \in 1 .. n
    <3>2. i + 1 \in 1 .. n + 1 /\ ~(i + 1 <= 1) /\ (i + 1) - 1 = i
      BY <2>1
    <3>3. QED
      BY <2>2, <3>2
  <2> HIDE DEF head
  <2>5. /\ head \o mark \in Seq(Command) /\ Len(head \o mark) = n + 2
        /\ \A i \in 1 .. n + 2 :
             (head \o mark)[i] = IF i <= n + 1 THEN head[i] ELSE mark[i - (n + 1)]
    <3>1. /\ head \o mark \in Seq(Command) /\ Len(head \o mark) = Len(head) + Len(mark)
          /\ \A i \in 1 .. Len(head) + Len(mark) :
               (head \o mark)[i] = IF i <= Len(head) THEN head[i] ELSE mark[i - Len(head)]
      BY <1>8, <2>2, ConcatProperties
    <3>2. Len(head) + Len(mark) = n + 2
      BY <1>8, <2>1, <2>2
    <3>3. QED
      BY <2>2, <3>1, <3>2
  <2>6. (head \o mark)[1] = head[1]
    BY <2>1, <2>5
  <2>7. (head \o mark)[n + 2] = mark[1]
    <3>1. n + 2 \in 1 .. n + 2 /\ ~(n + 2 <= n + 1) /\ (n + 2) - (n + 1) = 1
      BY <2>1
    <3>2. QED
      BY <2>5, <3>1
  <2>8. \A i \in 1 .. n : (head \o mark)[i + 1] = head[i + 1]
    BY <2>1, <2>5
  <2>9. QED
    BY <2>1, <2>3, <2>4, <2>5, <2>6, <2>7, <2>8 DEF head
<1> HIDE DEF q, n
<1>10. ASSUME NEW p \in 2 .. n + 1
       PROVE  p - 1 \in 1 .. n /\ q[p] = puts[p - 1]
  <2>1. p - 1 \in 1 .. n /\ (p - 1) + 1 = p
    BY <1>9
  <2>2. QED
    BY <1>9, <2>1
<1>11. \A p \in 2 .. n + 1 :
         /\ there[p - 1] \in Keys /\ q[p] = Put(there[p - 1], At(there[p - 1], now))
         /\ At(there[p - 1], now) # 0 /\ At(there[p - 1], now) \in Revisions
  <2>1. TAKE p \in 2 .. n + 1
  <2>2. p - 1 \in 1 .. n /\ q[p] = puts[p - 1]
    BY <1>10
  <2>3. QED
    BY <1>3, <1>5, <1>7, <2>2 DEF n
<1>12. \A p, l \in 2 .. n + 1 : q[p].key = q[l].key => p = l
  <2>1. SUFFICES ASSUME NEW p \in 2 .. n + 1, NEW l \in 2 .. n + 1, q[p].key = q[l].key
                 PROVE  p = l
    OBVIOUS
  <2>2. \A k, v : Put(k, v).key = k
    BY DEF Put
  <2>3. /\ q[p] = Put(there[p - 1], At(there[p - 1], now))
        /\ q[l] = Put(there[l - 1], At(there[l - 1], now))
    BY <1>11
  <2>4. there[p - 1] = there[l - 1]
    BY <2>1, <2>2, <2>3
  <2>5. p - 1 = l - 1
    BY <1>3, <1>10, <2>4 DEF n
  <2>6. QED
    BY <1>9, <2>5
<1>13. \A k \in Keys : At(k, now) # 0 => \E p \in 2 .. n + 1 : q[p] = Put(k, At(k, now))
  <2>1. SUFFICES ASSUME NEW k \in Keys, At(k, now) # 0
                 PROVE  \E p \in 2 .. n + 1 : q[p] = Put(k, At(k, now))
    OBVIOUS
  <2>2. PICK i \in 1 .. n : there[i] = k
    BY <1>2, <2>1 DEF Present, n
  <2>3. q[i + 1] = Put(k, At(k, now))
    BY <1>7, <1>9, <2>2 DEF n
  <2>4. i + 1 \in 2 .. n + 1
    BY <1>9
  <2>5. QED
    BY <2>3, <2>4
<1>14. n + 1 = Len(q) - 1 /\ Len(q) >= 2 /\ Len(q) = n + 2
  BY <1>9
<1>15. SnapshotCommands(r, now) = q
  BY <1>4 DEF q
<1>16. QED
  BY <1>8, <1>9, <1>11, <1>12, <1>13, <1>14, <1>15

-----------------------------------------------------------------------------
\* Type correctness.

LEMMA InitTypeOK == Init => TypeOK
<1> SUFFICES ASSUME Init PROVE TypeOK
  OBVIOUS
<1>1. 0 \in Revisions /\ <<>> \in Seq(Command) /\ Len(<<>>) = 0
  BY ConstantsType DEF Revisions
<1>2. Idle \in Stream
  BY <1>1, ConstantsType DEF Idle, Stream
<1>3. leader \in Nodes
  BY ConstantsAssumption DEF Init
<1>4. source \in Seq(Event) /\ Len(source) = 0 /\ Len(tail) = 0
  BY <1>1 DEF Init
<1>5. source \in Seq(Event) /\ Len(source) <= MaxRev /\ oldest \in 1 .. Len(source) + 1
  BY <1>4, ConstantsType DEF Init
<1>6. replica \in [Keys -> Revisions] /\ checkpoint \in Checkpoint
  BY <1>1 DEF Init, Checkpoint
<1>7. tail \in Seq(Command) /\ Len(tail) <= MaxTail
  BY <1>1, <1>4, ConstantsType DEF Init
<1>8. leader \in believes /\ believes \subseteq Nodes /\ connected \subseteq Nodes
  BY <1>3 DEF Init
<1>9. stream \in [Nodes -> Stream] /\ excused \in BOOLEAN
  BY <1>2 DEF Init
<1>10. changes \in 0 .. MaxChanges /\ failures \in 0 .. MaxFailures
       /\ restarts \in 0 .. MaxRestarts
  BY ConstantsType DEF Init
<1>11. QED
  BY <1>3, <1>5, <1>6, <1>7, <1>8, <1>9, <1>10 DEF TypeOK

LEMMA NextTypeOK == TypeOK /\ [Next]_vars => TypeOK'
<1> SUFFICES ASSUME TypeOK, [Next]_vars PROVE TypeOK'
  OBVIOUS
<1>0. /\ SourceType /\ Latest \in Nat /\ Latest <= MaxRev /\ MaxRev \in Nat
      /\ 0 .. Latest \subseteq Revisions
      /\ tail \in Seq(Command) /\ Len(tail) \in Nat
      /\ \A n \in Nodes : stream[n] \in Stream
      /\ checkpoint.applied \in Revisions
  BY ConstantsType DEF TypeOK, SourceType, Latest, Revisions, Checkpoint
<1>1. ASSUME NEW k \in Keys, NEW alive \in BOOLEAN, SourceChanges(k, alive) PROVE TypeOK'
  <2>1. source' = Append(source, [key |-> k, alive |-> alive])
        /\ [key |-> k, alive |-> alive] \in Event /\ source \in Seq(Event)
    BY <1>1 DEF SourceChanges, Event, TypeOK
  <2>2. source' \in Seq(Event) /\ Len(source') = Latest + 1
    BY <2>1 DEF Latest
  <2>3. Latest + 1 <= MaxRev
    BY <1>0, <1>1 DEF SourceChanges
  <2>4. oldest' \in 1 .. Len(source') + 1
    <3> DEFINE S == {oldest, Latest + 2 - History}
    <3>1. oldest \in 1 .. Latest + 1 /\ oldest' = Max(S)
      BY <1>1 DEF SourceChanges, TypeOK, Latest
    <3>2. \E e \in S : \A s \in S : e >= s
      <4>1. oldest \in Int /\ Latest + 2 - History \in Int
        BY <1>0, <3>1, ConstantsType
      <4>2. QED
        BY <4>1
    <3>3. Max(S) \in S /\ \A s \in S : Max(S) >= s
      BY <3>2 DEF Max
    <3>4. Max(S) >= oldest
      BY <3>3
    <3>5. Max(S) <= Latest + 2 /\ Max(S) \in Int
      BY <1>0, <3>1, <3>3, ConstantsType
    <3> HIDE DEF S
    <3>6. QED
      BY <1>0, <2>2, <3>1, <3>4, <3>5
  <2>5. QED
    BY <1>1, <2>2, <2>3, <2>4 DEF SourceChanges, TypeOK, raftVars
<1>2. CASE SourceRestarts
  <2>1. stream' \in [Nodes -> Stream]
    BY <1>0, <1>2 DEF SourceRestarts, Stream
  <2>2. oldest' \in 1 .. Len(source) + 1 /\ restarts' \in 0 .. MaxRestarts
    BY <1>0, <1>2, ConstantsType DEF SourceRestarts, TypeOK, Latest
  <2>3. QED
    BY <1>2, <2>1, <2>2 DEF SourceRestarts, TypeOK, raftVars
<1>3. CASE Commit
  <2>1. /\ Head(tail) \in Command /\ Tail(tail) \in Seq(Command)
        /\ Len(Tail(tail)) <= MaxTail
    BY <1>0, <1>3, ConstantsType DEF Commit, TypeOK
  <2>2. replica' \in [Keys -> Revisions] /\ checkpoint' \in Checkpoint
    <3>1. \/ Head(tail).op = "clear"
          \/ /\ Head(tail).op = "put" /\ Head(tail).key \in Keys
             /\ Head(tail).value \in Revisions
          \/ Head(tail).op = "checkpoint" /\ Head(tail).value \in Checkpoint
      BY <2>1 DEF Command
    <3>2. 0 \in Revisions
      BY <1>0 DEF Revisions
    <3>3. CASE Head(tail).op = "clear"
      BY <1>3, <3>2, <3>3 DEF Commit, Apply, TypeOK
    <3>4. CASE Head(tail).op = "put" /\ Head(tail).key \in Keys /\ Head(tail).value \in Revisions
      BY <1>3, <3>4 DEF Commit, Apply, TypeOK
    <3>5. CASE Head(tail).op = "checkpoint" /\ Head(tail).value \in Checkpoint
      BY <1>3, <3>5 DEF Commit, Apply, TypeOK
    <3>6. QED
      BY <3>1, <3>3, <3>4, <3>5
  <2>3. QED
    BY <1>3, <2>1, <2>2 DEF Commit, TypeOK, sourceVars
<1>4. ASSUME NEW n \in Nodes, NEW kept \in 0 .. Len(tail), ChangeLeader(n, kept)
      PROVE  TypeOK'
  <2>1. SubSeq(tail, 1, kept) \in Seq(Command) /\ Len(SubSeq(tail, 1, kept)) = kept
    BY <1>0
  <2>2. kept <= MaxTail
    BY <1>0, ConstantsType DEF TypeOK
  <2>3. changes' \in 0 .. MaxChanges
    BY <1>4, ConstantsType DEF ChangeLeader, TypeOK
  <2>4. excused' \in BOOLEAN
    BY <1>4 DEF ChangeLeader
  <2>5. QED
    BY <1>4, <2>1, <2>2, <2>3, <2>4 DEF ChangeLeader, TypeOK, sourceVars
<1>5. ASSUME NEW n \in Nodes, StepDown(n) \/ Check(n) PROVE TypeOK'
  <2>1. CASE StepDown(n)
    BY <2>1 DEF StepDown, TypeOK, sourceVars
  <2>2. CASE Check(n)
    BY <1>0, <2>2 DEF Check, TypeOK, Stream, sourceVars, raftVars
  <2>3. QED
    BY <1>5, <2>1, <2>2
<1>6. ASSUME NEW n \in Nodes, OpenStream(n) PROVE TypeOK'
  <2>1. <<>> \in Seq(Command)
    OBVIOUS
  <2>2. stream' \in [Nodes -> Stream]
    BY <1>0, <1>6, <2>1 DEF OpenStream, TypeOK, Stream
  <2>3. QED
    BY <1>6, <2>2 DEF OpenStream, TypeOK, sourceVars, raftVars
<1>7. ASSUME NEW n \in Nodes, NEW r \in Revisions, ReceiveSnapshot(n, r) PROVE TypeOK'
  <2>1. Latest \in 0 .. Latest
    BY <1>0
  <2>2. SnapshotCommands(r, Latest) \in Seq(Command)
    BY <1>0, <2>1, SnapshotCommandsType
  <2>3. stream' \in [Nodes -> Stream]
    <3>1. [stream[n] EXCEPT !.phase = "events", !.since = r,
                            !.todo = SnapshotCommands(r, Latest)] \in Stream
      BY <1>0, <2>2 DEF Stream
    <3>2. stream \in [Nodes -> Stream]
      BY DEF TypeOK
    <3>3. QED
      BY <1>7, <3>1, <3>2 DEF ReceiveSnapshot
  <2>4. QED
    BY <1>7, <2>3 DEF ReceiveSnapshot, TypeOK, sourceVars, raftVars
<1>8. ASSUME NEW n \in Nodes, ReceiveEvent(n) PROVE TypeOK'
  <2> DEFINE r == stream[n].since + 1
  <2>1. r \in 1 .. Latest /\ r \in Revisions
    BY <1>0, <1>8 DEF ReceiveEvent, Stream, Revisions
  <2>2. EventCommands(r) \in Seq(Command)
    BY <1>0, <2>1, EventCommandsType
  <2>3. stream' \in [Nodes -> Stream]
    <3>1. [stream[n] EXCEPT !.since = r, !.todo = EventCommands(r)] \in Stream
      BY <1>0, <2>1, <2>2 DEF Stream
    <3>2. stream \in [Nodes -> Stream]
      BY DEF TypeOK
    <3>3. QED
      BY <1>8, <3>1, <3>2 DEF ReceiveEvent
  <2>4. QED
    BY <1>8, <2>3 DEF ReceiveEvent, TypeOK, sourceVars, raftVars
<1>9. ASSUME NEW n \in Nodes, Send(n) PROVE TypeOK'
  <2>1. /\ stream[n].todo \in Seq(Command) /\ stream[n].todo # <<>>
    BY <1>0, <1>9 DEF Send, Stream
  <2>2. Head(stream[n].todo) \in Command /\ Tail(stream[n].todo) \in Seq(Command)
    BY <2>1
  <2>3. tail' \in Seq(Command) /\ Len(tail') <= MaxTail
    <3>1. /\ Append(tail, Head(stream[n].todo)) \in Seq(Command)
          /\ Len(Append(tail, Head(stream[n].todo))) = Len(tail) + 1
      BY <1>0, <2>2
    <3>2. Len(tail) < MaxTail
      BY <1>9 DEF Send
    <3>3. Len(tail) + 1 <= MaxTail
      BY <1>0, <3>2, ConstantsType
    <3>4. QED
      BY <1>9, <3>1, <3>3 DEF Send, TypeOK
  <2>4. stream' \in [Nodes -> Stream]
    BY <1>0, <1>9, <2>2 DEF Send, TypeOK, Stream
  <2>5. connected' \subseteq Nodes /\ excused' \in BOOLEAN
    BY <1>9 DEF Send, TypeOK
  <2>6. QED
    BY <1>9, <2>3, <2>4, <2>5 DEF Send, TypeOK, sourceVars
<1>10. ASSUME NEW n \in Nodes, Restart(n) \/ StreamFails(n) PROVE TypeOK'
  <2>1. Idle \in Stream
    <3>1. 0 \in Revisions /\ <<>> \in Seq(Command)
      BY <1>0 DEF Revisions
    <3>2. QED
      BY <3>1, ConstantsType DEF Idle, Stream
  <2>2. stream' \in [Nodes -> Stream] /\ failures' \in 0 .. MaxFailures
    BY <1>10, <2>1, ConstantsType DEF Restart, StreamFails, TypeOK
  <2>3. QED
    BY <1>10, <2>2 DEF Restart, StreamFails, TypeOK, sourceVars, raftVars
<1>11. ASSUME NEW n \in Nodes, StreamEnds(n) PROVE TypeOK'
  <2>1. Idle \in Stream
    <3>1. 0 \in Revisions /\ <<>> \in Seq(Command)
      BY <1>0 DEF Revisions
    <3>2. QED
      BY <3>1, ConstantsType DEF Idle, Stream
  <2>2. QED
    BY <1>11, <2>1 DEF StreamEnds, TypeOK, sourceVars, raftVars
<1>12. CASE UNCHANGED vars
  BY <1>12 DEF vars, TypeOK, sourceVars, raftVars
<1>13. QED
  BY <1>1, <1>2, <1>3, <1>4, <1>5, <1>6, <1>7, <1>8, <1>9, <1>10, <1>11, <1>12 DEF Next

\* Every reachable state of the replication has its variables in their types; in
\* particular no more commands wait to be committed than the bound allows, and the
\* source's oldest event is at most one ahead of its last.
THEOREM TypeCorrect == Spec => []TypeOK
<1>1. Init /\ [][Next]_vars => []TypeOK
  BY InitTypeOK, NextTypeOK, PTL
<1>2. QED
  BY <1>1, PTL DEF Spec

-----------------------------------------------------------------------------
\* What becomes of the pending commands.

LEMMA CommandCases ==
  ASSUME NEW c \in Command
  PROVE  \/ /\ c.op = "clear" /\ ~IsMark(c) /\ \A k : Writes(c, k)
         \/ /\ c.op = "put" /\ ~IsMark(c) /\ c.key \in Keys /\ c.value \in Revisions
            /\ \A k : Writes(c, k) <=> c.key = k
         \/ /\ c.op = "checkpoint" /\ IsMark(c) /\ c.value \in Checkpoint
            /\ \A k : ~Writes(c, k)
BY DEF Command, IsMark, Writes

LEMMA QueueFacts ==
  ASSUME NEW q \in Seq(Command), q # <<>>
  PROVE  /\ Len(q) \in Nat /\ Len(q) >= 1 /\ q[1] \in Command /\ Head(q) = q[1]
         /\ Tail(q) \in Seq(Command) /\ Len(Tail(q)) = Len(q) - 1
         /\ \A p \in 1 .. Len(q) - 1 : Tail(q)[p] = q[p + 1]
OBVIOUS

LEMMA ShowsPrefix ==
  ASSUME NEW image, NEW q, NEW q2, NEW k, NEW j \in Nat, NEW v,
         \A p \in 1 .. j : q2[p] = q[p]
  PROVE  Shows(image, q2, k, j, v) <=> Shows(image, q, k, j, v)
<1>1. ASSUME NEW p \in 1 .. j, NEW l \in p + 1 .. j PROVE l \in 1 .. j
  OBVIOUS
<1>2. QED
  BY <1>1 DEF Shows

\* A suffix is lost, without the end of a snapshot whose beginning is not lost.
LEMMA DataPrefix ==
  ASSUME NEW image, NEW c, NEW q \in Seq(Command), NEW q2 \in Seq(Command),
         Len(q2) <= Len(q), \A p \in 1 .. Len(q2) : q2[p] = q[p],
         DataInv(image, q, c), ~Ends(q, Len(q2))
  PROVE  DataInv(image, q2, c)
<1>1. Len(q) \in Nat /\ Len(q2) \in Nat
  OBVIOUS
<1>2. MarksInv(image, q2)
  <2>1. SUFFICES ASSUME NEW j \in 1 .. Len(q2), IsMark(q2[j]), NEW k \in Keys
                 PROVE  Holds(image, q2, k, j, q2[j].value.applied)
    BY DEF MarksInv
  <2>2. j \in 1 .. Len(q) /\ q2[j] = q[j] /\ j \in Nat
    BY <1>1
  <2>3. Holds(image, q, k, j, q[j].value.applied)
    BY <2>1, <2>2 DEF DataInv, MarksInv
  <2>4. \A v : Shows(image, q2, k, j, v) <=> Shows(image, q, k, j, v)
    <3>1. \A p \in 1 .. j : q2[p] = q[p]
      BY <1>1
    <3>2. QED
      BY <2>2, <3>1, ShowsPrefix
  <2>5. QED
    BY <2>2, <2>3, <2>4 DEF Holds
<1>3. PutsInv(q2, c)
  <2>1. \A p \in 1 .. Len(q2) : /\ p \in 1 .. Len(q) /\ q2[p] = q[p]
                                /\ \A l \in 1 .. p : q2[l] = q[l]
    BY <1>1
  <2>2. QED
    BY <2>1 DEF DataInv, PutsInv
<1>4. ASSUME NEW p \in 0 .. Len(q2), Ends(q, p) PROVE Ends(q2, p)
  <2>1. PICK e \in p + 1 .. Len(q) : /\ IsMark(q[e]) /\ q[e].value.snapshot > 0
                                     /\ \A l \in p + 1 .. e : q[l].op # "clear"
    BY <1>4 DEF Ends
  <2>2. e \in p + 1 .. Len(q2)
    <3>1. SUFFICES ASSUME e \in Len(q2) + 1 .. Len(q) PROVE FALSE
      BY <1>1
    <3>2. \A l \in Len(q2) + 1 .. e : l \in p + 1 .. e
      BY <1>1
    <3>3. QED
      BY <2>1, <3>1, <3>2 DEF Ends
  <2>3. \A l \in p + 1 .. e : l \in 1 .. Len(q2)
    BY <1>1, <2>2
  <2>4. q2[e] = q[e] /\ \A l \in p + 1 .. e : q2[l] = q[l]
    BY <1>1, <2>2, <2>3
  <2>5. QED
    BY <2>1, <2>2, <2>4 DEF Ends
<1>5. ClearsInv(image, q2, c)
  <2>1. \A p \in 1 .. Len(q2) : p \in 1 .. Len(q) /\ p \in 0 .. Len(q2) /\ q2[p] = q[p]
    BY <1>1
  <2>2. 0 \in 0 .. Len(q2)
    BY <1>1
  <2>3. QED
    BY <1>4, <2>1, <2>2 DEF DataInv, ClearsInv
<1>6. QED
  BY <1>2, <1>3, <1>5 DEF DataInv

\* The first of the commands is committed.
Committed(h, image, c, image2, c2) ==
  \/ h.op = "clear" /\ image2 = [k \in Keys |-> 0] /\ c2 = c
  \/ h.op = "put" /\ image2 = [image EXCEPT ![h.key] = h.value] /\ c2 = c
  \/ h.op = "checkpoint" /\ image2 = image /\ c2 = h.value.applied

LEMMA ShowsPopped ==
  ASSUME NEW q \in Seq(Command), q # <<>>, NEW c, NEW c2,
         NEW image \in [Keys -> Revisions], NEW image2,
         Committed(q[1], image, c, image2, c2),
         NEW k \in Keys, NEW j \in 0 .. Len(q) - 1, NEW v, Shows(image, q, k, j + 1, v)
  PROVE  Shows(image2, Tail(q), k, j, v)
<1>1. /\ Len(q) \in Nat /\ Len(q) >= 1 /\ Len(Tail(q)) = Len(q) - 1
      /\ \A p \in 1 .. Len(q) - 1 : Tail(q)[p] = q[p + 1]
      /\ q[1] \in Command
  BY QueueFacts
<1>2. \A p \in 1 .. j : p + 1 \in 1 .. j + 1 /\ Tail(q)[p] = q[p + 1]
  BY <1>1
<1>3. ~Writes(q[1], k) => image2[k] = image[k]
  BY <1>1, CommandCases DEF Committed
<1>4. Writes(q[1], k) => image2[k] = Written(q[1])
  BY <1>1, CommandCases DEF Committed, Written
<1>5. CASE (\A p \in 1 .. j + 1 : ~Writes(q[p], k)) /\ v = image[k]
  <2>1. 1 \in 1 .. j + 1
    OBVIOUS
  <2>2. QED
    BY <1>2, <1>3, <1>5, <2>1 DEF Shows
<1>6. ASSUME NEW p \in 1 .. j + 1, Writes(q[p], k), v = Written(q[p]),
             \A l \in p + 1 .. j + 1 : ~Writes(q[l], k)
      PROVE  Shows(image2, Tail(q), k, j, v)
  <2>1. CASE p = 1
    <3>1. \A l \in 1 .. j : l + 1 \in p + 1 .. j + 1
      BY <2>1
    <3>2. QED
      BY <1>2, <1>4, <1>6, <2>1, <3>1 DEF Shows
  <2>2. CASE p # 1
    <3>1. p - 1 \in 1 .. j /\ (p - 1) + 1 = p
      BY <2>2
    <3>2. \A l \in (p - 1) + 1 .. j : l \in 1 .. j /\ l + 1 \in p + 1 .. j + 1
      BY <3>1
    <3>3. Tail(q)[p - 1] = q[p] /\ \A l \in (p - 1) + 1 .. j : ~Writes(Tail(q)[l], k)
      BY <1>2, <1>6, <3>1, <3>2
    <3>4. QED
      BY <1>6, <3>1, <3>3 DEF Shows
  <2>3. QED
    BY <2>1, <2>2
<1>7. QED
  BY <1>5, <1>6 DEF Shows

LEMMA DataPopped ==
  ASSUME NEW q \in Seq(Command), q # <<>>, NEW c, NEW c2, Latest \in Nat,
         NEW image \in [Keys -> Revisions], NEW image2,
         Committed(q[1], image, c, image2, c2), DataInv(image, q, c)
  PROVE  /\ DataInv(image2, Tail(q), c2)
         /\ \A r : UpTo(image, q, c, r) => UpTo(image2, Tail(q), c2, r)
         /\ IsMark(q[1]) =>
              \A k \in Keys : \E i \in q[1].value.applied .. Latest : image[k] = At(k, i)
<1> DEFINE q2 == Tail(q)
<1>1. /\ Len(q) \in Nat /\ Len(q) >= 1 /\ Len(q2) = Len(q) - 1
      /\ \A p \in 1 .. Len(q2) : q2[p] = q[p + 1]
      /\ q[1] \in Command
  BY QueueFacts
<1>2. \A k \in Keys, j \in 0 .. Len(q2) : \A r :
        Holds(image, q, k, j + 1, r) => Holds(image2, q2, k, j, r)
  BY <1>1, ShowsPopped DEF Holds
<1> HIDE DEF q2
<1>3. \A p \in 1 .. Len(q2) : p + 1 \in 1 .. Len(q) /\ p \in 0 .. Len(q2)
  BY <1>1
<1>4. MarksInv(image2, q2)
  BY <1>1, <1>2, <1>3 DEF DataInv, MarksInv
<1>5. IsMark(q[1]) =>
        \A k \in Keys : \E i \in q[1].value.applied .. Latest : image[k] = At(k, i)
  <2>1. SUFFICES ASSUME IsMark(q[1]), NEW k \in Keys
                 PROVE  \E i \in q[1].value.applied .. Latest : image[k] = At(k, i)
    OBVIOUS
  <2>2. 1 \in 1 .. Len(q) /\ ~Writes(q[1], k)
    BY <1>1, <2>1, CommandCases
  <2>3. Holds(image, q, k, 1, q[1].value.applied)
    BY <2>1, <2>2 DEF DataInv, MarksInv
  <2>4. \A v : Shows(image, q, k, 1, v) => v = image[k]
    <3>1. \A p \in 1 .. 1 : p = 1
      OBVIOUS
    <3>2. QED
      BY <2>2, <3>1 DEF Shows
  <2>5. QED
    BY <2>3, <2>4 DEF Holds
<1>6. PutsInv(q2, c2)
  <2>1. c2 <= Latest
    BY <1>1 DEF Committed, DataInv, PutsInv, IsMark
  <2>2. ASSUME NEW p \in 1 .. Len(q2), q2[p].op = "put"
        PROVE  \E i \in c2 .. Latest :
                 /\ q2[p].value = At(q2[p].key, i)
                 /\ \A l \in 1 .. p : IsMark(q2[l]) => q2[l].value.applied <= i
    <3>1. p + 1 \in 1 .. Len(q) /\ q2[p] = q[p + 1]
      BY <1>1, <1>3
    <3>2. PICK i \in c .. Latest :
            /\ q[p + 1].value = At(q[p + 1].key, i)
            /\ \A l \in 1 .. p + 1 : IsMark(q[l]) => q[l].value.applied <= i
      BY <2>2, <3>1 DEF DataInv, PutsInv
    <3>3. \A l \in 1 .. p : l + 1 \in 1 .. p + 1 /\ q2[l] = q[l + 1]
      BY <1>1
    <3>4. i \in c2 .. Latest
      <4>1. CASE c2 = c
        BY <4>1
      <4>2. CASE q[1].op = "checkpoint" /\ c2 = q[1].value.applied
        <5>1. IsMark(q[1]) /\ 1 \in 1 .. p + 1
          BY <4>2 DEF IsMark
        <5>2. c2 <= i
          BY <3>2, <4>2, <5>1
        <5>3. c2 \in Nat
          <6>1. c2 \in Revisions
            BY <1>1, <4>2, CommandCases DEF Checkpoint
          <6>2. QED
            BY <6>1, ConstantsType DEF Revisions
        <5>4. QED
          BY <5>2, <5>3
      <4>3. QED
        BY <4>1, <4>2 DEF Committed
    <3>5. QED
      BY <3>1, <3>2, <3>3, <3>4
  <2>3. \A p \in 1 .. Len(q2) : IsMark(q2[p]) => q2[p].value.applied <= Latest
    BY <1>1, <1>3 DEF DataInv, PutsInv
  <2>4. QED
    BY <2>1, <2>2, <2>3 DEF PutsInv
<1>7. ASSUME NEW p \in 0 .. Len(q2), Ends(q, p + 1) PROVE Ends(q2, p)
  <2>1. PICK e \in (p + 1) + 1 .. Len(q) :
          /\ IsMark(q[e]) /\ q[e].value.snapshot > 0
          /\ \A l \in (p + 1) + 1 .. e : q[l].op # "clear"
    BY <1>7 DEF Ends
  <2>2. e - 1 \in p + 1 .. Len(q2) /\ e - 1 \in 1 .. Len(q2) /\ (e - 1) + 1 = e
    BY <1>1
  <2>3. \A l \in p + 1 .. e - 1 : l \in 1 .. Len(q2) /\ l + 1 \in (p + 1) + 1 .. e
    BY <1>1, <2>2
  <2>4. q2[e - 1] = q[e] /\ \A l \in p + 1 .. e - 1 : q2[l].op # "clear"
    BY <1>1, <2>1, <2>2, <2>3
  <2>5. QED
    BY <2>1, <2>2, <2>4 DEF Ends
<1>8. ClearsInv(image2, q2, c2)
  <2>1. \A p \in 1 .. Len(q2) : q2[p].op = "clear" => Ends(q2, p)
    BY <1>1, <1>3, <1>7 DEF DataInv, ClearsInv
  <2>2. CASE IsMark(q[1])
    BY <1>5, <2>1, <2>2 DEF Committed, ClearsInv, IsMark
  <2>3. CASE q[1].op = "clear"
    <3>1. Ends(q, 0 + 1) /\ 0 \in 0 .. Len(q2) /\ 1 \in 1 .. Len(q)
      BY <1>1, <2>3 DEF DataInv, ClearsInv
    <3>2. QED
      BY <1>7, <2>1, <3>1 DEF ClearsInv
  <2>4. CASE q[1].op = "put" /\ ~IsMark(q[1]) /\ c2 = c
    <3>1. 1 \in 1 .. Len(q) /\ 0 \in 0 .. Len(q2)
      BY <1>1
    <3>2. CASE Ends(q, 0)
      <4>1. PICK e \in 0 + 1 .. Len(q) : /\ IsMark(q[e]) /\ q[e].value.snapshot > 0
                                         /\ \A l \in 0 + 1 .. e : q[l].op # "clear"
        BY <3>2 DEF Ends
      <4>2. e \in (0 + 1) + 1 .. Len(q) /\ \A l \in (0 + 1) + 1 .. e : l \in 0 + 1 .. e
        <5>1. e # 1
          BY <2>4, <4>1
        <5>2. QED
          BY <1>1, <5>1
      <4>3. Ends(q, 0 + 1)
        BY <4>1, <4>2 DEF Ends
      <4>4. QED
        BY <1>7, <2>1, <3>1, <4>3 DEF ClearsInv
    <3>3. CASE \A k \in Keys : \E i \in c .. Latest : image[k] = At(k, i)
      <4>1. PICK i \in c .. Latest : q[1].value = At(q[1].key, i)
        BY <2>4, <3>1 DEF DataInv, PutsInv
      <4>2. image2 = [image EXCEPT ![q[1].key] = q[1].value]
        BY <2>4 DEF Committed
      <4>3. \A k \in Keys : image2[k] = IF k = q[1].key THEN q[1].value ELSE image[k]
        BY <4>2
      <4>4. \A k \in Keys : \E l \in c .. Latest : image2[k] = At(k, l)
        BY <3>3, <4>1, <4>3
      <4>5. QED
        BY <2>1, <2>4, <4>4 DEF ClearsInv
    <3>4. QED
      BY <3>2, <3>3 DEF DataInv, ClearsInv
  <2>5. QED
    BY <1>1, <2>2, <2>3, <2>4, CommandCases DEF Committed
<1>9. ASSUME NEW r, UpTo(image, q, c, r) PROVE UpTo(image2, q2, c2, r)
  <2>1. \A k \in Keys : Holds(image2, q2, k, Len(q2), r)
    <3>1. Len(q2) \in 0 .. Len(q2) /\ Len(q2) + 1 = Len(q)
      BY <1>1
    <3>2. QED
      BY <1>2, <1>9, <3>1 DEF UpTo
  <2>2. c2 <= r + 1
    <3>1. 1 \in 1 .. Len(q)
      BY <1>1
    <3>2. QED
      BY <1>9, <3>1 DEF UpTo, Committed, IsMark
  <2>3. \A p \in 1 .. Len(q2) : IsMark(q2[p]) => q2[p].value.applied <= r + 1
    BY <1>1, <1>3, <1>9 DEF UpTo
  <2>4. QED
    BY <1>9, <2>1, <2>2, <2>3 DEF UpTo
<1>10. QED
  BY <1>4, <1>5, <1>6, <1>8, <1>9 DEF DataInv, q2

\* More commands come behind.
LEMMA Concatenated ==
  ASSUME NEW q \in Seq(Command), NEW more \in Seq(Command)
  PROVE  /\ Len(q) \in Nat /\ Len(more) \in Nat
         /\ q \o more \in Seq(Command) /\ Len(q \o more) = Len(q) + Len(more)
         /\ \A p \in 1 .. Len(q) : (q \o more)[p] = q[p]
         /\ \A p \in 1 .. Len(more) : (q \o more)[Len(q) + p] = more[p]
<1>1. Len(q) \in Nat /\ Len(more) \in Nat
  OBVIOUS
<1>2. /\ q \o more \in Seq(Command) /\ Len(q \o more) = Len(q) + Len(more)
      /\ \A p \in 1 .. Len(q) + Len(more) :
           (q \o more)[p] = IF p <= Len(q) THEN q[p] ELSE more[p - Len(q)]
  BY ConcatProperties
<1>3. \A p \in 1 .. Len(q) : (q \o more)[p] = q[p]
  BY <1>1, <1>2
<1>4. \A p \in 1 .. Len(more) : (q \o more)[Len(q) + p] = more[p]
  <2>1. TAKE p \in 1 .. Len(more)
  <2>2. /\ Len(q) + p \in 1 .. Len(q) + Len(more) /\ ~(Len(q) + p <= Len(q))
        /\ (Len(q) + p) - Len(q) = p
    BY <1>1
  <2>3. QED
    BY <1>2, <2>2
<1>5. QED
  BY <1>1, <1>2, <1>3, <1>4

\* What was pending keeps its place.
LEMMA PendingStays ==
  ASSUME NEW image, NEW c, NEW q \in Seq(Command), NEW q2 \in Seq(Command),
         Len(q) <= Len(q2), \A p \in 1 .. Len(q) : q2[p] = q[p]
  PROVE  /\ \A k \in Keys, j \in 0 .. Len(q) : \A r :
              Holds(image, q2, k, j, r) <=> Holds(image, q, k, j, r)
         /\ \A p \in 0 .. Len(q) : Ends(q, p) => Ends(q2, p)
<1>1. Len(q) \in Nat /\ Len(q2) \in Nat
  OBVIOUS
<1>2. ASSUME NEW k \in Keys, NEW j \in 0 .. Len(q), NEW v
      PROVE  Shows(image, q2, k, j, v) <=> Shows(image, q, k, j, v)
  <2>1. j \in Nat /\ \A p \in 1 .. j : q2[p] = q[p]
    BY <1>1
  <2>2. QED
    BY <2>1, ShowsPrefix
<1>3. ASSUME NEW p \in 0 .. Len(q), Ends(q, p) PROVE Ends(q2, p)
  <2>1. PICK e \in p + 1 .. Len(q) : /\ IsMark(q[e]) /\ q[e].value.snapshot > 0
                                     /\ \A l \in p + 1 .. e : q[l].op # "clear"
    BY <1>3 DEF Ends
  <2>2. e \in p + 1 .. Len(q2) /\ q2[e] = q[e] /\ \A l \in p + 1 .. e : q2[l] = q[l]
    BY <1>1
  <2>3. QED
    BY <2>1, <2>2 DEF Ends
<1>4. QED
  BY <1>2, <1>3 DEF Holds

\* An event comes: an instance's new value, and a checkpoint at its revision.
LEMMA DataEvent ==
  ASSUME SourceType, NEW image, NEW c \in Nat, NEW q \in Seq(Command), NEW r \in Nat,
         r + 1 <= Latest, DataInv(image, q, c), UpTo(image, q, c, r)
  PROVE  /\ DataInv(image, q \o EventCommands(r + 1), c)
         /\ UpTo(image, q \o EventCommands(r + 1), c, r + 1)
<1> DEFINE n == Len(q)
           q2 == q \o EventCommands(r + 1)
           key == source[r + 1].key
<1>1. Latest \in Nat /\ r + 1 \in 1 .. Latest /\ (r + 1) - 1 = r
  BY DEF SourceType, Latest
<1>2. /\ EventCommands(r + 1) \in Seq(Command) /\ Len(EventCommands(r + 1)) = 2
      /\ key \in Keys
      /\ EventCommands(r + 1)[1] = Put(key, At(key, r + 1))
      /\ EventCommands(r + 1)[2] = Mark(r + 1, 0)
  BY <1>1, EventCommandsType
<1>3. /\ n \in Nat /\ q2 \in Seq(Command) /\ Len(q2) = n + 2
      /\ \A p \in 1 .. n : q2[p] = q[p]
      /\ q2[n + 1] = Put(key, At(key, r + 1)) /\ q2[n + 2] = Mark(r + 1, 0)
  <2> DEFINE more == EventCommands(r + 1)
  <2>1. 1 \in 1 .. 2 /\ 2 \in 1 .. 2
    OBVIOUS
  <2>2. more \in Seq(Command) /\ Len(more) = 2
    BY <1>2
  <2>3. /\ n \in Nat /\ q \o more \in Seq(Command) /\ Len(q \o more) = n + 2
        /\ \A p \in 1 .. n : (q \o more)[p] = q[p]
        /\ \A p \in 1 .. 2 : (q \o more)[n + p] = more[p]
    <3> HIDE DEF more
    <3>1. QED
      BY <2>2, Concatenated
  <2>4. (q \o more)[n + 1] = more[1] /\ (q \o more)[n + 2] = more[2]
    BY <2>1, <2>3
  <2>5. QED
    BY <1>2, <2>3, <2>4
<1> HIDE DEF q2, key, n
<1>4. /\ \A p \in 1 .. n + 2 : p \in 1 .. n \/ p = n + 1 \/ p = n + 2
      /\ n + 1 \in 1 .. n + 2 /\ n + 2 \in 1 .. n + 2
      /\ \A p \in 1 .. n : p \in 0 .. n
      /\ 0 \in 0 .. n /\ n \in 0 .. n
  BY <1>3
<1>5. /\ ~IsMark(q2[n + 1]) /\ q2[n + 1].op = "put" /\ q2[n + 1].key = key
      /\ q2[n + 1].value = At(key, r + 1)
      /\ Written(q2[n + 1]) = At(key, r + 1)
      /\ \A k : Writes(q2[n + 1], k) <=> k = key
      /\ IsMark(q2[n + 2]) /\ q2[n + 2].value.applied = r + 1 /\ q2[n + 2].op = "checkpoint"
      /\ \A k : ~Writes(q2[n + 2], k)
  <2>1. /\ ~IsMark(q2[n + 1]) /\ q2[n + 1].op = "put" /\ q2[n + 1].key = key
        /\ q2[n + 1].value = At(key, r + 1)
    BY <1>3 DEF Put, IsMark
  <2>2. /\ IsMark(q2[n + 2]) /\ q2[n + 2].value.applied = r + 1
        /\ q2[n + 2].op = "checkpoint"
    BY <1>3 DEF Mark, IsMark
  <2>3. QED
    BY <2>1, <2>2 DEF Writes, Written
<1>6. /\ \A k \in Keys, j \in 0 .. n : \A s :
           Holds(image, q2, k, j, s) <=> Holds(image, q, k, j, s)
      /\ \A p \in 0 .. n : Ends(q, p) => Ends(q2, p)
  <2>1. Len(q) <= Len(q2)
    BY <1>3 DEF n
  <2>2. QED
    BY <1>3, <2>1, PendingStays DEF n
<1>7. ASSUME NEW k \in Keys PROVE Holds(image, q2, k, n + 2, r + 1)
  <2>1. CASE k = key
    <3>1. \A l \in (n + 1) + 1 .. n + 2 : l = n + 2
      BY <1>3
    <3>2. Shows(image, q2, k, n + 2, At(k, r + 1))
      BY <1>4, <1>5, <2>1, <3>1 DEF Shows
    <3>3. r + 1 \in r + 1 .. Latest
      BY <1>1
    <3>4. QED
      BY <3>2, <3>3 DEF Holds
  <2>2. CASE k # key
    <3>1. Holds(image, q2, k, n, r)
      BY <1>4, <1>6 DEF UpTo, n
    <3>2. PICK i \in r .. Latest : Shows(image, q2, k, n, At(k, i))
      BY <3>1 DEF Holds
    <3>3. ~Writes(q2[n + 1], k) /\ ~Writes(q2[n + 2], k)
      BY <1>5, <2>2
    <3>4. Shows(image, q2, k, n + 2, At(k, i))
      <4>1. CASE (\A p \in 1 .. n : ~Writes(q2[p], k)) /\ At(k, i) = image[k]
        BY <1>4, <3>3, <4>1 DEF Shows
      <4>2. ASSUME NEW p \in 1 .. n, Writes(q2[p], k), At(k, i) = Written(q2[p]),
                   \A l \in p + 1 .. n : ~Writes(q2[l], k)
            PROVE  Shows(image, q2, k, n + 2, At(k, i))
        <5>1. \A l \in p + 1 .. n + 2 : l \in p + 1 .. n \/ l = n + 1 \/ l = n + 2
          BY <1>3
        <5>2. p \in 1 .. n + 2
          BY <1>3
        <5>3. QED
          BY <3>3, <4>2, <5>1, <5>2 DEF Shows
      <4>3. QED
        BY <3>2, <4>1, <4>2 DEF Shows
    <3>5. CASE i = r
      <4>1. At(k, r + 1) = At(k, r)
        BY <1>1, <2>2, ValueStays DEF key
      <4>2. r + 1 \in r + 1 .. Latest
        BY <1>1
      <4>3. QED
        BY <3>4, <3>5, <4>1, <4>2 DEF Holds
    <3>6. CASE i # r
      <4>1. i \in r + 1 .. Latest
        BY <1>1, <3>6
      <4>2. QED
        BY <3>4, <4>1 DEF Holds
    <3>7. QED
      BY <3>5, <3>6
  <2>3. QED
    BY <2>1, <2>2
<1>8. MarksInv(image, q2)
  <2>1. SUFFICES ASSUME NEW j \in 1 .. n + 2, IsMark(q2[j]), NEW k \in Keys
                 PROVE  Holds(image, q2, k, j, q2[j].value.applied)
    BY <1>3 DEF MarksInv
  <2>2. CASE j \in 1 .. n
    BY <1>3, <1>4, <1>6, <2>1, <2>2 DEF DataInv, MarksInv, n
  <2>3. CASE j = n + 2
    BY <1>5, <1>7, <2>3
  <2>4. QED
    BY <1>4, <1>5, <2>1, <2>2, <2>3
<1>9. \A p \in 1 .. n : IsMark(q2[p]) => q2[p].value.applied <= r + 1
  BY <1>3 DEF UpTo, n
<1>10. PutsInv(q2, c)
  <2>1. ASSUME NEW p \in 1 .. n + 2
        PROVE  /\ IsMark(q2[p]) => q2[p].value.applied <= Latest
               /\ q2[p].op = "put" => \E i \in c .. Latest :
                    /\ q2[p].value = At(q2[p].key, i)
                    /\ \A l \in 1 .. p : IsMark(q2[l]) => q2[l].value.applied <= i
    <3>1. CASE p \in 1 .. n
      <4>1. \A l \in 1 .. p : q2[l] = q[l]
        BY <1>3, <3>1
      <4>2. QED
        BY <1>3, <3>1, <4>1 DEF DataInv, PutsInv, n
    <3>2. CASE p = n + 1
      <4>1. r + 1 \in c .. Latest
        BY <1>1 DEF UpTo
      <4>2. \A l \in 1 .. p : l \in 1 .. n \/ l = n + 1
        BY <1>3, <3>2
      <4>3. QED
        BY <1>5, <1>9, <3>2, <4>1, <4>2
    <3>3. CASE p = n + 2
      BY <1>5, <3>3
    <3>4. QED
      BY <1>4, <3>1, <3>2, <3>3
  <2>2. QED
    BY <1>3, <2>1 DEF DataInv, PutsInv
<1>11. ClearsInv(image, q2, c)
  <2>1. ASSUME NEW p \in 1 .. n + 2, q2[p].op = "clear" PROVE Ends(q2, p)
    <3>1. p \in 1 .. n /\ q[p].op = "clear"
      BY <1>3, <1>4, <1>5, <2>1
    <3>2. QED
      BY <1>4, <1>6, <3>1 DEF DataInv, ClearsInv, n
  <2>2. QED
    BY <1>3, <1>4, <1>6, <2>1 DEF DataInv, ClearsInv
<1>12. UpTo(image, q2, c, r + 1)
  <2>1. \A p \in 1 .. n + 2 : IsMark(q2[p]) => q2[p].value.applied <= (r + 1) + 1
    <3>1. ASSUME NEW p \in 1 .. n, IsMark(q2[p]) PROVE q2[p].value.applied <= (r + 1) + 1
      <4>1. q2[p] \in Command
        BY <1>3, <1>4
      <4>2. q2[p].value.applied \in Nat
        BY <3>1, <4>1, CommandCases, ConstantsType DEF Checkpoint, Revisions
      <4>3. QED
        BY <1>9, <3>1, <4>2
    <3>2. QED
      BY <1>4, <1>5, <3>1
  <2>2. c <= (r + 1) + 1
    BY DEF UpTo
  <2>3. QED
    BY <1>3, <1>7, <2>1, <2>2 DEF UpTo
<1>13. QED
  BY <1>8, <1>10, <1>11, <1>12 DEF DataInv, q2

\* A snapshot comes: whatever was pending, the service is cleared and brought up to it.
LEMMA DataSnapshot ==
  ASSUME SourceType, NEW image, NEW c \in Nat, NEW q \in Seq(Command),
         NEW r \in Revisions, r \in {Latest, Latest - 1}, r > 0, DataInv(image, q, c)
  PROVE  /\ DataInv(image, q \o SnapshotCommands(r, Latest), c)
         /\ UpTo(image, q \o SnapshotCommands(r, Latest), c, r)
<1> DEFINE n == Len(q)
           new == SnapshotCommands(r, Latest)
           q2 == q \o new
           m == Len(new)
<1>1. Latest \in Nat /\ r \in Nat /\ r <= Latest /\ Latest <= r + 1 /\ Latest \in 0 .. Latest
  BY DEF SourceType, Latest
<1>2. /\ new \in Seq(Command) /\ m >= 2
      /\ new[1] = [op |-> "clear"] /\ new[m] = Mark(r, r)
      /\ \A p \in 2 .. m - 1 : \E k \in Keys :
           new[p] = Put(k, At(k, Latest)) /\ At(k, Latest) \in Revisions /\ At(k, Latest) # 0
      /\ \A p, l \in 2 .. m - 1 : new[p].key = new[l].key => p = l
      /\ \A k \in Keys : At(k, Latest) # 0 =>
           \E p \in 2 .. m - 1 : new[p] = Put(k, At(k, Latest))
  BY <1>1, SnapshotCommandsType
<1> HIDE DEF new, m
<1>3. /\ n \in Nat /\ m \in Nat /\ q2 \in Seq(Command) /\ Len(q2) = n + m
      /\ \A p \in 1 .. n : q2[p] = q[p]
      /\ \A p \in 1 .. m : q2[n + p] = new[p]
  BY <1>2, Concatenated DEF m
<1> HIDE DEF q2, n
<1>4. ASSUME NEW p \in 1 .. n + m
      PROVE  p \in 1 .. n \/ p = n + 1 \/ p \in n + 2 .. n + m - 1 \/ p = n + m
  BY <1>2, <1>3
<1>5. /\ q2[n + 1].op = "clear" /\ ~IsMark(q2[n + 1]) /\ Written(q2[n + 1]) = 0
      /\ \A k : Writes(q2[n + 1], k)
      /\ IsMark(q2[n + m]) /\ q2[n + m].value.applied = r /\ q2[n + m].value.snapshot = r
      /\ q2[n + m].op # "clear" /\ q2[n + m].op # "put" /\ \A k : ~Writes(q2[n + m], k)
  <2>1. q2[n + 1] = new[1] /\ q2[n + m] = new[m]
    BY <1>2, <1>3
  <2>2. q2[n + 1].op = "clear" /\ ~IsMark(q2[n + 1])
    BY <1>2, <2>1 DEF IsMark
  <2>3. /\ IsMark(q2[n + m]) /\ q2[n + m].value.applied = r /\ q2[n + m].value.snapshot = r
        /\ q2[n + m].op = "checkpoint"
    BY <1>2, <2>1 DEF IsMark, Mark
  <2>4. QED
    BY <2>2, <2>3 DEF Writes, Written
<1>6. ASSUME NEW p \in n + 2 .. n + m - 1
      PROVE  /\ q2[p].op = "put" /\ ~IsMark(q2[p]) /\ q2[p].key \in Keys
             /\ q2[p].value = At(q2[p].key, Latest) /\ At(q2[p].key, Latest) # 0
             /\ Written(q2[p]) = q2[p].value /\ \A k : Writes(q2[p], k) <=> k = q2[p].key
  <2>1. p - n \in 2 .. m - 1 /\ n + (p - n) = p /\ p - n \in 1 .. m
    BY <1>3
  <2>2. q2[p] = new[p - n]
    BY <1>3, <2>1
  <2>3. PICK k \in Keys : q2[p] = Put(k, At(k, Latest)) /\ At(k, Latest) # 0
    BY <1>2, <2>1, <2>2
  <2>4. /\ q2[p].op = "put" /\ ~IsMark(q2[p]) /\ q2[p].key = k
        /\ q2[p].value = At(k, Latest)
    BY <2>3 DEF Put, IsMark
  <2>5. QED
    BY <2>3, <2>4 DEF Writes, Written
<1>7. \A p, l \in n + 2 .. n + m - 1 : q2[p].key = q2[l].key => p = l
  <2>1. SUFFICES ASSUME NEW p \in n + 2 .. n + m - 1, NEW l \in n + 2 .. n + m - 1,
                        q2[p].key = q2[l].key
                 PROVE  p = l
    OBVIOUS
  <2>2. /\ p - n \in 2 .. m - 1 /\ n + (p - n) = p /\ p - n \in 1 .. m
        /\ l - n \in 2 .. m - 1 /\ n + (l - n) = l /\ l - n \in 1 .. m
    BY <1>3
  <2>3. q2[p] = new[p - n] /\ q2[l] = new[l - n]
    BY <1>3, <2>2
  <2>4. p - n = l - n
    BY <1>2, <2>1, <2>2, <2>3
  <2>5. QED
    BY <1>3, <2>4
<1>8. /\ \A k \in Keys, j \in 0 .. n : \A s :
           Holds(image, q2, k, j, s) <=> Holds(image, q, k, j, s)
      /\ \A p \in 0 .. n : Ends(q, p) => Ends(q2, p)
  <2>1. Len(q) <= Len(q2)
    BY <1>3 DEF n
  <2>2. QED
    BY <1>3, <2>1, PendingStays DEF n
<1>9. ASSUME NEW k \in Keys PROVE Holds(image, q2, k, n + m, r)
  <2>1. Shows(image, q2, k, n + m, At(k, Latest))
    <3>1. CASE At(k, Latest) # 0
      <4>1. PICK i \in 2 .. m - 1 : new[i] = Put(k, At(k, Latest))
        BY <1>2, <3>1
      <4>2. /\ n + i \in n + 2 .. n + m - 1 /\ n + i \in 1 .. n + m
            /\ q2[n + i] = new[i]
        BY <1>3
      <4>3. q2[n + i].key = k /\ q2[n + i].value = At(k, Latest)
        BY <4>1, <4>2 DEF Put
      <4>4. Writes(q2[n + i], k) /\ Written(q2[n + i]) = At(k, Latest)
        BY <1>6, <4>2, <4>3
      <4>5. ASSUME NEW l \in (n + i) + 1 .. n + m PROVE ~Writes(q2[l], k)
        <5>1. l \in n + 2 .. n + m - 1 \/ l = n + m
          BY <1>3
        <5>2. l # n + i
          BY <1>3
        <5>3. CASE l \in n + 2 .. n + m - 1
          <6>1. q2[l].key # k
            BY <1>7, <4>2, <4>3, <5>2, <5>3
          <6>2. Writes(q2[l], k) <=> k = q2[l].key
            BY <1>6, <5>3
          <6>3. QED
            BY <6>1, <6>2
        <5>4. CASE l = n + m
          BY <1>5, <5>4
        <5>5. QED
          BY <5>1, <5>3, <5>4
      <4>6. QED
        BY <4>2, <4>4, <4>5 DEF Shows
    <3>2. CASE At(k, Latest) = 0
      <4>1. n + 1 \in 1 .. n + m
        BY <1>2, <1>3
      <4>2. ASSUME NEW l \in (n + 1) + 1 .. n + m PROVE ~Writes(q2[l], k)
        <5>1. l \in n + 2 .. n + m - 1 \/ l = n + m
          BY <1>3
        <5>2. QED
          BY <1>5, <1>6, <3>2, <5>1
      <4>3. QED
        BY <1>5, <3>2, <4>1, <4>2 DEF Shows
    <3>3. QED
      BY <3>1, <3>2
  <2>2. Latest \in r .. Latest
    BY <1>1
  <2>3. QED
    BY <2>1, <2>2 DEF Holds
<1>10. MarksInv(image, q2)
  <2>1. SUFFICES ASSUME NEW j \in 1 .. n + m, IsMark(q2[j]), NEW k \in Keys
                 PROVE  Holds(image, q2, k, j, q2[j].value.applied)
    BY <1>3 DEF MarksInv
  <2>2. CASE j \in 1 .. n
    <3>1. j \in 0 .. n
      BY <1>3, <2>2
    <3>2. QED
      BY <1>3, <1>8, <2>1, <2>2, <3>1 DEF DataInv, MarksInv, n
  <2>3. CASE j = n + m
    BY <1>5, <1>9, <2>3
  <2>4. QED
    BY <1>4, <1>5, <1>6, <2>1, <2>2, <2>3
<1>11. \A p \in 1 .. n : IsMark(q2[p]) => q2[p].value.applied <= Latest
  BY <1>3 DEF DataInv, PutsInv, n
<1>12. PutsInv(q2, c)
  <2>1. ASSUME NEW p \in 1 .. n + m
        PROVE  /\ IsMark(q2[p]) => q2[p].value.applied <= Latest
               /\ q2[p].op = "put" => \E i \in c .. Latest :
                    /\ q2[p].value = At(q2[p].key, i)
                    /\ \A l \in 1 .. p : IsMark(q2[l]) => q2[l].value.applied <= i
    <3>1. CASE p \in 1 .. n
      <4>1. \A l \in 1 .. p : q2[l] = q[l]
        BY <1>3, <3>1
      <4>2. QED
        BY <1>3, <3>1, <4>1 DEF DataInv, PutsInv, n
    <3>2. CASE p = n + 1
      BY <1>5, <3>2
    <3>3. CASE p \in n + 2 .. n + m - 1
      <4>1. Latest \in c .. Latest
        BY <1>1 DEF DataInv, PutsInv
      <4>2. ASSUME NEW l \in 1 .. p
            PROVE  l \in 1 .. n \/ l = n + 1 \/ l \in n + 2 .. n + m - 1
        BY <1>3, <3>3
      <4>3. \A l \in 1 .. p : IsMark(q2[l]) => q2[l].value.applied <= Latest
        BY <1>5, <1>6, <1>11, <4>2
      <4>4. QED
        BY <1>6, <3>3, <4>1, <4>3
    <3>4. CASE p = n + m
      BY <1>1, <1>5, <3>4
    <3>5. QED
      BY <1>4, <3>1, <3>2, <3>3, <3>4
  <2>2. QED
    BY <1>3, <2>1 DEF DataInv, PutsInv
<1>13. ClearsInv(image, q2, c)
  <2>1. ASSUME NEW p \in 1 .. n + m, q2[p].op = "clear" PROVE Ends(q2, p)
    <3>1. CASE p \in 1 .. n
      <4>1. p \in 0 .. n /\ q[p].op = "clear"
        BY <1>3, <2>1, <3>1
      <4>2. QED
        BY <1>8, <3>1, <4>1 DEF DataInv, ClearsInv, n
    <3>2. CASE p = n + 1
      <4>1. n + m \in p + 1 .. n + m
        BY <1>2, <1>3, <3>2
      <4>2. ASSUME NEW l \in p + 1 .. n + m PROVE q2[l].op # "clear"
        <5>1. l \in n + 2 .. n + m - 1 \/ l = n + m
          BY <1>3, <3>2
        <5>2. QED
          BY <1>5, <1>6, <5>1
      <4>3. QED
        BY <1>3, <1>5, <4>1, <4>2 DEF Ends
    <3>3. QED
      BY <1>4, <1>5, <1>6, <2>1, <3>1, <3>2
  <2>2. 0 \in 0 .. n
    BY <1>3
  <2>3. QED
    BY <1>3, <1>8, <2>1, <2>2 DEF DataInv, ClearsInv
<1>14. UpTo(image, q2, c, r)
  <2>1. \A p \in 1 .. n + m : IsMark(q2[p]) => q2[p].value.applied <= r + 1
    <3>1. ASSUME NEW p \in 1 .. n, IsMark(q2[p]) PROVE q2[p].value.applied <= r + 1
      <4>1. q2[p] \in Command
        BY <1>3
      <4>2. q2[p].value.applied \in Nat
        BY <3>1, <4>1, CommandCases, ConstantsType DEF Checkpoint, Revisions
      <4>3. QED
        BY <1>1, <1>11, <3>1, <4>2
    <3>2. QED
      BY <1>1, <1>4, <1>5, <1>6, <3>1
  <2>2. c <= r + 1
    BY <1>1 DEF DataInv, PutsInv
  <2>3. QED
    BY <1>1, <1>3, <1>9, <2>1, <2>2 DEF UpTo
<1>15. QED
  BY <1>10, <1>12, <1>13, <1>14 DEF DataInv, q2, new

-----------------------------------------------------------------------------
\* The steps.

LEMMA Typed ==
  ASSUME TypeOK
  PROVE  /\ SourceType /\ Latest \in Nat /\ changes \in Nat
         /\ tail \in Seq(Command) /\ leader \in Nodes
         /\ checkpoint.applied \in Nat
         /\ \A n \in Nodes : /\ stream[n].todo \in Seq(Command) /\ stream[n].since \in Nat
                             /\ stream[n].term \in Nat
         /\ replica \in [Keys -> Revisions]
         /\ Pending \in Seq(Command)
         /\ stream[leader].todo = <<>> \/ ~Own(leader) => Pending = tail
         /\ Own(leader) => Pending = tail \o stream[leader].todo
<1>1. /\ SourceType /\ Latest \in Nat /\ changes \in Nat
      /\ tail \in Seq(Command) /\ leader \in Nodes
      /\ replica \in [Keys -> Revisions]
  BY ConstantsType DEF TypeOK, SourceType, Latest
<1>2. checkpoint.applied \in Nat
  BY ConstantsType DEF TypeOK, Checkpoint, Revisions
<1>3. \A n \in Nodes : /\ stream[n].todo \in Seq(Command) /\ stream[n].since \in Nat
                       /\ stream[n].term \in Nat
  BY ConstantsType DEF TypeOK, Stream, Revisions
<1>4. /\ <<>> \in Seq(Command) /\ tail \o <<>> = tail
      /\ tail \o stream[leader].todo \in Seq(Command)
  BY <1>1, <1>3, ConcatEmptySeq, ConcatProperties
<1>5. QED
  BY <1>1, <1>2, <1>3, <1>4 DEF Pending

\* What the invariant says of the next state, when the source is as before.
LEMMA NextData ==
  ASSUME source' = source
  PROVE  /\ DataInv(replica, Pending, checkpoint.applied)' <=>
              DataInv(replica', Pending', checkpoint'.applied)
         /\ UpTo(replica, Pending, checkpoint.applied, stream[leader].since)' <=>
              UpTo(replica', Pending', checkpoint'.applied, stream'[leader'].since)
<1>1. \A k, r : At(k, r)' = At(k, r)
  BY DEF At
<1>2. Latest' = Latest
  BY DEF Latest
<1>3. MarksInv(replica, Pending)' <=> MarksInv(replica', Pending')
  BY <1>1, <1>2 DEF MarksInv, Holds, Shows
<1>4. PutsInv(Pending, checkpoint.applied)' <=> PutsInv(Pending', checkpoint'.applied)
  BY <1>1, <1>2 DEF PutsInv
<1>5. ClearsInv(replica, Pending, checkpoint.applied)' <=>
        ClearsInv(replica', Pending', checkpoint'.applied)
  BY <1>1, <1>2 DEF ClearsInv, Ends
<1>6. UpTo(replica, Pending, checkpoint.applied, stream[leader].since)' <=>
        UpTo(replica', Pending', checkpoint'.applied, stream'[leader'].since)
  BY <1>1, <1>2 DEF UpTo, Holds, Shows
<1>7. QED
  BY <1>3, <1>4, <1>5, <1>6 DEF DataInv

\* The parts of IInv that the steps are about one by one.
LogInv == ~excused => DataInv(replica, Pending, checkpoint.applied)
LeaderInv == ~excused /\ Own(leader) /\ stream[leader].phase = "events" =>
               UpTo(replica, Pending, checkpoint.applied, stream[leader].since)
SoloInv == ~excused => \A n \in Nodes : InSnapshot(n) => Own(n)

LEMMA Parts == IInv <=> StreamsInv /\ LogInv /\ LeaderInv /\ SoloInv
BY DEF IInv, LogInv, LeaderInv, SoloInv

\* What is cut off behind the commands kept in the log has no end of a snapshot in
\* it, when no stream is in a snapshot.
LEMMA CutOff ==
  ASSUME TypeOK, ~(Own(leader) /\ InSnapshot(leader)), NEW kept \in 0 .. Len(tail),
         Ends(Pending, kept)
  PROVE  EndsSnapshot(SubSeq(tail, kept + 1, Len(tail)))
<1> DEFINE todo == stream[leader].todo
           lost == SubSeq(tail, kept + 1, Len(tail))
<1>1. tail \in Seq(Command) /\ todo \in Seq(Command) /\ Len(tail) \in Nat
  BY Typed
<1>2. PICK e \in kept + 1 .. Len(Pending) :
        /\ IsMark(Pending[e]) /\ Pending[e].value.snapshot > 0
        /\ \A l \in kept + 1 .. e : Pending[l].op # "clear"
  BY DEF Ends
<1>3. e \in kept + 1 .. Len(tail)
  <2>1. SUFFICES ASSUME e \notin kept + 1 .. Len(tail) PROVE FALSE
    OBVIOUS
  <2>2. e > Len(tail)
    BY <1>1, <2>1
  <2>3. Own(leader) /\ Pending = tail \o todo
    <3>1. Pending # tail
      BY <1>1, <1>2, <2>2
    <3>2. QED
      BY <3>1, Typed
  <2>4. /\ Len(Pending) = Len(tail) + Len(todo) /\ Len(todo) \in Nat
        /\ \A p \in 1 .. Len(todo) : Pending[Len(tail) + p] = todo[p]
    BY <1>1, <2>3, Concatenated
  <2>5. /\ e - Len(tail) \in 1 .. Len(todo) /\ Len(tail) + (e - Len(tail)) = e
        /\ 1 \in 1 .. Len(todo) /\ Len(tail) + 1 \in kept + 1 .. e
    BY <1>1, <1>2, <2>2, <2>4
  <2>6. todo[e - Len(tail)] = Pending[e] /\ todo[1] = Pending[Len(tail) + 1]
    BY <2>4, <2>5
  <2>7. todo # <<>> /\ Head(todo) = todo[1] /\ DOMAIN todo = 1 .. Len(todo)
    BY <1>1, <2>5
  <2>8. InSnapshot(leader)
    BY <1>2, <2>5, <2>6, <2>7 DEF InSnapshot, IsMark
  <2>9. QED
    BY <2>3, <2>8
<1>4. \A l \in kept + 1 .. e : Pending[l] = tail[l] /\ l \in 1 .. Len(tail)
  <2>1. \A p \in 1 .. Len(tail) : Pending[p] = tail[p]
    BY <1>1, Typed, Concatenated
  <2>2. QED
    BY <1>1, <1>3, <2>1
<1>5. /\ DOMAIN lost = 1 .. Len(tail) - kept
      /\ \A i \in 1 .. Len(tail) - kept : lost[i] = tail[kept + i]
  BY <1>1
<1>6. e - kept \in 1 .. Len(tail) - kept /\ kept + (e - kept) = e
  BY <1>1, <1>3
<1>7. \A i \in 1 .. e - kept : /\ kept + i \in kept + 1 .. e
                               /\ i \in 1 .. Len(tail) - kept
  BY <1>1, <1>3
<1>8. /\ lost[e - kept].op = "checkpoint" /\ lost[e - kept].value.snapshot > 0
      /\ \A i \in 1 .. e - kept : lost[i].op # "clear"
  <2> HIDE DEF lost
  <2>1. e \in kept + 1 .. e
    BY <1>3
  <2>2. QED
    BY <1>2, <1>4, <1>5, <1>6, <1>7, <2>1 DEF IsMark
<1>9. QED
  BY <1>5, <1>6, <1>8 DEF EndsSnapshot

\* A stream is cut off, or a leader: what is left in the log is as good as before.
LEMMA CutData ==
  ASSUME TypeOK, ~(Own(leader) /\ InSnapshot(leader)), NEW kept \in 0 .. Len(tail),
         DataInv(replica, Pending, checkpoint.applied),
         ~EndsSnapshot(SubSeq(tail, kept + 1, Len(tail)))
  PROVE  DataInv(replica, SubSeq(tail, 1, kept), checkpoint.applied)
<1> DEFINE cut == SubSeq(tail, 1, kept)
<1>1. tail \in Seq(Command) /\ Len(tail) \in Nat /\ Pending \in Seq(Command)
  BY Typed
<1>2. cut \in Seq(Command) /\ Len(cut) = kept /\ \A p \in 1 .. kept : cut[p] = tail[p]
  BY <1>1
<1>3. Len(tail) <= Len(Pending) /\ \A p \in 1 .. Len(tail) : Pending[p] = tail[p]
  <2>1. CASE Pending = tail
    BY <1>1, <2>1
  <2>2. CASE Pending = tail \o stream[leader].todo
    <3>1. stream[leader].todo \in Seq(Command)
      BY Typed
    <3>2. QED
      BY <1>1, <2>2, <3>1, Concatenated
  <2>3. QED
    BY <2>1, <2>2, Typed
<1>4. ~Ends(Pending, Len(cut))
  BY <1>2, CutOff
<1>5. Len(cut) <= Len(Pending) /\ \A p \in 1 .. Len(cut) : cut[p] = Pending[p]
  BY <1>1, <1>2, <1>3
<1> HIDE DEF cut
<1>6. DataInv(replica, cut, checkpoint.applied)
  BY <1>1, <1>2, <1>4, <1>5, DataPrefix
<1>7. QED
  BY <1>6 DEF cut

LEMMA IInvNext ==
  ASSUME source' = source, StreamsInv',
         ~excused' => DataInv(replica', Pending', checkpoint'.applied),
         ~excused' /\ Own(leader)' /\ stream'[leader'].phase = "events" =>
           UpTo(replica', Pending', checkpoint'.applied, stream'[leader'].since),
         ~excused' => \A n \in Nodes : InSnapshot(n)' => Own(n)'
  PROVE  IInv'
<1>1. /\ DataInv(replica, Pending, checkpoint.applied)' <=>
           DataInv(replica', Pending', checkpoint'.applied)
      /\ UpTo(replica, Pending, checkpoint.applied, stream[leader].since)' <=>
           UpTo(replica', Pending', checkpoint'.applied, stream'[leader'].since)
  BY NextData
<1>2. LogInv' /\ LeaderInv' /\ SoloInv'
  BY <1>1 DEF LogInv, LeaderInv, SoloInv
<1>3. IInv' <=> StreamsInv' /\ LogInv' /\ LeaderInv' /\ SoloInv'
  BY Parts, PTL
<1>4. QED
  BY <1>2, <1>3

LEMMA StreamsNext ==
  ASSUME TypeOK, StreamsInv, [Next]_vars
  PROVE  StreamsInv'
<1>1. \A n \in Nodes : /\ stream[n].term <= changes /\ stream[n].term \in Nat
                       /\ stream[n].phase \in {"idle", "checked", "snapshot"} =>
                            stream[n].todo = <<>>
                       /\ DOMAIN stream = Nodes
  BY Typed DEF StreamsInv, TypeOK
<1>2. changes \in Nat /\ Idle.term = 0 /\ Idle.todo = <<>>
  BY Typed DEF Idle
<1>3. CASE UNCHANGED <<stream, changes>>
  BY <1>3 DEF StreamsInv
<1>4. CASE SourceRestarts
  BY <1>1, <1>4 DEF SourceRestarts, StreamsInv
<1>5. ASSUME NEW n \in Nodes, NEW kept \in 0 .. Len(tail), ChangeLeader(n, kept)
      PROVE  StreamsInv'
  BY <1>1, <1>2, <1>5 DEF ChangeLeader, StreamsInv
<1>6. ASSUME NEW n \in Nodes,
             Restart(n) \/ Check(n) \/ OpenStream(n) \/ StreamFails(n) \/ StreamEnds(n)
      PROVE  StreamsInv'
  <2>1. /\ stream'[n].term <= changes
        /\ stream'[n].phase \in {"idle", "checked", "snapshot"} => stream'[n].todo = <<>>
        /\ \A m \in Nodes \ {n} : stream'[m] = stream[m]
        /\ changes' = changes
    <3>1. CASE Restart(n)
      BY <1>1, <1>2, <3>1 DEF Restart
    <3>2. CASE Check(n)
      BY <1>1, <3>2 DEF Check
    <3>3. CASE OpenStream(n)
      BY <1>1, <1>2, <3>3 DEF OpenStream
    <3>4. CASE StreamFails(n)
      BY <1>1, <1>2, <3>4 DEF StreamFails
    <3>5. CASE StreamEnds(n)
      BY <1>1, <1>2, <3>5 DEF StreamEnds
    <3>6. QED
      BY <1>6, <3>1, <3>2, <3>3, <3>4, <3>5
  <2>2. QED
    BY <1>1, <2>1 DEF StreamsInv
<1>7. ASSUME NEW n \in Nodes, NEW r \in Revisions, ReceiveSnapshot(n, r)
      PROVE  StreamsInv'
  BY <1>1, <1>7 DEF ReceiveSnapshot, StreamsInv
<1>8. ASSUME NEW n \in Nodes, ReceiveEvent(n) PROVE StreamsInv'
  BY <1>1, <1>8 DEF ReceiveEvent, StreamsInv
<1>9. ASSUME NEW n \in Nodes, Send(n) PROVE StreamsInv'
  BY <1>1, <1>9 DEF Send, StreamsInv
<1>10. ASSUME NEW k \in Keys, NEW alive \in BOOLEAN, SourceChanges(k, alive)
       PROVE  UNCHANGED <<stream, changes>>
  BY <1>10 DEF SourceChanges
<1>11. Commit \/ (\E n \in Nodes : StepDown(n)) \/ UNCHANGED vars =>
         UNCHANGED <<stream, changes>>
  BY DEF Commit, StepDown, vars
<1>12. QED
  BY <1>3, <1>4, <1>5, <1>6, <1>7, <1>8, <1>9, <1>10, <1>11 DEF Next

\* A step of one stream alone.
LEMMA StreamStep ==
  ASSUME TypeOK, IInv, StreamsInv', NEW n \in Nodes,
         UNCHANGED <<source, replica, checkpoint, tail, leader, changes>>,
         \A m \in Nodes \ {n} : stream'[m] = stream[m],
         excused => excused',
         ~excused' /\ InSnapshot(n)' => Own(n)',
         n = leader /\ ~excused' => DataInv(replica, Pending', checkpoint.applied),
         n = leader /\ ~excused' /\ Own(n)' /\ stream'[n].phase = "events" =>
           UpTo(replica, Pending', checkpoint.applied, stream'[n].since)
  PROVE  IInv'
<1>1. ASSUME NEW m \in Nodes \ {n}
      PROVE  (Own(m)' <=> Own(m)) /\ (InSnapshot(m)' <=> InSnapshot(m))
  BY DEF Own, InSnapshot
<1>2. LogInv /\ LeaderInv /\ SoloInv
  BY Parts
<1>3. leader \in Nodes
  BY Typed
<1>5. n # leader => Pending' = Pending /\ (Own(leader)' <=> Own(leader))
                    /\ stream'[leader'] = stream[leader]
  BY <1>1, <1>3 DEF Pending, Own
<1>6. ~excused' => DataInv(replica', Pending', checkpoint'.applied)
  BY <1>2, <1>5 DEF LogInv
<1>7. ~excused' /\ Own(leader)' /\ stream'[leader'].phase = "events" =>
        UpTo(replica', Pending', checkpoint'.applied, stream'[leader'].since)
  <2>1. n = leader => (Own(leader)' <=> Own(n)')
    BY DEF Own
  <2>2. QED
    BY <1>2, <1>5, <2>1 DEF LeaderInv
<1>8. ~excused' => \A m \in Nodes : InSnapshot(m)' => Own(m)'
  BY <1>1, <1>2 DEF SoloInv
<1>9. QED
  BY <1>6, <1>7, <1>8, IInvNext

LEMMA SourceChangesIInv ==
  ASSUME TypeOK, IInv, StreamsInv', NEW k \in Keys, NEW alive \in BOOLEAN,
         SourceChanges(k, alive)
  PROVE  IInv'
<1> DEFINE q == Pending
           c == checkpoint.applied
           since == stream[leader].since
<1>1. /\ SourceType /\ Latest \in Nat /\ c \in Nat /\ since \in Nat /\ q \in Seq(Command)
  BY Typed
<1>2. /\ UNCHANGED <<replica, checkpoint, tail, leader, stream, changes, excused>>
      /\ source' = Append(source, [key |-> k, alive |-> alive]) /\ source \in Seq(Event)
  BY DEF SourceChanges, raftVars, TypeOK
<1>3. Latest' = Latest + 1 /\ \A i \in 1 .. Latest : source'[i] = source[i]
  BY <1>2 DEF Latest
<1>4. \A l \in Keys, i \in 0 .. Latest : At(l, i)' = At(l, i)
  BY <1>1, <1>3, ValueKept
<1>5. /\ Pending' = q /\ (Own(leader)' <=> Own(leader))
      /\ \A m \in Nodes : (Own(m)' <=> Own(m)) /\ (InSnapshot(m)' <=> InSnapshot(m))
  BY <1>2 DEF Pending, Own, InSnapshot
<1>6. \A p \in 1 .. Len(q) : /\ IsMark(q[p]) => q[p].value.applied \in Nat
                             /\ q[p].op = "put" => q[p].key \in Keys
  <2>1. \A p \in 1 .. Len(q) : q[p] \in Command
    BY <1>1
  <2>2. QED
    BY <2>1, CommandCases, ConstantsType DEF Checkpoint, Revisions, IsMark
<1>7. q' = q
  BY <1>5
<1> HIDE DEF q, c, since
<1>8. \A l \in Keys, j, r \in Nat :
        Holds(replica, q, l, j, r) =>
          \E i \in r .. Latest + 1 : i \in 0 .. Latest /\ Shows(replica, q, l, j, At(l, i))
  BY <1>1 DEF Holds
<1>9. ASSUME NEW l \in Keys, NEW j \in Nat, NEW r \in Nat, Holds(replica, q, l, j, r)
      PROVE  \E i \in r .. Latest' : Shows(replica, q, l, j, At(l, i)')
  BY <1>3, <1>4, <1>8, <1>9
<1>10. Len(q) \in Nat /\ \A j \in 1 .. Len(q) : j \in Nat
  BY <1>1
<1>11. Latest \in Nat /\ Latest' = Latest + 1 /\ c \in Nat
  BY <1>1, <1>3
<1>12. ASSUME ~excused PROVE DataInv(replica, Pending, checkpoint.applied)'
  <2>1. MarksInv(replica, q) /\ PutsInv(q, c) /\ ClearsInv(replica, q, c)
    BY <1>2, <1>12, Parts DEF LogInv, DataInv, q, c
  <2>2. MarksInv(replica, Pending)'
    <3>1. ASSUME NEW j \in 1 .. Len(q), IsMark(q[j]), NEW l \in Keys
          PROVE  \E i \in q[j].value.applied .. Latest' : Shows(replica, q, l, j, At(l, i)')
      BY <1>6, <1>9, <1>10, <2>1, <3>1 DEF MarksInv
    <3>2. QED
      BY <1>2, <1>5, <3>1 DEF MarksInv, Holds, Shows
  <2>3. PutsInv(Pending, checkpoint.applied)'
    <3>1. ASSUME NEW p \in 1 .. Len(q)
          PROVE  /\ IsMark(q[p]) => q[p].value.applied <= Latest'
                 /\ q[p].op = "put" => \E i \in c .. Latest' :
                      /\ q[p].value = At(q[p].key, i)'
                      /\ \A l \in 1 .. p : IsMark(q[l]) => q[l].value.applied <= i
      <4>1. IsMark(q[p]) => q[p].value.applied <= Latest'
        BY <1>6, <1>11, <2>1 DEF PutsInv
      <4>2. ASSUME q[p].op = "put"
            PROVE  \E i \in c .. Latest' :
                      /\ q[p].value = At(q[p].key, i)'
                      /\ \A l \in 1 .. p : IsMark(q[l]) => q[l].value.applied <= i
        <5>1. PICK i \in c .. Latest :
                /\ q[p].value = At(q[p].key, i)
                /\ \A l \in 1 .. p : IsMark(q[l]) => q[l].value.applied <= i
          BY <2>1, <4>2 DEF PutsInv
        <5>2. i \in 0 .. Latest /\ i \in c .. Latest'
          BY <1>11
        <5>3. At(q[p].key, i)' = At(q[p].key, i)
          <6>1. q[p].key \in Keys
            BY <1>6, <4>2
          <6>2. QED
            BY <1>4, <1>7, <5>2, <6>1
        <5>4. QED
          BY <5>1, <5>2, <5>3
      <4>3. QED
        BY <4>1, <4>2
    <3>2. c <= Latest'
      BY <1>11, <2>1 DEF PutsInv
    <3>3. checkpoint'.applied = c
      BY <1>2 DEF c
    <3>4. QED
      BY <1>5, <1>7, <3>1, <3>2, <3>3 DEF PutsInv
  <2>4. ClearsInv(replica, Pending, checkpoint.applied)'
    <3>1. (\A l \in Keys : \E i \in c .. Latest : replica[l] = At(l, i)) =>
            (\A l \in Keys : \E i \in c .. Latest' : replica[l] = At(l, i)')
      <4>1. \A i \in c .. Latest : i \in 0 .. Latest /\ i \in c .. Latest'
        BY <1>11
      <4>2. QED
        BY <1>4, <4>1
    <3>2. checkpoint'.applied = c
      BY <1>2 DEF c
    <3>3. QED
      BY <1>2, <1>5, <2>1, <3>1, <3>2 DEF ClearsInv, Ends
  <2>5. QED
    BY <2>2, <2>3, <2>4 DEF DataInv
<1>13. ASSUME ~excused, Own(leader), stream[leader].phase = "events"
       PROVE  UpTo(replica, Pending, checkpoint.applied, stream[leader].since)'
  <2>1. UpTo(replica, q, c, since)
    BY <1>13, Parts DEF LeaderInv, q, c, since
  <2>2. since <= Latest' /\ c <= since + 1
    BY <1>1, <1>11, <2>1 DEF UpTo
  <2>3. \A l \in Keys : \E i \in since .. Latest' : Shows(replica, q, l, Len(q), At(l, i)')
    BY <1>1, <1>9, <1>10, <2>1 DEF UpTo
  <2>4. \A l \in Keys : Holds(replica, Pending, l, Len(Pending), stream[leader].since)'
    BY <1>2, <1>5, <2>3 DEF Holds, Shows, since
  <2>5. \A p \in 1 .. Len(q) : IsMark(q[p]) => q[p].value.applied <= since + 1
    BY <2>1 DEF UpTo
  <2>6. checkpoint'.applied = c /\ stream'[leader'].since = since
    BY <1>2 DEF c, since
  <2>7. QED
    BY <1>5, <2>2, <2>4, <2>5, <2>6 DEF UpTo
<1>14. LogInv' /\ LeaderInv' /\ SoloInv'
  BY <1>2, <1>5, <1>12, <1>13, Parts DEF LogInv, LeaderInv, SoloInv
<1>15. IInv' <=> StreamsInv' /\ LogInv' /\ LeaderInv' /\ SoloInv'
  BY Parts, PTL
<1>16. QED
  BY <1>14, <1>15

LEMMA TailConcatenated ==
  ASSUME NEW q \in Seq(Command), NEW more \in Seq(Command), q # <<>>
  PROVE  /\ Tail(q \o more) = Tail(q) \o more /\ q \o more # <<>>
         /\ (q \o more)[1] = Head(q)
<1>1. /\ Len(q) \in Nat /\ Len(q) >= 1 /\ Len(more) \in Nat
      /\ Tail(q) \in Seq(Command) /\ Len(Tail(q)) = Len(q) - 1
      /\ Head(q) = q[1] /\ \A p \in 1 .. Len(q) - 1 : Tail(q)[p] = q[p + 1]
  BY QueueFacts
<1>2. /\ q \o more \in Seq(Command) /\ Len(q \o more) = Len(q) + Len(more)
      /\ \A p \in 1 .. Len(q) + Len(more) :
           (q \o more)[p] = IF p <= Len(q) THEN q[p] ELSE more[p - Len(q)]
  BY ConcatProperties
<1>3. /\ Tail(q) \o more \in Seq(Command)
      /\ Len(Tail(q) \o more) = Len(Tail(q)) + Len(more)
      /\ \A p \in 1 .. Len(Tail(q)) + Len(more) :
           (Tail(q) \o more)[p] = IF p <= Len(Tail(q)) THEN Tail(q)[p]
                                  ELSE more[p - Len(Tail(q))]
  BY <1>1, ConcatProperties
<1> DEFINE all == q \o more
           rest == Tail(q) \o more
<1>4. all # <<>>
  BY <1>1, <1>2
<1>5. /\ Tail(all) \in Seq(Command) /\ Len(Tail(all)) = Len(all) - 1
      /\ \A p \in 1 .. Len(all) - 1 : Tail(all)[p] = all[p + 1]
  BY <1>2, <1>4, QueueFacts
<1> HIDE DEF all, rest
<1>6. Len(Tail(all)) = Len(rest) /\ Len(rest) = Len(q) + Len(more) - 1
  BY <1>1, <1>2, <1>3, <1>5 DEF all, rest
<1>7. ASSUME NEW p \in 1 .. Len(rest) PROVE Tail(all)[p] = rest[p]
  <2>1. /\ p \in 1 .. Len(q) + Len(more) - 1 /\ p + 1 \in 1 .. Len(q) + Len(more)
        /\ p \in 1 .. Len(all) - 1 /\ p \in 1 .. Len(Tail(q)) + Len(more)
    BY <1>1, <1>5, <1>6
  <2>2. /\ Tail(all)[p] = all[p + 1]
        /\ all[p + 1] = IF p + 1 <= Len(q) THEN q[p + 1] ELSE more[(p + 1) - Len(q)]
        /\ rest[p] = IF p <= Len(q) - 1 THEN Tail(q)[p] ELSE more[p - (Len(q) - 1)]
    BY <1>1, <1>2, <1>3, <1>5, <2>1 DEF all, rest
  <2>3. CASE p <= Len(q) - 1
    <3>1. p \in 1 .. Len(q) - 1 /\ p + 1 <= Len(q)
      BY <1>1, <2>3
    <3>2. QED
      BY <1>1, <2>2, <2>3, <3>1
  <2>4. CASE ~(p <= Len(q) - 1)
    <3>1. ~(p + 1 <= Len(q)) /\ (p + 1) - Len(q) = p - (Len(q) - 1)
      BY <1>1, <2>1, <2>4
    <3>2. QED
      BY <2>2, <2>4, <3>1
  <2>5. QED
    BY <2>3, <2>4
<1>8. Tail(all) = rest
  BY <1>3, <1>5, <1>6, <1>7, SeqEqual DEF rest
<1>9. all[1] = Head(q)
  <2>1. 1 \in 1 .. Len(q) + Len(more) /\ 1 <= Len(q)
    BY <1>1
  <2>2. QED
    BY <1>1, <1>2, <2>1 DEF all
<1>10. QED
  BY <1>4, <1>8, <1>9 DEF all, rest

\* What a stream sends stays pending.
LEMMA HeadMoved ==
  ASSUME NEW q \in Seq(Command), NEW more \in Seq(Command), more # <<>>
  PROVE  Append(q, Head(more)) \o Tail(more) = q \o more
<1>1. /\ Head(more) \in Command /\ Tail(more) \in Seq(Command)
      /\ more = <<Head(more)>> \o Tail(more)
  <2>1. Head(more) \in Command /\ Tail(more) \in Seq(Command) /\ Head(more) = more[1]
    BY QueueFacts
  <2> DEFINE one == <<Head(more)>>
  <2>2. one \in Seq(Command) /\ Len(one) = 1 /\ one[1] = Head(more)
    BY <2>1
  <2>3. /\ one \o Tail(more) \in Seq(Command)
        /\ Len(one \o Tail(more)) = 1 + Len(Tail(more))
        /\ \A p \in 1 .. Len(Tail(more)) : (one \o Tail(more))[1 + p] = Tail(more)[p]
        /\ (one \o Tail(more))[1] = Head(more)
    <3> HIDE DEF one
    <3>1. 1 \in 1 .. Len(one)
      BY <2>2
    <3>2. /\ one \o Tail(more) \in Seq(Command)
          /\ Len(one \o Tail(more)) = Len(one) + Len(Tail(more))
          /\ \A p \in 1 .. Len(one) : (one \o Tail(more))[p] = one[p]
          /\ \A p \in 1 .. Len(Tail(more)) :
               (one \o Tail(more))[Len(one) + p] = Tail(more)[p]
      BY <2>1, <2>2, Concatenated
    <3>3. QED
      BY <2>2, <3>1, <3>2
  <2> HIDE DEF one
  <2> DEFINE all == one \o Tail(more)
  <2>4. /\ Len(more) \in Nat /\ Len(more) >= 1 /\ Len(Tail(more)) = Len(more) - 1
        /\ \A p \in 1 .. Len(more) - 1 : Tail(more)[p] = more[p + 1]
    BY QueueFacts
  <2> HIDE DEF all
  <2>5. Len(all) = Len(more)
    BY <2>3, <2>4 DEF all
  <2>6. ASSUME NEW p \in 1 .. Len(all) PROVE all[p] = more[p]
    <3>1. CASE p = 1
      BY <2>1, <2>3, <3>1 DEF all
    <3>2. CASE p # 1
      <4>1. p - 1 \in 1 .. Len(more) - 1 /\ 1 + (p - 1) = p /\ (p - 1) + 1 = p
        BY <2>4, <2>5, <3>2
      <4>2. all[1 + (p - 1)] = Tail(more)[p - 1] /\ Tail(more)[p - 1] = more[(p - 1) + 1]
        BY <2>3, <2>4, <4>1 DEF all
      <4>3. QED
        BY <4>1, <4>2
    <3>3. QED
      BY <3>1, <3>2
  <2>7. all = more
    BY <2>3, <2>5, <2>6, SeqEqual DEF all
  <2>8. QED
    BY <2>1, <2>7 DEF all, one
<1>2. Append(q, Head(more)) = q \o <<Head(more)>>
  BY <1>1, AppendIsConcat
<1>3. <<Head(more)>> \in Seq(Command)
  BY <1>1
<1>4. (q \o <<Head(more)>>) \o Tail(more) = q \o (<<Head(more)>> \o Tail(more))
  BY <1>1, <1>3, ConcatAssociative
<1>5. QED
  BY <1>1, <1>2, <1>4

LEMMA CommitIInv ==
  ASSUME TypeOK, IInv, StreamsInv', Commit
  PROVE  /\ IInv'
         /\ checkpoint' # checkpoint => excused \/ Covers(checkpoint'.applied)
<1> DEFINE more == IF Own(leader) THEN stream[leader].todo ELSE <<>>
           h == Head(tail)
<1>1. /\ tail # <<>> /\ tail' = Tail(tail) /\ Apply(h)
      /\ UNCHANGED <<source, leader, stream, excused, changes>>
  BY DEF Commit, sourceVars
<1>2. /\ tail \in Seq(Command) /\ more \in Seq(Command) /\ Latest \in Nat
      /\ replica \in [Keys -> Revisions]
      /\ Pending \in Seq(Command)
  BY Typed
<1>3. /\ \A m \in Nodes : (Own(m)' <=> Own(m)) /\ (InSnapshot(m)' <=> InSnapshot(m))
      /\ Own(leader)' <=> Own(leader)
      /\ stream'[leader'] = stream[leader]
  BY <1>1 DEF Own, InSnapshot
<1>4. Pending = tail \o more /\ Pending' = Tail(tail) \o more
  BY <1>1, <1>3 DEF Pending
<1>5. h \in Command
  BY <1>1, <1>2, QueueFacts
<1> HIDE DEF more
<1>6. Pending' = Tail(Pending) /\ Pending # <<>> /\ Pending[1] = h
  BY <1>1, <1>2, <1>4, TailConcatenated
<1>7. Committed(h, replica, checkpoint.applied, replica', checkpoint'.applied)
  <2>1. CASE h.op = "clear"
    BY <1>1, <2>1 DEF Apply, Committed
  <2>2. CASE h.op = "put"
    BY <1>1, <2>2 DEF Apply, Committed
  <2>3. CASE h.op = "checkpoint"
    BY <1>1, <2>3 DEF Apply, Committed
  <2>4. QED
    BY <1>5, <2>1, <2>2, <2>3, CommandCases
<1>8. LogInv /\ LeaderInv /\ SoloInv
  BY Parts
<1>9. ASSUME ~excused
      PROVE  /\ DataInv(replica', Pending', checkpoint'.applied)
             /\ \A r : UpTo(replica, Pending, checkpoint.applied, r) =>
                         UpTo(replica', Pending', checkpoint'.applied, r)
             /\ IsMark(h) => \A k \in Keys : \E i \in h.value.applied .. Latest :
                                replica[k] = At(k, i)
  <2>1. DataInv(replica, Pending, checkpoint.applied)
    BY <1>8, <1>9 DEF LogInv
  <2> DEFINE image2 == replica'
             c2 == checkpoint'.applied
             c == checkpoint.applied
             q == Pending
  <2>2. q \in Seq(Command) /\ q # <<>> /\ q[1] = h /\ Tail(q) = Pending'
    BY <1>2, <1>6
  <2>3. Committed(q[1], replica, c, image2, c2) /\ DataInv(replica, q, c)
    BY <1>7, <2>1, <2>2
  <2> HIDE DEF image2, c2, c, q, h
  <2>4. /\ DataInv(image2, Tail(q), c2)
        /\ \A r : UpTo(replica, q, c, r) => UpTo(image2, Tail(q), c2, r)
        /\ IsMark(q[1]) =>
             \A k \in Keys : \E i \in q[1].value.applied .. Latest : replica[k] = At(k, i)
    BY <1>2, <2>2, <2>3, DataPopped
  <2>5. QED
    BY <2>2, <2>4 DEF image2, c2, c, q
<1>10. IInv'
  <2>1. ~excused' => DataInv(replica', Pending', checkpoint'.applied)
    BY <1>1, <1>9
  <2>2. ~excused' /\ Own(leader)' /\ stream'[leader'].phase = "events" =>
          UpTo(replica', Pending', checkpoint'.applied, stream'[leader'].since)
    BY <1>1, <1>3, <1>8, <1>9 DEF LeaderInv
  <2>3. ~excused' => \A m \in Nodes : InSnapshot(m)' => Own(m)'
    BY <1>1, <1>3, <1>8 DEF SoloInv
  <2>4. source' = source
    BY <1>1
  <2>5. QED
    BY <2>1, <2>2, <2>3, <2>4, IInvNext
<1>11. ASSUME checkpoint' # checkpoint, ~excused PROVE Covers(checkpoint'.applied)
  <2>1. h.op = "checkpoint" /\ IsMark(h) /\ checkpoint' = h.value
    <3>1. h.op \in {"clear", "put"} => checkpoint' = checkpoint
      BY <1>1 DEF Apply
    <3>2. h.op = "checkpoint"
      BY <1>5, <1>11, <3>1, CommandCases
    <3>3. QED
      BY <1>1, <3>2 DEF Apply, IsMark
  <2>2. QED
    BY <1>9, <1>11, <2>1 DEF Covers
<1>12. QED
  BY <1>10, <1>11

LEMMA SourceRestartsIInv ==
  ASSUME TypeOK, IInv, StreamsInv', SourceRestarts
  PROVE  IInv'
<1>1. /\ UNCHANGED <<source, replica, checkpoint, tail, leader, excused, changes>>
      /\ \A n \in Nodes : /\ stream'[n].todo = stream[n].todo
                          /\ stream'[n].term = stream[n].term
                          /\ stream'[n].clean = stream[n].clean
                          /\ stream'[n].phase # "events"
  BY DEF SourceRestarts, raftVars, TypeOK
<1>2. leader \in Nodes
  BY Typed
<1>3. /\ \A n \in Nodes : (Own(n)' <=> Own(n)) /\ (InSnapshot(n)' <=> InSnapshot(n))
      /\ Own(leader)' <=> Own(leader)
  BY <1>1, <1>2 DEF Own, InSnapshot
<1>4. Pending' = Pending
  BY <1>1, <1>2, <1>3 DEF Pending
<1>5. ~excused' => DataInv(replica', Pending', checkpoint'.applied)
  BY <1>1, <1>4, Parts DEF LogInv
<1>6. ~excused' => \A n \in Nodes : InSnapshot(n)' => Own(n)'
  BY <1>1, <1>3, Parts DEF SoloInv
<1>7. stream'[leader'].phase # "events"
  BY <1>1, <1>2
<1>8. QED
  BY <1>1, <1>5, <1>6, <1>7, IInvNext

LEMMA ChangeLeaderIInv ==
  ASSUME TypeOK, IInv, StreamsInv', NEW n \in Nodes, NEW kept \in 0 .. Len(tail),
         ChangeLeader(n, kept)
  PROVE  IInv'
<1>1. /\ UNCHANGED <<source, replica, checkpoint, stream>>
      /\ n # leader /\ leader' = n /\ changes' = changes + 1
      /\ tail' = SubSeq(tail, 1, kept)
      /\ ~excused' => /\ ~excused /\ ~EndsSnapshot(SubSeq(tail, kept + 1, Len(tail)))
                      /\ \A m \in Nodes : ~InSnapshot(m)
  BY DEF ChangeLeader, sourceVars
<1>2. /\ tail \in Seq(Command) /\ leader \in Nodes /\ changes \in Nat
      /\ \A m \in Nodes : stream[m].term \in Nat
  BY Typed
<1>3. ~Own(leader)'
  <2>1. stream[n].term <= changes
    BY Parts DEF StreamsInv
  <2>2. stream'[leader'].term # changes'
    BY <1>1, <1>2, <2>1
  <2>3. QED
    BY <2>2 DEF Own
<1>4. Pending' = tail'
  <2>1. tail' \in Seq(Command)
    BY <1>1, <1>2
  <2>2. Pending' = tail' \o <<>>
    BY <1>3 DEF Pending
  <2>3. QED
    BY <2>1, <2>2, ConcatEmptySeq
<1>5. ASSUME ~excused' PROVE DataInv(replica', Pending', checkpoint'.applied)
  <2>1. DataInv(replica, Pending, checkpoint.applied)
    BY <1>1, <1>5, Parts DEF LogInv
  <2>2. DataInv(replica, SubSeq(tail, 1, kept), checkpoint.applied)
    BY <1>1, <1>2, <1>5, <2>1, CutData
  <2>3. QED
    BY <1>1, <1>4, <2>2
<1>6. \A m \in Nodes : InSnapshot(m)' <=> InSnapshot(m)
  BY <1>1 DEF InSnapshot
<1>7. source' = source
  BY <1>1
<1>8. QED
  BY <1>1, <1>3, <1>5, <1>6, <1>7, IInvNext

\* A stream that is given up, or ended: nothing of it is pending any more.
LEMMA StreamDropped ==
  ASSUME TypeOK, IInv, StreamsInv', NEW n \in Nodes,
         UNCHANGED <<source, replica, checkpoint, tail, leader, changes>>,
         \A m \in Nodes \ {n} : stream'[m] = stream[m],
         stream'[n] = Idle, excused => excused', ~excused' => ~InSnapshot(n)
  PROVE  IInv'
<1>1. ~InSnapshot(n)' /\ stream'[n].todo = <<>> /\ stream'[n].phase # "events"
  BY DEF InSnapshot, Idle
<1>2. tail \in Seq(Command) /\ Len(tail) \in Nat
  BY Typed
<1>3. n = leader => Pending' = tail
  <2>1. n = leader => Pending' = tail \o <<>>
    BY <1>1 DEF Pending
  <2>2. QED
    BY <1>2, <2>1, ConcatEmptySeq
<1>4. ASSUME n = leader, ~excused' PROVE DataInv(replica, Pending', checkpoint.applied)
  <2>1. DataInv(replica, Pending, checkpoint.applied)
    BY <1>4, Parts DEF LogInv
  <2>2. SubSeq(tail, 1, Len(tail)) = tail /\ Len(tail) \in 0 .. Len(tail)
    BY <1>2, SubSeqFull
  <2>3. ~EndsSnapshot(SubSeq(tail, Len(tail) + 1, Len(tail)))
    <3> DEFINE lost == SubSeq(tail, Len(tail) + 1, Len(tail))
    <3>1. lost = <<>>
      BY <1>2, SubSeqEmpty
    <3>2. DOMAIN lost = {}
      BY <3>1
    <3> HIDE DEF lost
    <3>3. ~EndsSnapshot(lost)
      BY <3>2 DEF EndsSnapshot
    <3>4. QED
      BY <3>3 DEF lost
  <2>4. ~(Own(leader) /\ InSnapshot(leader))
    BY <1>4
  <2>5. DataInv(replica, SubSeq(tail, 1, Len(tail)), checkpoint.applied)
    BY <2>1, <2>2, <2>3, <2>4, CutData
  <2>6. QED
    BY <1>3, <1>4, <2>2, <2>5
<1>5. QED
  BY <1>1, <1>4, StreamStep

LEMMA DropsIInv ==
  ASSUME TypeOK, IInv, StreamsInv', NEW n \in Nodes,
         StreamFails(n) \/ Restart(n) \/ StreamEnds(n)
  PROVE  IInv'
<1>1. /\ UNCHANGED <<source, replica, checkpoint, tail, leader, changes>>
      /\ \A m \in Nodes \ {n} : stream'[m] = stream[m]
      /\ stream'[n] = Idle /\ (excused => excused') /\ (~excused' => ~excused)
  BY DEF StreamFails, Restart, StreamEnds, TypeOK, sourceVars, raftVars
<1>2. ~excused' => ~InSnapshot(n)
  BY DEF StreamFails, Restart, StreamEnds, InSnapshot
<1>3. QED
  BY <1>1, <1>2, StreamDropped

LEMMA CheckIInv ==
  ASSUME TypeOK, IInv, StreamsInv', NEW n \in Nodes, Check(n)
  PROVE  IInv'
<1>1. /\ UNCHANGED <<source, replica, checkpoint, tail, leader, excused, changes>>
      /\ \A m \in Nodes \ {n} : stream'[m] = stream[m]
      /\ stream[n].phase = "idle"
      /\ stream'[n].todo = stream[n].todo /\ stream'[n].phase # "events"
      /\ stream'[n].term = stream[n].term /\ stream'[n].clean = stream[n].clean
  BY DEF Check, TypeOK, sourceVars, raftVars
<1>2. (Own(n)' <=> Own(n)) /\ (InSnapshot(n)' <=> InSnapshot(n))
  BY <1>1 DEF Own, InSnapshot
<1>3. n = leader => Pending' = Pending
  BY <1>1, <1>2 DEF Pending, Own
<1>4. n = leader /\ ~excused' => DataInv(replica, Pending', checkpoint.applied)
  BY <1>1, <1>3, Parts DEF LogInv
<1>5. ~excused' /\ InSnapshot(n)' => Own(n)'
  BY <1>1, <1>2, Parts DEF SoloInv
<1>6. excused => excused'
  BY <1>1
<1>7. QED
  BY <1>1, <1>4, <1>5, <1>6, StreamStep

LEMMA OpenStreamIInv ==
  ASSUME TypeOK, IInv, StreamsInv', NEW n \in Nodes, OpenStream(n)
  PROVE  IInv'
<1> DEFINE c == checkpoint.applied
<1>1. /\ UNCHANGED <<source, replica, checkpoint, tail, leader, excused, changes>>
      /\ \A m \in Nodes \ {n} : stream'[m] = stream[m]
      /\ stream[n].phase = "checked" /\ stream'[n].todo = <<>> /\ stream'[n].since = c
      /\ stream'[n].clean = (tail = <<>>)
  BY DEF OpenStream, TypeOK, sourceVars, raftVars
<1>2. /\ tail \in Seq(Command) /\ c \in Nat
  BY Typed
<1>3. stream[n].todo = <<>> /\ ~InSnapshot(n)'
  BY <1>1, Parts DEF StreamsInv, InSnapshot
<1>4. n = leader => Pending = tail /\ Pending' = tail
  <2>1. n = leader => Pending' = tail \o <<>>
    BY <1>1 DEF Pending
  <2>2. QED
    BY <1>2, <1>3, <2>1, ConcatEmptySeq, Typed
<1>5. n = leader /\ ~excused' => DataInv(replica, Pending', c)
  BY <1>1, <1>4, Parts DEF LogInv
<1>6. ASSUME n = leader, ~excused', Own(n)'
      PROVE  UpTo(replica, Pending', c, stream'[n].since)
  <2>1. tail = <<>>
    BY <1>1, <1>6 DEF Own
  <2>2. Pending' = <<>> /\ Len(<<>>) = 0
    BY <1>4, <1>6, <2>1
  <2>3. c <= Latest /\ ClearsInv(replica, <<>>, c)
    BY <1>5, <1>6, <2>2 DEF DataInv, PutsInv
  <2>4. ~Ends(<<>>, 0)
    BY <2>2 DEF Ends
  <2>5. \A k \in Keys : \E i \in c .. Latest : replica[k] = At(k, i)
    BY <2>3, <2>4 DEF ClearsInv
  <2>6. \A k \in Keys : \A v : v = replica[k] => Shows(replica, <<>>, k, 0, v)
    BY DEF Shows
  <2>7. \A k \in Keys : Holds(replica, <<>>, k, 0, c)
    BY <2>5, <2>6 DEF Holds
  <2>8. \A p \in 1 .. 0 : FALSE
    OBVIOUS
  <2>9. UpTo(replica, <<>>, c, c)
    BY <1>2, <2>2, <2>3, <2>7, <2>8 DEF UpTo
  <2>10. QED
    BY <1>1, <2>2, <2>9
<1>7. (excused => excused') /\ ~(InSnapshot(n)')
  BY <1>1, <1>3
<1>8. QED
  BY <1>1, <1>5, <1>6, <1>7, StreamStep

LEMMA ReceiveSnapshotIInv ==
  ASSUME TypeOK, IInv, StreamsInv', NEW n \in Nodes, NEW r \in Revisions,
         ReceiveSnapshot(n, r)
  PROVE  IInv'
<1> DEFINE c == checkpoint.applied
           new == SnapshotCommands(r, Latest)
<1>1. /\ UNCHANGED <<source, replica, checkpoint, tail, leader, excused, changes>>
      /\ \A m \in Nodes \ {n} : stream'[m] = stream[m]
      /\ stream[n].phase = "snapshot" /\ r \in {Latest, Latest - 1} /\ r > 0
      /\ stream'[n].todo = new /\ stream'[n].since = r
      /\ stream'[n].term = stream[n].term /\ stream'[n].clean = stream[n].clean
  BY DEF ReceiveSnapshot, TypeOK, sourceVars, raftVars
<1>2. /\ tail \in Seq(Command) /\ c \in Nat /\ SourceType /\ Latest \in Nat
      /\ stream[n].todo = <<>>
  BY <1>1, Typed, Parts DEF StreamsInv
<1>3. new \in Seq(Command) /\ Len(new) >= 2 /\ new[1] = [op |-> "clear"]
  <2>1. Latest \in 0 .. Latest
    BY <1>2
  <2>2. QED
    BY <1>2, <2>1, SnapshotCommandsType
<1>4. ~InSnapshot(n)'
  <2> HIDE DEF new
  <2>1. Head(new) = new[1]
    BY <1>3
  <2>2. Head(stream'[n].todo).op = "clear"
    BY <1>1, <1>3, <2>1
  <2>3. QED
    BY <2>2 DEF InSnapshot
<1> HIDE DEF new
<1>5. n = leader => /\ Pending = tail /\ (Own(leader)' <=> Own(leader))
                    /\ Pending' = IF Own(leader) THEN tail \o new ELSE tail
  <2>1. n = leader => Pending = tail
    BY <1>2, Typed
  <2>2. n = leader => (Own(leader)' <=> Own(leader))
    BY <1>1 DEF Own
  <2>3. n = leader => Pending' = tail \o (IF Own(leader) THEN new ELSE <<>>)
    BY <1>1, <2>2 DEF Pending
  <2>4. tail \o <<>> = tail
    BY <1>2, ConcatEmptySeq
  <2>5. QED
    BY <2>1, <2>2, <2>3, <2>4
<1>6. n = leader /\ ~excused' => DataInv(replica, tail, c)
  BY <1>1, <1>5, Parts DEF LogInv
<1>7. DataInv(replica, tail, c) =>
        DataInv(replica, tail \o new, c) /\ UpTo(replica, tail \o new, c, r)
  BY <1>1, <1>2, DataSnapshot DEF new
<1>8. n = leader => (Own(n)' <=> Own(leader))
  <2>1. Own(n)' <=> Own(n)
    BY <1>1 DEF Own
  <2>2. QED
    BY <2>1
<1>9. n = leader /\ ~excused' => DataInv(replica, Pending', c)
  BY <1>5, <1>6, <1>7
<1>10. n = leader /\ ~excused' /\ Own(n)' => UpTo(replica, Pending', c, stream'[n].since)
  BY <1>1, <1>5, <1>6, <1>7, <1>8
<1>11. (excused => excused') /\ ~(InSnapshot(n)')
  BY <1>1, <1>4
<1>12. QED
  BY <1>1, <1>9, <1>10, <1>11, StreamStep

LEMMA ReceiveEventIInv ==
  ASSUME TypeOK, IInv, StreamsInv', NEW n \in Nodes, ReceiveEvent(n)
  PROVE  IInv'
<1> DEFINE c == checkpoint.applied
           s == stream[n].since
           new == EventCommands(s + 1)
<1>1. /\ UNCHANGED <<source, replica, checkpoint, tail, leader, excused, changes>>
      /\ \A m \in Nodes \ {n} : stream'[m] = stream[m]
      /\ stream[n].phase = "events" /\ stream[n].todo = <<>> /\ s + 1 <= Latest
      /\ stream'[n].todo = new /\ stream'[n].since = s + 1
      /\ stream'[n].term = stream[n].term /\ stream'[n].clean = stream[n].clean
  BY DEF ReceiveEvent, TypeOK, sourceVars, raftVars
<1>2. /\ tail \in Seq(Command) /\ c \in Nat /\ s \in Nat /\ SourceType /\ Latest \in Nat
  BY Typed
<1>3. /\ new \in Seq(Command) /\ Len(new) = 2 /\ new[1].op = "put"
      /\ new[2].value.snapshot = 0
  <2>1. s + 1 \in 1 .. Latest
    BY <1>1, <1>2
  <2>2. /\ new \in Seq(Command) /\ Len(new) = 2
        /\ new[1] = Put(source[s + 1].key, At(source[s + 1].key, s + 1))
        /\ new[2] = Mark(s + 1, 0)
    BY <1>2, <2>1, EventCommandsType
  <2> HIDE DEF new
  <2>3. QED
    BY <2>2 DEF Put, Mark
<1>4. ~InSnapshot(n)'
  <2> HIDE DEF new
  <2>1. DOMAIN new = {1, 2}
    BY <1>3
  <2>2. \A i \in DOMAIN new : ~(new[i].op = "checkpoint" /\ new[i].value.snapshot > 0)
    BY <1>3, <2>1
  <2>3. QED
    BY <1>1, <2>2 DEF InSnapshot
<1> HIDE DEF new
<1>5. n = leader => /\ Pending = tail /\ (Own(leader)' <=> Own(leader))
                    /\ Pending' = IF Own(leader) THEN tail \o new ELSE tail
  <2>1. n = leader => Pending = tail
    BY <1>1, Typed
  <2>2. n = leader => (Own(leader)' <=> Own(leader))
    BY <1>1 DEF Own
  <2>3. n = leader => Pending' = tail \o (IF Own(leader) THEN new ELSE <<>>)
    BY <1>1, <2>2 DEF Pending
  <2>4. tail \o <<>> = tail
    BY <1>2, ConcatEmptySeq
  <2>5. QED
    BY <2>1, <2>2, <2>3, <2>4
<1>6. n = leader /\ ~excused' => DataInv(replica, tail, c)
  BY <1>1, <1>5, Parts DEF LogInv
<1>7. n = leader /\ ~excused' /\ Own(leader) => UpTo(replica, tail, c, s)
  BY <1>1, <1>5, Parts DEF LeaderInv
<1>8. DataInv(replica, tail, c) /\ UpTo(replica, tail, c, s) =>
        DataInv(replica, tail \o new, c) /\ UpTo(replica, tail \o new, c, s + 1)
  BY <1>1, <1>2, DataEvent DEF new
<1>9. n = leader => (Own(n)' <=> Own(leader))
  <2>1. Own(n)' <=> Own(n)
    BY <1>1 DEF Own
  <2>2. QED
    BY <2>1
<1>10. n = leader /\ ~excused' => DataInv(replica, Pending', c)
  BY <1>5, <1>6, <1>7, <1>8
<1>11. n = leader /\ ~excused' /\ Own(n)' => UpTo(replica, Pending', c, stream'[n].since)
  BY <1>1, <1>5, <1>6, <1>7, <1>8, <1>9
<1>12. (excused => excused') /\ ~(InSnapshot(n)')
  BY <1>1, <1>4
<1>13. QED
  BY <1>1, <1>10, <1>11, <1>12, StreamStep

\* The stream that has the log to itself sends: what is pending is the same.
LEMMA SendIInv ==
  ASSUME TypeOK, IInv, StreamsInv', NEW n \in Nodes, Send(n)
  PROVE  IInv'
<1> DEFINE todo == stream[n].todo
<1>1. /\ UNCHANGED <<source, replica, checkpoint, leader, changes>>
      /\ \A m \in Nodes \ {n} : stream'[m] = stream[m]
      /\ todo # <<>> /\ stream'[n].todo = Tail(todo)
      /\ stream'[n].since = stream[n].since /\ stream'[n].phase = stream[n].phase
      /\ stream'[n].term = stream[n].term /\ stream'[n].clean = stream[n].clean
      /\ n = leader => tail' = Append(tail, Head(todo))
      /\ excused' = (excused \/ Strays(n))
  BY DEF Send, TypeOK, sourceVars
<1>2. tail \in Seq(Command) /\ todo \in Seq(Command) /\ leader \in Nodes
  BY Typed
<1>3. \A m \in Nodes : Own(m)' <=> Own(m)
  BY <1>1 DEF Own
<1>4. \A m \in Nodes \ {n} : InSnapshot(m)' <=> InSnapshot(m)
  BY <1>1 DEF InSnapshot
<1> HIDE DEF todo
<1>5. ~excused' => ~excused /\ n = leader /\ Own(n)
  <2>1. ~Strays(n) => n = leader /\ Own(n)
    BY DEF Strays, Own
  <2>2. QED
    BY <1>1, <2>1
<1>6. ASSUME ~excused' PROVE Pending' = Pending /\ Own(leader)'
  <2>1. n = leader /\ leader' = n /\ Own(n)
    BY <1>1, <1>5, <1>6
  <2>2. Own(leader) /\ Own(leader)'
    BY <1>1, <2>1 DEF Own
  <2>3. Pending = tail \o todo
    BY <1>1, <2>1, <2>2 DEF Pending, todo
  <2>4. Pending' = Append(tail, Head(todo)) \o Tail(todo)
    BY <1>1, <2>1, <2>2 DEF Pending
  <2>5. QED
    BY <1>1, <1>2, <2>2, <2>3, <2>4, HeadMoved
<1>7. ~excused' => DataInv(replica', Pending', checkpoint'.applied)
  BY <1>1, <1>5, <1>6, Parts DEF LogInv
<1>8. ~excused' /\ Own(leader)' /\ stream'[leader'].phase = "events" =>
        UpTo(replica', Pending', checkpoint'.applied, stream'[leader'].since)
  BY <1>1, <1>5, <1>6, Parts DEF LeaderInv
<1>9. ~excused' => \A m \in Nodes : InSnapshot(m)' => Own(m)'
  BY <1>1, <1>3, <1>4, <1>5, Parts DEF SoloInv
<1>10. source' = source
  BY <1>1
<1>11. QED
  BY <1>7, <1>8, <1>9, <1>10, IInvNext

LEMMA InitIInv == Init => IInv
<1> SUFFICES ASSUME Init PROVE IInv
  OBVIOUS
<1>1. /\ source = <<>> /\ tail = <<>> /\ replica = [k \in Keys |-> 0]
      /\ checkpoint.applied = 0 /\ changes = 0
      /\ \A n \in Nodes : stream[n] = Idle
  BY DEF Init
<1>2. leader \in Nodes
  BY InitTypeOK, Typed
<1>3. Idle.term = 0 /\ Idle.todo = <<>> /\ Idle.phase = "idle"
  BY DEF Idle
<1>4. StreamsInv
  BY <1>1, <1>3 DEF StreamsInv
<1>5. Pending = <<>>
  <2>1. Pending = <<>> \o <<>>
    BY <1>1, <1>2, <1>3 DEF Pending
  <2>2. QED
    BY <2>1
<1>6. Len(<<>>) = 0 /\ Latest = 0
  BY <1>1 DEF Latest
<1>7. \A k \in Keys : At(k, 0) = 0
  BY DEF At
<1>8. DataInv(replica, <<>>, 0)
  <2>1. \A p \in 1 .. 0 : FALSE
    OBVIOUS
  <2>2. MarksInv(replica, <<>>)
    BY <1>6, <2>1 DEF MarksInv
  <2>3. PutsInv(<<>>, 0)
    BY <1>6, <2>1 DEF PutsInv
  <2>4. \A k \in Keys : \E i \in 0 .. Latest : replica[k] = At(k, i)
    BY <1>1, <1>6, <1>7
  <2>5. ClearsInv(replica, <<>>, 0)
    BY <1>6, <2>1, <2>4 DEF ClearsInv
  <2>6. QED
    BY <2>2, <2>3, <2>5 DEF DataInv
<1>9. LogInv /\ LeaderInv /\ SoloInv
  BY <1>1, <1>2, <1>3, <1>5, <1>8 DEF LogInv, LeaderInv, SoloInv, InSnapshot
<1>10. QED
  BY <1>4, <1>9, Parts

LEMMA SameIInv ==
  ASSUME IInv, StreamsInv',
         UNCHANGED <<source, replica, checkpoint, tail, leader, changes, stream, excused>>
  PROVE  IInv'
<1>1. /\ \A n \in Nodes : (Own(n)' <=> Own(n)) /\ (InSnapshot(n)' <=> InSnapshot(n))
      /\ Own(leader)' <=> Own(leader)
  BY DEF Own, InSnapshot
<1>2. Pending' = Pending
  BY <1>1 DEF Pending
<1>3. ~excused' => DataInv(replica', Pending', checkpoint'.applied)
  BY <1>2, Parts DEF LogInv
<1>4. ~excused' /\ Own(leader)' /\ stream'[leader'].phase = "events" =>
        UpTo(replica', Pending', checkpoint'.applied, stream'[leader'].since)
  BY <1>1, <1>2, Parts DEF LeaderInv
<1>5. ~excused' => \A n \in Nodes : InSnapshot(n)' => Own(n)'
  BY <1>1, Parts DEF SoloInv
<1>6. QED
  BY <1>3, <1>4, <1>5, IInvNext

LEMMA NextIInv ==
  ASSUME TypeOK, IInv, [Next]_vars
  PROVE  /\ IInv'
         /\ checkpoint' # checkpoint => excused \/ Covers(checkpoint'.applied)
<1>1. StreamsInv'
  BY Parts, StreamsNext
<1>2. ASSUME NEW k \in Keys, NEW alive \in BOOLEAN, SourceChanges(k, alive)
      PROVE  IInv' /\ checkpoint' = checkpoint
  BY <1>1, <1>2, SourceChangesIInv DEF SourceChanges, raftVars
<1>3. CASE SourceRestarts
  BY <1>1, <1>3, SourceRestartsIInv DEF SourceRestarts, raftVars
<1>4. CASE Commit
  BY <1>1, <1>4, CommitIInv
<1>5. ASSUME NEW n \in Nodes, StepDown(n) PROVE IInv' /\ checkpoint' = checkpoint
  <2>1. /\ UNCHANGED <<source, replica, checkpoint, tail, leader, changes, stream, excused>>
    BY <1>5 DEF StepDown, sourceVars
  <2>2. QED
    BY <1>1, <2>1, SameIInv
<1>6. ASSUME NEW n \in Nodes, NEW kept \in 0 .. Len(tail), ChangeLeader(n, kept)
      PROVE  IInv' /\ checkpoint' = checkpoint
  BY <1>1, <1>6, ChangeLeaderIInv DEF ChangeLeader
<1>7. ASSUME NEW n \in Nodes, StreamFails(n) \/ Restart(n) \/ StreamEnds(n)
      PROVE  IInv' /\ checkpoint' = checkpoint
  BY <1>1, <1>7, DropsIInv DEF StreamFails, Restart, StreamEnds, raftVars
<1>8. ASSUME NEW n \in Nodes, Check(n) PROVE IInv' /\ checkpoint' = checkpoint
  BY <1>1, <1>8, CheckIInv DEF Check, raftVars
<1>9. ASSUME NEW n \in Nodes, OpenStream(n) PROVE IInv' /\ checkpoint' = checkpoint
  BY <1>1, <1>9, OpenStreamIInv DEF OpenStream, raftVars
<1>10. ASSUME NEW n \in Nodes, NEW r \in Revisions, ReceiveSnapshot(n, r)
       PROVE  IInv' /\ checkpoint' = checkpoint
  BY <1>1, <1>10, ReceiveSnapshotIInv DEF ReceiveSnapshot, raftVars
<1>11. ASSUME NEW n \in Nodes, ReceiveEvent(n) PROVE IInv' /\ checkpoint' = checkpoint
  BY <1>1, <1>11, ReceiveEventIInv DEF ReceiveEvent, raftVars
<1>12. ASSUME NEW n \in Nodes, Send(n) PROVE IInv' /\ checkpoint' = checkpoint
  BY <1>1, <1>12, SendIInv DEF Send
<1>13. CASE UNCHANGED vars
  <2>1. /\ UNCHANGED <<source, replica, checkpoint, tail, leader, changes, stream, excused>>
    BY <1>13 DEF vars, sourceVars, raftVars
  <2>2. QED
    BY <1>1, <2>1, SameIInv
<1>14. QED
  BY <1>2, <1>3, <1>4, <1>5, <1>6, <1>7, <1>8, <1>9, <1>10, <1>11, <1>12, <1>13 DEF Next

\* When a checkpoint becomes the cluster's, the replica holds of every instance what
\* the source held at its revision or later: through cut off streams, lost commands,
\* changes of leader and restarts of the source, except where the history variable
\* says that a stream did not have the log to itself or a snapshot was cut off.
THEOREM CheckpointIsCoveredAlways == Spec => CheckpointIsCovered
<1>1. TypeOK /\ IInv /\ [Next]_vars =>
        IInv' /\ (checkpoint' # checkpoint => excused \/ Covers(checkpoint'.applied))
  BY NextIInv
<1>2. Init /\ [][Next]_vars => CheckpointIsCovered
  <2>1. Init /\ [][Next]_vars => [](TypeOK /\ IInv)
    BY <1>1, InitTypeOK, NextTypeOK, InitIInv, PTL
  <2>2. TypeOK /\ IInv /\ [Next]_vars =>
          [checkpoint' # checkpoint => excused \/ Covers(checkpoint'.applied)]_vars
    BY <1>1
  <2>3. QED
    BY <2>1, <2>2, PTL DEF CheckpointIsCovered
<1>3. QED
  BY <1>2, PTL DEF Spec

=============================================================================
