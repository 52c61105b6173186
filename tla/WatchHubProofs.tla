--------------------------- MODULE WatchHubProofs ---------------------------
(***************************************************************************)
(* Proofs about WatchHub, for every number of streams and revisions and    *)
(* every capacity of readyCh, of the window and of the channels.           *)
(***************************************************************************)
EXTENDS WatchHub, SequenceTheorems, NaturalsInduction, WellFoundedInduction, TLAPS

-----------------------------------------------------------------------------
\* The inductive invariant.

\* The last entry that forwardReadyLoop has taken from readyCh.
Seen == applied - Len(readyCh)

\* Nothing is missing between forwardReadyLoop and the last applied entry.
ReadyInv ==
  /\ Len(readyCh) <= applied
  /\ \A i \in 1 .. Len(readyCh) : readyCh[i] = Seen + i

\* The window holds, in order, the newest events that forwardReadyLoop has seen.
HistoryInv ==
  /\ \A i \in 1 .. Len(history) : history[i] \in events /\ history[i] <= Seen
  /\ \A i, j \in 1 .. Len(history) : i < j => history[i] < history[j]
  /\ \A e \in events : e <= Seen =>
       /\ Len(history) > 0
       /\ e >= history[1] => \E i \in 1 .. Len(history) : history[i] = e

\* Publish sends its event to watchers that it copied, and to each once.
PublishInv ==
  /\ pub = "send" => event \in events /\ event <= Seen
  /\ pub # "send" => targets = {}
  /\ pub = "idle" => slow = {}
  /\ targets \cap slow = {} /\ watchers \cap closed = {}
  /\ targets \cup slow \subseteq watchers \cup closed

\* A channel holds, in order, events that were published.
ChannelInv ==
  \A s \in Streams :
    /\ \A i \in 1 .. Len(chan[s]) : /\ chan[s][i] \in events /\ chan[s][i] <= Seen
                                    /\ s \in targets => chan[s][i] < event
    /\ \A i, j \in 1 .. Len(chan[s]) : i < j => chan[s][i] < chan[s][j]

\* A stream that follows the hub is or was one of its watchers.
FollowInv ==
  \A s \in Streams :
    /\ pc[s] = "new" => s \notin watchers \cup closed /\ chan[s] = <<>>
    /\ pc[s] \in {"snapshot", "scan", "live"} => s \in watchers \cup closed
    /\ pc[s] \in {"scan", "live"} => current[s] <= applied \/ current[s] <= base[s]

\* Event e is on its way to stream s, or s will be told that it missed events.
Coming(s, e) ==
  \/ \E i \in 1 .. Len(chan[s]) : chan[s][i] = e
  \/ e > Seen
  \/ pub = "send" /\ e = event /\ s \in targets
  \/ s \in closed \cup slow /\ \A i \in 1 .. Len(chan[s]) : chan[s][i] < e

OwedInv ==
  \A s \in Streams : pc[s] \in {"scan", "live"} /\ ~panicked =>
    \A e \in events : base[s] < e /\ current[s] < e => Coming(s, e)

IInv == ReadyInv /\ HistoryInv /\ PublishInv /\ ChannelInv /\ FollowInv
        /\ OwedInv /\ NoGap

-----------------------------------------------------------------------------
\* Facts about the sequences.

LEMMA ConstantsType ==
  /\ MaxRevision \in Nat
  /\ ReadyBuffer \in Nat /\ ReadyBuffer >= 1
  /\ HistoryCap \in Nat /\ HistoryCap >= 1 /\ Buffer \in Nat /\ Buffer >= 1
BY ConstantsAssumption

\* One element more at the end of a queue, or one less at its head.
LEMMA QueueProperties ==
  ASSUME NEW S, NEW q \in Seq(S), NEW e \in S
  PROVE  /\ Len(q) \in Nat /\ \A i \in 1 .. Len(q) : q[i] \in S
         /\ Append(q, e) \in Seq(S) /\ Len(Append(q, e)) = Len(q) + 1
         /\ \A i \in 1 .. Len(q) : Append(q, e)[i] = q[i]
         /\ Append(q, e)[Len(q) + 1] = e
         /\ q # <<>> => /\ Len(q) >= 1 /\ Head(q) = q[1]
                        /\ Tail(q) \in Seq(S) /\ Len(Tail(q)) = Len(q) - 1
                        /\ \A i \in 1 .. Len(Tail(q)) : Tail(q)[i] = q[i + 1]
OBVIOUS

\* The window ends with the new event and has lost at most its oldest one.
LEMMA RecordedProperties ==
  ASSUME NEW hist \in Seq(Revision), Len(hist) <= HistoryCap, NEW rev \in Revision
  PROVE  /\ Recorded(hist, rev) \in Seq(Revision)
         /\ Len(Recorded(hist, rev)) <= HistoryCap
         /\ \E d \in {0, 1} :
              /\ Len(Recorded(hist, rev)) = Len(hist) + 1 - d
              /\ Len(hist) + 1 - d >= 1
              /\ \A i \in 1 .. Len(hist) - d : Recorded(hist, rev)[i] = hist[i + d]
              /\ Recorded(hist, rev)[Len(hist) + 1 - d] = rev
<1> DEFINE all == Append(hist, rev)
<1>1. /\ Len(hist) \in Nat /\ all \in Seq(Revision) /\ Len(all) = Len(hist) + 1
      /\ \A i \in 1 .. Len(hist) : all[i] = hist[i]
      /\ all[Len(hist) + 1] = rev
      /\ HistoryCap \in Nat /\ HistoryCap >= 1
  BY QueueProperties, ConstantsType
<1>2. Recorded(hist, rev) = IF Len(all) > HistoryCap
                            THEN SubSeq(all, Len(all) - HistoryCap + 1, Len(all))
                            ELSE all
  BY DEF Recorded
<1> HIDE DEF all
<1>3. CASE Len(all) > HistoryCap
  <2>1. Len(hist) = HistoryCap /\ Len(all) - HistoryCap + 1 = 2
    BY <1>1, <1>3
  <2>2. Recorded(hist, rev) = SubSeq(all, 2, Len(all))
    BY <1>2, <1>3, <2>1
  <2>3. \A i \in 2 .. Len(all) : all[i] \in Revision
    BY <1>1
  <2>4. /\ SubSeq(all, 2, Len(all)) \in Seq(Revision)
        /\ Len(SubSeq(all, 2, Len(all))) =
             (IF 2 <= Len(all) THEN Len(all) - 2 + 1 ELSE 0)
        /\ \A i \in 1 .. Len(all) - 2 + 1 : SubSeq(all, 2, Len(all))[i] = all[2 + i - 1]
    BY <1>1, <2>3, SubSeqProperties
  <2>5. /\ Recorded(hist, rev) \in Seq(Revision)
        /\ Len(Recorded(hist, rev)) = HistoryCap
        /\ \A i \in 1 .. HistoryCap : Recorded(hist, rev)[i] = all[i + 1]
    <3>1. Len(all) = HistoryCap + 1
      BY <1>1, <2>1
    <3>2. Len(all) - 2 + 1 = HistoryCap /\ 2 <= Len(all)
      BY <1>1, <3>1
    <3>3. \A i \in 1 .. HistoryCap : 2 + i - 1 = i + 1
      OBVIOUS
    <3>4. \A i \in 1 .. HistoryCap : SubSeq(all, 2, Len(all))[i] = all[i + 1]
      BY <2>4, <3>2, <3>3
    <3>5. QED
      BY <2>2, <2>4, <3>2, <3>4
  <2>6. \A i \in 1 .. Len(hist) - 1 : Recorded(hist, rev)[i] = hist[i + 1]
    BY <1>1, <2>1, <2>5
  <2>7. Recorded(hist, rev)[Len(hist)] = rev
    BY <1>1, <2>1, <2>5
  <2>8. QED
    BY <1>1, <2>1, <2>5, <2>6, <2>7
<1>4. CASE ~(Len(all) > HistoryCap)
  BY <1>1, <1>2, <1>4
<1>5. QED
  BY <1>3, <1>4

\* Max is defined on every set of positions.
LEMMA HasGreatest ==
  ASSUME NEW m \in Nat, NEW S \in SUBSET (0 .. m), S # {}
  PROVE  \E e \in S : \A s \in S : e >= s
<1> DEFINE T == {m - s : s \in S}
<1>1. T \subseteq Nat /\ T # {}
  <2>1. \A s \in S : m - s \in Nat
    OBVIOUS
  <2>2. PICK s \in S : TRUE
    OBVIOUS
  <2>3. m - s \in T
    BY <2>2
  <2>4. QED
    BY <2>1, <2>3
<1>2. \E n \in T : \A l \in T : ~(<<l, n>> \in OpToRel(<, Nat))
  <2> HIDE DEF T
  <2>1. QED
    BY <1>1, NatLessThanWellFounded, WFMin
<1>3. PICK n \in T : \A l \in T : ~(l < n)
  <2> HIDE DEF T
  <2>1. QED
    BY <1>1, <1>2 DEF OpToRel
<1>4. PICK e \in S : n = m - e
  BY <1>3
<1>5. ASSUME NEW s \in S PROVE e >= s
  <2>1. m - s \in T
    OBVIOUS
  <2>2. ~(m - s < m - e)
    <3> HIDE DEF T
    <3>1. QED
      BY <1>3, <1>4, <2>1
  <2>3. m \in Int /\ e \in Int /\ s \in Int
    OBVIOUS
  <2> HIDE DEF T
  <2>4. QED
    BY <2>2, <2>3
<1> HIDE DEF T
<1>6. QED
  BY <1>5

LEMMA LastReplayed ==
  ASSUME NEW rev, history \in Seq(Revision), Replayed(rev) # {}
  PROVE  /\ Max(Replayed(rev)) \in 1 .. Len(history)
         /\ history[Max(Replayed(rev))] > rev
         /\ \A i \in 1 .. Len(history) : history[i] > rev => i <= Max(Replayed(rev))
<1>1. Len(history) \in Nat /\ DOMAIN history = 1 .. Len(history)
  OBVIOUS
<1>2. Replayed(rev) \in SUBSET (0 .. Len(history))
  BY <1>1 DEF Replayed
<1>3. \E e \in Replayed(rev) : \A s \in Replayed(rev) : e >= s
  BY <1>1, <1>2, HasGreatest
<1>4. /\ Max(Replayed(rev)) \in Replayed(rev)
      /\ \A s \in Replayed(rev) : Max(Replayed(rev)) >= s
  BY <1>3 DEF Max
<1>5. QED
  BY <1>1, <1>4 DEF Replayed

-----------------------------------------------------------------------------
\* Type correctness.

\* What is published is a revision.
TypeInv == TypeOK /\ (pub = "send" => event \in Revision)


LEMMA NextTypeInv == TypeInv /\ [Next]_vars => TypeInv'
<1> SUFFICES ASSUME TypeInv, [Next]_vars PROVE TypeInv'
  OBVIOUS
<1>0. /\ MaxRevision \in Nat /\ ReadyBuffer \in Nat /\ Buffer \in Nat
      /\ applied \in Int /\ 0 <= applied /\ applied <= MaxRevision
      /\ readyCh \in Seq(Revision) /\ history \in Seq(Revision)
      /\ \A s \in Streams : chan[s] \in Seq(Revision) /\ Len(chan[s]) <= Buffer
      /\ \A s \in Streams : got[s] \subseteq Revision
      /\ events \subseteq Revision
  BY ConstantsType DEF TypeInv, TypeOK, Revision
<1>1. ASSUME NEW isEvent \in BOOLEAN, Apply(isEvent) PROVE TypeInv'
  <2>1. applied + 1 \in Revision
    BY <1>0, <1>1 DEF Apply, Revision
  <2>2. readyCh' \in Seq(Revision) /\ Len(readyCh') <= ReadyBuffer
    BY <1>0, <1>1, <2>1, QueueProperties DEF Apply, TypeInv, TypeOK
  <2>3. applied' \in 0 .. MaxRevision /\ events' \subseteq 1 .. applied'
    BY <1>0, <1>1, <2>1 DEF Apply, TypeInv, TypeOK, Revision
  <2>4. QED
    BY <1>1, <2>2, <2>3 DEF Apply, TypeInv, TypeOK, hubVars, pubVars, streamVars
<1>2. CASE SkipReady
  <2>1. readyCh' \in Seq(Revision) /\ Len(readyCh') <= ReadyBuffer
    BY <1>0, <1>2 DEF SkipReady, TypeInv, TypeOK
  <2>2. QED
    BY <1>2, <2>1 DEF SkipReady, TypeInv, TypeOK, hubVars, pubVars, streamVars
<1>3. CASE PublishBegin
  <2>1. /\ readyCh' \in Seq(Revision) /\ Len(readyCh') <= ReadyBuffer
        /\ Head(readyCh) \in Revision
    BY <1>0, <1>3 DEF PublishBegin, TypeInv, TypeOK
  <2>2. history' \in Seq(Revision) /\ Len(history') <= HistoryCap
    BY <1>3, <2>1, RecordedProperties DEF PublishBegin, TypeInv, TypeOK
  <2>3. event' \in 0 .. MaxRevision
    BY <1>0, <1>3, <2>1 DEF PublishBegin, Revision
  <2>4. QED
    BY <1>3, <2>1, <2>2, <2>3 DEF PublishBegin, TypeInv, TypeOK, streamVars
<1>4. ASSUME NEW s \in Streams, PublishSend(s) PROVE TypeInv'
  <2>1. /\ chan' \in [Streams -> Seq(Revision)]
        /\ \A t \in Streams : Len(chan'[t]) <= Buffer
    <3>1. CASE s \notin closed /\ Len(chan[s]) < Buffer
      <4>1. chan' = [chan EXCEPT ![s] = Append(@, event)]
        BY <1>4, <3>1 DEF PublishSend
      <4>2. event \in Revision
        BY <1>4 DEF PublishSend, TypeInv
      <4>3. Append(chan[s], event) \in Seq(Revision) /\ Len(Append(chan[s], event)) <= Buffer
        BY <1>0, <3>1, <4>2
      <4>4. QED
        BY <1>0, <4>1, <4>3 DEF TypeInv, TypeOK
    <3>2. CASE ~(s \notin closed /\ Len(chan[s]) < Buffer)
      BY <1>4, <3>2 DEF PublishSend, TypeInv, TypeOK
    <3>3. QED
      BY <3>1, <3>2
  <2>2. QED
    BY <1>4, <2>1 DEF PublishSend, TypeInv, TypeOK, nodeVars, streamVars
<1>5. CASE PublishSent
  BY <1>5 DEF PublishSent, TypeInv, TypeOK, nodeVars, hubVars, streamVars
<1>6. CASE PublishClose
  BY <1>6 DEF PublishClose, TypeInv, TypeOK, nodeVars, streamVars
<1>7. ASSUME NEW s \in Streams, NEW rev \in 0 .. MaxRevision,
             NEW includeSnapshot \in BOOLEAN, Subscribe(s, rev, includeSnapshot)
      PROVE  TypeInv'
  <2>1. LastPublished \in 0 .. MaxRevision
    <3>1. CASE history = <<>>
      BY <1>0, <3>1 DEF LastPublished
    <3>2. CASE history # <<>>
      <4>1. Len(history) \in 1 .. Len(history)
        BY <1>0, <3>2
      <4>2. history[Len(history)] \in Revision
        BY <1>0, <4>1
      <4>3. QED
        BY <1>0, <3>2, <4>2 DEF LastPublished, Last, Revision
    <3>3. QED
      BY <3>1, <3>2
  <2>2. Replayed(rev) # {} => history[Max(Replayed(rev))] \in Revision
    BY <1>0, LastReplayed
  <2>3. {history[i] : i \in Replayed(rev)} \subseteq Revision
    BY <1>0 DEF Replayed
  <2>4. Revision \subseteq 0 .. MaxRevision
    BY <1>0 DEF Revision
  <2>5. current' \in [Streams -> 0 .. MaxRevision]
    <3>1. \E c \in 0 .. MaxRevision : current' = [current EXCEPT ![s] = c]
      BY <1>7, <2>2, <2>4 DEF Subscribe
    <3>2. QED
      BY <3>1 DEF TypeInv, TypeOK
  <2>6. base' \in [Streams -> 0 .. MaxRevision] /\ since' \in [Streams -> 0 .. MaxRevision]
    BY <1>7, <2>1 DEF Subscribe, TypeInv, TypeOK
  <2>7. got' \in [Streams -> SUBSET Revision]
    <3>1. \E g \in SUBSET Revision : got' = [got EXCEPT ![s] = g]
      BY <1>7, <2>3 DEF Subscribe
    <3>2. QED
      BY <3>1 DEF TypeInv, TypeOK
  <2>8. pc' \in [Streams -> {"new", "snapshot", "scan", "live", "gone", "ended"}]
    <3>1. \E p \in {"live", "snapshot", "gone"} : pc' = [pc EXCEPT ![s] = p]
      BY <1>7 DEF Subscribe
    <3>2. QED
      BY <3>1 DEF TypeInv, TypeOK
  <2>9. watchers' \subseteq Streams
    BY <1>7 DEF Subscribe, TypeInv, TypeOK
  <2>10. /\ UNCHANGED <<applied, events, readyCh, history, chan, closed, pub, event,
                        targets, slow, panicked>>
    BY <1>7 DEF Subscribe, nodeVars, pubVars
  <2>11. QED
    BY <2>5, <2>6, <2>7, <2>8, <2>9, <2>10 DEF TypeInv, TypeOK
<1>8. ASSUME NEW s \in Streams, SnapshotRevision(s) \/ SnapshotScan(s) PROVE TypeInv'
  <2>1. CASE SnapshotRevision(s)
    BY <1>0, <2>1 DEF SnapshotRevision, TypeInv, TypeOK, nodeVars, hubVars, pubVars
  <2>2. CASE SnapshotScan(s)
    BY <1>0, <2>2 DEF SnapshotScan, TypeInv, TypeOK, nodeVars, hubVars, pubVars
  <2>3. QED
    BY <1>8, <2>1, <2>2
<1>9. ASSUME NEW s \in Streams, Receive(s) PROVE TypeInv'
  <2>1. /\ Head(chan[s]) \in Revision /\ Tail(chan[s]) \in Seq(Revision)
        /\ Len(Tail(chan[s])) <= Buffer
    BY <1>0, <1>9 DEF Receive
  <2>2. chan' \in [Streams -> Seq(Revision)] /\ \A t \in Streams : Len(chan'[t]) <= Buffer
    BY <1>0, <1>9, <2>1 DEF Receive, TypeInv, TypeOK
  <2>3. current' \in [Streams -> 0 .. MaxRevision] /\ got' \in [Streams -> SUBSET Revision]
    <3>1. Head(chan[s]) \in 0 .. MaxRevision
      BY <1>0, <2>1 DEF Revision
    <3>2. current \in [Streams -> 0 .. MaxRevision] /\ got \in [Streams -> SUBSET Revision]
      BY DEF TypeInv, TypeOK
    <3>3. got[s] \cup {Head(chan[s])} \in SUBSET Revision
      BY <2>1, <3>2
    <3>4. CASE Head(chan[s]) > current[s]
      BY <1>9, <3>1, <3>2, <3>3, <3>4 DEF Receive
    <3>5. CASE ~(Head(chan[s]) > current[s])
      BY <1>9, <3>2, <3>5 DEF Receive
    <3>6. QED
      BY <3>4, <3>5
  <2>4. QED
    BY <1>9, <2>2, <2>3 DEF Receive, TypeInv, TypeOK, nodeVars, pubVars
<1>10. ASSUME NEW s \in Streams, Drained(s) \/ Unsubscribe(s) PROVE TypeInv'
  BY <1>10 DEF Drained, Unsubscribe, TypeInv, TypeOK, nodeVars, hubVars, pubVars
<1>11. CASE UNCHANGED vars
  BY <1>11 DEF vars, TypeInv, TypeOK, nodeVars, hubVars, pubVars, streamVars
<1>12. QED
  BY <1>1, <1>2, <1>3, <1>4, <1>5, <1>6, <1>7, <1>8, <1>9, <1>10, <1>11
     DEF Next, HubStep, StreamStep

LEMMA InitTypeInv == Init => TypeInv
<1> SUFFICES ASSUME Init PROVE TypeInv
  OBVIOUS
<1>1. <<>> \in Seq(Revision) /\ Len(<<>>) = 0
  OBVIOUS
<1>2. /\ readyCh \in Seq(Revision) /\ Len(readyCh) <= ReadyBuffer
      /\ history \in Seq(Revision) /\ Len(history) <= HistoryCap
  BY <1>1, ConstantsType DEF Init
<1>3. chan \in [Streams -> Seq(Revision)] /\ \A s \in Streams : Len(chan[s]) <= Buffer
  BY <1>1, ConstantsType DEF Init
<1>4. /\ applied \in 0 .. MaxRevision /\ events \subseteq 1 .. applied
      /\ event \in 0 .. MaxRevision
      /\ watchers \subseteq Streams /\ closed \subseteq Streams
      /\ targets \subseteq Streams /\ slow \subseteq Streams
  BY ConstantsType DEF Init
<1>5. /\ pc \in [Streams -> {"new", "snapshot", "scan", "live", "gone", "ended"}]
      /\ since \in [Streams -> 0 .. MaxRevision]
      /\ current \in [Streams -> 0 .. MaxRevision]
      /\ base \in [Streams -> 0 .. MaxRevision]
      /\ got \in [Streams -> SUBSET Revision]
  BY ConstantsType DEF Init
<1>6. QED
  BY <1>2, <1>3, <1>4, <1>5 DEF Init, TypeInv, TypeOK

\* Every reachable state of the hub and its streams has its variables in their
\* types; in particular no queue outgrows its capacity.
THEOREM TypeCorrect == Spec => []TypeOK
<1>1. Init => TypeInv
  BY InitTypeInv
<1>2. TypeInv /\ [Next]_vars => TypeInv'
  BY NextTypeInv
<1>3. TypeInv => TypeOK
  BY DEF TypeInv
<1>4. QED
  BY <1>1, <1>2, <1>3, PTL DEF Spec

-----------------------------------------------------------------------------
\* The invariant, as long as emitReady drops nothing.

\* What the types say about numbers.
LEMMA Numbers ==
  ASSUME TypeInv
  PROVE  /\ applied \in Nat /\ Len(readyCh) \in Nat /\ Len(history) \in Nat
         /\ Seen \in Int
         /\ \A e \in events : e \in Nat /\ 1 <= e /\ e <= applied
         /\ \A i \in 1 .. Len(history) : history[i] \in Nat
         /\ event \in Nat
         /\ \A s \in Streams :
              /\ chan[s] \in Seq(Revision) /\ Len(chan[s]) \in Nat
              /\ \A i \in 1 .. Len(chan[s]) : chan[s][i] \in Nat
              /\ current[s] \in Nat /\ base[s] \in Nat
<1>1. /\ applied \in Nat /\ Revision \subseteq Nat /\ 0 .. MaxRevision \subseteq Nat
      /\ readyCh \in Seq(Revision) /\ history \in Seq(Revision)
      /\ events \subseteq 1 .. applied /\ event \in 0 .. MaxRevision
  BY ConstantsType DEF TypeInv, TypeOK, Revision
<1>2. \A s \in Streams : /\ chan[s] \in Seq(Revision)
                         /\ current[s] \in 0 .. MaxRevision /\ base[s] \in 0 .. MaxRevision
  BY DEF TypeInv, TypeOK
<1>3. \A q \in Seq(Revision) : Len(q) \in Nat /\ \A i \in 1 .. Len(q) : q[i] \in Revision
  OBVIOUS
<1>4. Seen \in Int
  BY <1>1, <1>3 DEF Seen
<1>5. \A e \in events : e \in Nat /\ 1 <= e /\ e <= applied
  BY <1>1
<1>6. \A s \in Streams :
        /\ \A i \in 1 .. Len(chan[s]) : chan[s][i] \in Nat
        /\ current[s] \in Nat /\ base[s] \in Nat
  BY <1>1, <1>2, <1>3
<1>7. \A i \in 1 .. Len(history) : history[i] \in Nat
  BY <1>1, <1>3
<1>8. event \in Nat
  BY <1>1
<1>9. QED
  BY <1>1, <1>2, <1>3, <1>4, <1>5, <1>6, <1>7, <1>8

LEMMA ApplyKeeps ==
  ASSUME TypeInv, IInv, NEW isEvent \in BOOLEAN, Apply(isEvent),
         Len(readyCh) < ReadyBuffer
  PROVE  IInv'
<1>1. /\ applied' = applied + 1 /\ readyCh' = Append(readyCh, applied + 1)
      /\ events \subseteq events' /\ events' \subseteq events \cup {applied + 1}
      /\ UNCHANGED <<history, watchers, chan, closed, pub, event, targets, slow,
                     panicked, pc, since, current, base, got>>
  BY DEF Apply, hubVars, pubVars, streamVars
<1>2. /\ applied \in Nat /\ Len(readyCh) \in Nat /\ applied + 1 \in Revision
      /\ readyCh \in Seq(Revision)
  BY Numbers, ConstantsType DEF Apply, TypeInv, TypeOK, Revision
<1>3. /\ Len(readyCh') = Len(readyCh) + 1
      /\ \A i \in 1 .. Len(readyCh) : readyCh'[i] = readyCh[i]
      /\ readyCh'[Len(readyCh) + 1] = applied + 1
  BY <1>1, <1>2, QueueProperties
<1>4. Seen' = Seen /\ Seen \in Nat /\ Seen < applied + 1 /\ Seen + Len(readyCh) = applied
  BY <1>1, <1>2, <1>3 DEF Seen, IInv, ReadyInv
<1>5. ReadyInv'
  BY <1>1, <1>2, <1>3, <1>4 DEF IInv, ReadyInv
<1>6. HistoryInv'
  BY <1>1, <1>4, Numbers DEF IInv, HistoryInv
<1>7. PublishInv' /\ ChannelInv'
  BY <1>1, <1>4 DEF IInv, PublishInv, ChannelInv
<1>8. FollowInv'
  BY <1>1, <1>2, Numbers DEF IInv, FollowInv
<1>9. OwedInv'
  BY <1>1, <1>4 DEF IInv, OwedInv, Coming
<1>10. NoGap'
  BY <1>1, <1>2, Numbers DEF IInv, NoGap, FollowInv
<1>11. QED
  BY <1>5, <1>6, <1>7, <1>8, <1>9, <1>10 DEF IInv

\* forwardReadyLoop takes the entry after the last one it has seen.
LEMMA TakesNext ==
  ASSUME TypeInv, IInv, readyCh # <<>>, readyCh' = Tail(readyCh), applied' = applied
  PROVE  /\ Head(readyCh) = Seen + 1 /\ Seen' = Seen + 1 /\ Seen \in Nat
         /\ Seen' <= applied /\ Head(readyCh) \in Revision
         /\ ReadyInv'
<1>1. /\ Len(readyCh) \in Nat /\ Len(readyCh) >= 1 /\ Head(readyCh) = readyCh[1]
      /\ Len(Tail(readyCh)) = Len(readyCh) - 1 /\ Head(readyCh) \in Revision
      /\ \A i \in 1 .. Len(Tail(readyCh)) : Tail(readyCh)[i] = readyCh[i + 1]
  BY QueueProperties DEF TypeInv, TypeOK
<1>2. /\ applied \in Nat /\ Len(readyCh) <= applied
      /\ \A i \in 1 .. Len(readyCh) : readyCh[i] = Seen + i
  BY Numbers DEF IInv, ReadyInv
<1>3. Seen' = Seen + 1 /\ Seen \in Nat /\ Seen' <= applied
  BY <1>1, <1>2 DEF Seen
<1>4. Head(readyCh) = Seen + 1
  BY <1>1, <1>2
<1>5. Len(readyCh') <= applied' /\ \A i \in 1 .. Len(readyCh') : readyCh'[i] = Seen' + i
  BY <1>1, <1>2, <1>3
<1>6. QED
  BY <1>1, <1>3, <1>4, <1>5 DEF ReadyInv

LEMMA SkipReadyKeeps ==
  ASSUME TypeInv, IInv, SkipReady
  PROVE  IInv'
<1>1. /\ readyCh # <<>> /\ readyCh' = Tail(readyCh) /\ Head(readyCh) \notin events
      /\ pub = "idle"
      /\ UNCHANGED <<applied, events, history, watchers, chan, closed, pub, event,
                     targets, slow, panicked, pc, since, current, base, got>>
  BY DEF SkipReady, hubVars, pubVars, streamVars
<1>2. /\ Head(readyCh) = Seen + 1 /\ Seen' = Seen + 1 /\ Seen \in Nat
      /\ ReadyInv'
  BY <1>1, TakesNext
<1>3. \A e \in events : e \in Nat /\ (e <= Seen' <=> e <= Seen)
  BY <1>1, <1>2, Numbers
<1>4. HistoryInv'
  BY <1>1, <1>3 DEF IInv, HistoryInv
<1>5. PublishInv'
  BY <1>1, <1>3 DEF IInv, PublishInv
<1>6. ChannelInv'
  BY <1>1, <1>3 DEF IInv, ChannelInv
<1>7. FollowInv' /\ NoGap'
  BY <1>1 DEF IInv, FollowInv, NoGap
<1>8. OwedInv'
  <2>1. \A e \in events : e > Seen => e > Seen'
    BY <1>2, <1>3
  <2>2. QED
    BY <1>1, <2>1 DEF IInv, OwedInv, Coming
<1>9. QED
  BY <1>2, <1>4, <1>5, <1>6, <1>7, <1>8 DEF IInv

LEMMA PublishBeginKeeps ==
  ASSUME TypeInv, IInv, PublishBegin
  PROVE  IInv'
<1>1. /\ readyCh # <<>> /\ readyCh' = Tail(readyCh) /\ Head(readyCh) \in events
      /\ history' = Recorded(history, Head(readyCh))
      /\ event' = Head(readyCh) /\ pub = "idle" /\ pub' = "send"
      /\ targets' = watchers /\ slow' = {}
      /\ UNCHANGED <<applied, events, watchers, chan, closed, panicked, pc, since,
                     current, base, got>>
  BY DEF PublishBegin, streamVars
<1>2. /\ event' = Seen + 1 /\ Seen' = Seen + 1 /\ Seen \in Nat /\ Seen' <= applied
      /\ event' \in Revision /\ ReadyInv'
  BY <1>1, TakesNext
<1>3. HistoryInv'
  <2>1. PICK d \in {0, 1} :
          /\ Len(history') = Len(history) + 1 - d
          /\ Len(history) + 1 - d >= 1
          /\ \A i \in 1 .. Len(history) - d : history'[i] = history[i + d]
          /\ history'[Len(history) + 1 - d] = event'
    <3>1. Head(readyCh) \in Revision
      BY <1>1, <1>2
    <3>2. history \in Seq(Revision) /\ Len(history) <= HistoryCap
      BY DEF TypeInv, TypeOK
    <3>3. PICK d \in {0, 1} :
            LET w == Recorded(history, Head(readyCh))
            IN  /\ Len(w) = Len(history) + 1 - d
                /\ Len(history) + 1 - d >= 1
                /\ \A i \in 1 .. Len(history) - d : w[i] = history[i + d]
                /\ w[Len(history) + 1 - d] = Head(readyCh)
      BY <3>1, <3>2, RecordedProperties
    <3>4. QED
      BY <1>1, <3>3
  <2> DEFINE n == Len(history)
  <2>2. /\ n \in Nat /\ \A i \in 1 .. n : history[i] \in Nat
        /\ \A i \in 1 .. n : history[i] \in events /\ history[i] <= Seen
        /\ \A i, j \in 1 .. n : i < j => history[i] < history[j]
        /\ \A e \in events : e <= Seen =>
             n > 0 /\ (e >= history[1] => \E i \in 1 .. n : history[i] = e)
    BY Numbers DEF IInv, HistoryInv
  <2>3. \A i \in 1 .. n + 1 - d : \/ i \in 1 .. n - d /\ i + d \in 1 .. n
                                  \/ i = n + 1 - d
    BY <2>2
  <2>4. ASSUME NEW i \in 1 .. n + 1 - d
        PROVE  history'[i] \in events /\ history'[i] <= Seen'
    <3>1. CASE i = n + 1 - d
      BY <1>1, <1>2, <2>1, <3>1
    <3>2. CASE i \in 1 .. n - d /\ i + d \in 1 .. n
      BY <1>2, <2>1, <2>2, <3>2
    <3>3. QED
      BY <2>3, <3>1, <3>2
  <2>5. \A i, j \in 1 .. n + 1 - d : i < j => history'[i] < history'[j]
    <3>1. SUFFICES ASSUME NEW i \in 1 .. n + 1 - d, NEW j \in 1 .. n + 1 - d, i < j
                   PROVE  history'[i] < history'[j]
      OBVIOUS
    <3>2. i \in 1 .. n - d /\ i + d \in 1 .. n
      BY <2>2, <3>1
    <3>3. CASE j = n + 1 - d
      BY <1>2, <2>1, <2>2, <3>2, <3>3
    <3>4. CASE j \in 1 .. n - d /\ j + d \in 1 .. n
      <4>1. i + d < j + d
        BY <3>1, <3>2, <3>4
      <4>2. QED
        BY <2>1, <2>2, <3>2, <3>4, <4>1
    <3>5. QED
      BY <2>3, <3>3, <3>4
  <2>6. ASSUME NEW e \in events, e <= Seen', e >= history'[1]
        PROVE  \E i \in 1 .. n + 1 - d : history'[i] = e
    <3>1. CASE e = event'
      BY <2>1, <2>2, <3>1
    <3>2. CASE e # event'
      <4>1. e <= Seen /\ e \in Nat
        BY <1>2, <2>6, <3>2, Numbers
      <4>2. n > 0 /\ n - d >= 1
        <5>1. n > 0
          BY <2>2, <4>1
        <5>2. CASE n - d = 0
          <6>1. history'[1] = event'
            BY <2>1, <2>2, <5>2
          <6>2. QED
            BY <1>2, <2>6, <4>1, <6>1
        <5>3. QED
          BY <2>1, <2>2, <5>1, <5>2
      <4>3. history'[1] = history[1 + d] /\ 1 + d \in 1 .. n
        BY <2>1, <2>2, <4>2
      <4>4. history[1] <= history[1 + d] /\ history[1] \in Nat /\ history[1 + d] \in Nat
        BY <2>2, <4>2, <4>3
      <4>5. PICK k \in 1 .. n : history[k] = e
        BY <2>2, <2>6, <4>1, <4>3, <4>4
      <4>6. ~(k < 1 + d)
        BY <2>2, <2>6, <4>1, <4>3, <4>5
      <4>7. k - d \in 1 .. n - d /\ k - d \in 1 .. n + 1 - d /\ k - d + d = k
        BY <2>1, <2>2, <4>6
      <4>8. QED
        BY <2>1, <4>5, <4>7
    <3>3. QED
      BY <3>1, <3>2
  <2>7. Len(history') = n + 1 - d /\ Len(history') > 0 /\ events' = events
    BY <1>1, <2>1, <2>2
  <2> HIDE DEF n
  <2>8. QED
    BY <2>4, <2>5, <2>6, <2>7 DEF HistoryInv
<1>4. PublishInv'
  BY <1>1, <1>2 DEF IInv, PublishInv
<1>5. ChannelInv'
  <2> SUFFICES ASSUME NEW s \in Streams, NEW i \in 1 .. Len(chan[s])
               PROVE  /\ chan[s][i] \in events' /\ chan[s][i] <= Seen'
                      /\ s \in targets' => chan[s][i] < event'
                      /\ \A j \in 1 .. Len(chan[s]) : i < j => chan[s][i] < chan[s][j]
    BY <1>1, Zenon DEF ChannelInv
  <2>1. /\ chan[s][i] \in events /\ chan[s][i] <= Seen
        /\ \A j \in 1 .. Len(chan[s]) : i < j => chan[s][i] < chan[s][j]
    BY DEF IInv, ChannelInv
  <2>2. chan[s][i] \in Nat /\ Seen \in Int
    BY Numbers
  <2>3. QED
    BY <1>1, <1>2, <2>1, <2>2
<1>6. FollowInv' /\ NoGap'
  BY <1>1 DEF IInv, FollowInv, NoGap
<1>7. ASSUME NEW s \in Streams, pc'[s] \in {"scan", "live"}, ~panicked', NEW e \in events',
             base'[s] < e, current'[s] < e
      PROVE  Coming(s, e)'
  <2>1. Coming(s, e) /\ slow = {} /\ e \in Nat
    BY <1>1, <1>7, Numbers DEF IInv, OwedInv, PublishInv
  <2>2. \A i \in 1 .. Len(chan[s]) : chan[s][i] <= Seen /\ chan[s][i] \in Nat
    BY Numbers DEF IInv, ChannelInv
  <2>3. CASE e = event'
    <3>1. s \in watchers \cup closed
      BY <1>1, <1>7 DEF IInv, FollowInv
    <3>2. \A i \in 1 .. Len(chan[s]) : chan[s][i] < e
      BY <1>2, <2>2, <2>3
    <3>3. QED
      BY <1>1, <2>3, <3>1, <3>2 DEF Coming
  <2>4. CASE e # event'
    BY <1>1, <1>2, <2>1, <2>4 DEF Coming
  <2>5. QED
    BY <2>3, <2>4
<1>8. OwedInv'
  BY <1>7 DEF OwedInv
<1>9. QED
  BY <1>2, <1>3, <1>4, <1>5, <1>6, <1>8 DEF IInv

LEMMA PublishSendKeeps ==
  ASSUME TypeInv, IInv, NEW s \in Streams, PublishSend(s)
  PROVE  IInv'
<1>1. /\ pub = "send" /\ s \in targets /\ targets' = targets \ {s}
      /\ panicked' = (s \in closed)
      /\ UNCHANGED <<applied, events, readyCh, history, watchers, closed, pub, event, pc,
                     since, current, base, got>>
  BY DEF PublishSend, nodeVars, streamVars
<1>2. Seen' = Seen /\ Seen \in Int /\ event \in events /\ event <= Seen /\ event \in Nat
  BY <1>1, Numbers DEF Seen, IInv, PublishInv
<1>3. \A t \in Streams : t # s => chan'[t] = chan[t]
  BY DEF PublishSend, TypeInv, TypeOK
<1>4. \/ /\ s \notin closed /\ chan'[s] = Append(chan[s], event) /\ slow' = slow
      \/ /\ s \notin closed /\ chan'[s] = chan[s] /\ slow' = slow \cup {s}
      \/ /\ s \in closed /\ chan'[s] = chan[s] /\ slow' = slow
  <2>1. Len(chan[s]) \in Nat /\ Buffer \in Nat
    BY Numbers, ConstantsType
  <2>2. QED
    BY <2>1 DEF PublishSend, TypeInv, TypeOK
<1>5. chan'[s] = Append(chan[s], event) =>
        /\ Len(chan'[s]) = Len(chan[s]) + 1 /\ Len(chan[s]) \in Nat
        /\ \A i \in 1 .. Len(chan[s]) : chan'[s][i] = chan[s][i]
        /\ chan'[s][Len(chan[s]) + 1] = event
  <2>1. chan[s] \in Seq(Revision) /\ event \in Revision
    BY <1>1, Numbers DEF TypeInv
  <2>2. QED
    BY <2>1, QueueProperties
<1>6. ReadyInv' /\ HistoryInv' /\ FollowInv' /\ NoGap'
  <2>1. \A t \in Streams : pc[t] # "new" \/ t # s
    BY <1>1 DEF IInv, FollowInv, PublishInv
  <2>2. QED
    BY <1>1, <1>2, <1>3, <2>1 DEF IInv, ReadyInv, HistoryInv, FollowInv, NoGap
<1>7. PublishInv'
  BY <1>1, <1>2, <1>4 DEF IInv, PublishInv
<1>8. ASSUME NEW t \in Streams
      PROVE  /\ \A i \in 1 .. Len(chan'[t]) :
                  /\ chan'[t][i] \in events' /\ chan'[t][i] <= Seen'
                  /\ t \in targets' => chan'[t][i] < event'
             /\ \A i, j \in 1 .. Len(chan'[t]) : i < j => chan'[t][i] < chan'[t][j]
  <2>1. /\ \A i \in 1 .. Len(chan[t]) : /\ chan[t][i] \in events /\ chan[t][i] <= Seen
                                        /\ t \in targets => chan[t][i] < event
        /\ \A i, j \in 1 .. Len(chan[t]) : i < j => chan[t][i] < chan[t][j]
    BY DEF IInv, ChannelInv
  <2>2. CASE chan'[t] = chan[t]
    BY <1>1, <1>2, <2>1, <2>2
  <2>3. CASE t = s /\ chan'[s] = Append(chan[s], event)
    <3>1. \A i \in 1 .. Len(chan'[s]) : i \in 1 .. Len(chan[s]) \/ i = Len(chan[s]) + 1
      BY <1>5, <2>3
    <3>2. \A i \in 1 .. Len(chan'[s]) : chan'[s][i] \in events' /\ chan'[s][i] <= Seen'
      BY <1>1, <1>2, <1>5, <2>1, <2>3, <3>1
    <3>3. \A i, j \in 1 .. Len(chan'[s]) : i < j => i \in 1 .. Len(chan[s])
      BY <1>5, <2>3
    <3>4. \A i, j \in 1 .. Len(chan'[s]) : i < j => chan'[s][i] < chan'[s][j]
      BY <1>1, <1>5, <2>1, <2>3, <3>1, <3>3
    <3>5. QED
      BY <1>1, <2>3, <3>2, <3>4
  <2>4. QED
    BY <1>3, <1>4, <2>2, <2>3
<1>9. ChannelInv'
  BY <1>8 DEF ChannelInv
<1>10. ASSUME NEW t \in Streams, pc'[t] \in {"scan", "live"}, ~panicked',
              NEW e \in events', base'[t] < e, current'[t] < e
       PROVE  Coming(t, e)'
  <2>1. Coming(t, e) /\ s \notin closed
    <3>1. ~panicked
      BY DEF PublishSend
    <3>2. QED
      BY <1>1, <1>10, <3>1 DEF IInv, OwedInv
  <2>2. CASE t # s
    <3>1. t \in closed \cup slow => t \in closed' \cup slow'
      BY <1>1, <1>4
    <3>2. QED
      BY <1>1, <1>2, <1>3, <2>1, <2>2, <3>1 DEF Coming
  <2>3. CASE t = s
    <3>1. s \notin slow /\ \A i \in 1 .. Len(chan[s]) : chan[s][i] < event
      BY <1>1 DEF IInv, PublishInv, ChannelInv
    <3>2. \/ \E i \in 1 .. Len(chan[s]) : chan[s][i] = e
          \/ e > Seen
          \/ e = event
      BY <2>1, <2>3, <3>1 DEF Coming
    <3>3. CASE chan'[s] = Append(chan[s], event)
      <4>1. ASSUME NEW i \in 1 .. Len(chan[s]), chan[s][i] = e
            PROVE  \E k \in 1 .. Len(chan'[s]) : chan'[s][k] = e
        <5>1. i \in 1 .. Len(chan'[s]) /\ chan'[s][i] = e
          BY <1>5, <3>3, <4>1
        <5>2. QED
          BY <5>1
      <4>2. Len(chan[s]) + 1 \in 1 .. Len(chan'[s])
        BY <1>5, <3>3
      <4>3. (\E i \in 1 .. Len(chan[s]) : chan[s][i] = e) \/ e = event
              => \E i \in 1 .. Len(chan'[s]) : chan'[s][i] = e
        BY <1>5, <3>3, <4>1, <4>2
      <4>4. QED
        BY <1>2, <2>3, <3>2, <4>3 DEF Coming
    <3>4. CASE chan'[s] = chan[s] /\ s \in slow'
      BY <1>2, <2>3, <3>1, <3>2, <3>4 DEF Coming
    <3>5. QED
      BY <1>4, <2>1, <3>3, <3>4
  <2>4. QED
    BY <2>2, <2>3
<1>11. OwedInv'
  BY <1>10 DEF OwedInv
<1>12. QED
  BY <1>6, <1>7, <1>9, <1>11 DEF IInv

LEMMA PublishSentKeeps ==
  ASSUME TypeInv, IInv, PublishSent
  PROVE  IInv'
<1>1. /\ targets = {} /\ pub = "send"
      /\ pub' = IF slow = {} THEN "idle" ELSE "close"
      /\ UNCHANGED <<applied, events, readyCh, history, watchers, chan, closed, event,
                     targets, slow, panicked, pc, since, current, base, got>>
  BY DEF PublishSent, nodeVars, hubVars, streamVars
<1>2. Seen' = Seen
  BY <1>1 DEF Seen
<1>3. ReadyInv' /\ HistoryInv' /\ ChannelInv' /\ FollowInv' /\ NoGap'
  BY <1>1, <1>2 DEF IInv, ReadyInv, HistoryInv, ChannelInv, FollowInv, NoGap
<1>4. PublishInv'
  BY <1>1 DEF IInv, PublishInv
<1>5. OwedInv'
  BY <1>1, <1>2 DEF IInv, OwedInv, Coming
<1>6. QED
  BY <1>3, <1>4, <1>5 DEF IInv

LEMMA PublishCloseKeeps ==
  ASSUME TypeInv, IInv, PublishClose
  PROVE  IInv'
<1>1. /\ pub = "close" /\ watchers' = watchers \ slow
      /\ closed' = closed \cup (slow \cap watchers) /\ pub' = "idle" /\ slow' = {}
      /\ UNCHANGED <<applied, events, readyCh, history, chan, event, targets, panicked,
                     pc, since, current, base, got>>
  BY DEF PublishClose, nodeVars, streamVars
<1>2. Seen' = Seen
  BY <1>1 DEF Seen
<1>3. /\ targets = {} /\ slow \subseteq watchers \cup closed /\ watchers \cap closed = {}
      /\ closed \cup slow \subseteq closed'
      /\ watchers' \cup closed' = watchers \cup closed
  BY <1>1 DEF IInv, PublishInv
<1>4. ReadyInv' /\ HistoryInv' /\ ChannelInv' /\ NoGap'
  BY <1>1, <1>2 DEF IInv, ReadyInv, HistoryInv, ChannelInv, NoGap
<1>5. FollowInv'
  BY <1>1, <1>3 DEF IInv, FollowInv
<1>6. PublishInv'
  BY <1>1, <1>3 DEF PublishInv
<1>7. OwedInv'
  BY <1>1, <1>2, <1>3 DEF IInv, OwedInv, Coming
<1>8. QED
  BY <1>4, <1>5, <1>6, <1>7 DEF IInv

\* Where a stream starts: at a replayed window, at what was last published, or
\* before a snapshot.
LEMMA SubscribeStarts ==
  ASSUME TypeInv, IInv, NEW s \in Streams, NEW rev \in 0 .. MaxRevision,
         NEW includeSnapshot \in BOOLEAN, Subscribe(s, rev, includeSnapshot),
         pc'[s] = "live"
  PROVE  /\ current'[s] <= applied \/ current'[s] <= base'[s]
         /\ \A e \in events : base'[s] < e /\ e <= Seen => e <= current'[s] \/ rev = 0
         /\ \A e \in events : e <= Seen /\ rev = 0 => e <= base'[s]
         /\ \A e \in events : base'[s] < e /\ e <= current'[s] => e \in got'[s]
<1>1. /\ base'[s] = (IF rev = 0 /\ ~includeSnapshot THEN LastPublished ELSE rev)
      /\ current'[s] = (IF ReplayExact(rev) /\ Replayed(rev) # {}
                        THEN history[Max(Replayed(rev))] ELSE rev)
      /\ got'[s] = (IF ReplayExact(rev) THEN {history[i] : i \in Replayed(rev)} ELSE {})
      /\ ReplayExact(rev) \/ (rev = 0 /\ ~includeSnapshot)
  BY DEF Subscribe, TypeInv, TypeOK
<1>2. /\ rev \in Nat /\ applied \in Nat /\ Seen \in Int /\ Seen <= applied
      /\ Len(history) \in Nat /\ DOMAIN history = 1 .. Len(history)
      /\ \A i \in 1 .. Len(history) : history[i] \in Nat /\ history[i] <= Seen
      /\ \A i, j \in 1 .. Len(history) : i < j => history[i] < history[j]
      /\ \A e \in events : e \in Nat /\ 1 <= e
      /\ \A e \in events : e <= Seen =>
           /\ Len(history) > 0
           /\ e >= history[1] => \E i \in 1 .. Len(history) : history[i] = e
      /\ history \in Seq(Revision)
  <2>1. rev \in Nat /\ history \in Seq(Revision) /\ DOMAIN history = 1 .. Len(history)
    BY ConstantsType DEF TypeInv, TypeOK
  <2>2. Seen <= applied
    BY Numbers DEF Seen
  <2>3. QED
    BY <2>1, <2>2, Numbers DEF IInv, HistoryInv
<1>3. CASE ReplayExact(rev)
  <2>1. rev # 0 /\ rev + 1 >= history[1] /\ base'[s] = rev
    BY <1>1, <1>3 DEF ReplayExact
  <2>2. ASSUME NEW e \in events, rev < e, e <= Seen
        PROVE  e \in got'[s] /\ e <= current'[s]
    <3>1. Len(history) > 0 /\ 1 \in 1 .. Len(history)
      BY <1>2, <2>2
    <3>2. e >= history[1] /\ e \in Nat
      BY <1>2, <2>1, <2>2, <3>1
    <3>3. PICK i \in 1 .. Len(history) : history[i] = e
      BY <1>2, <2>2, <3>2
    <3>4. i \in Replayed(rev)
      BY <1>2, <2>2, <3>3 DEF Replayed
    <3>5. /\ Max(Replayed(rev)) \in 1 .. Len(history) /\ i <= Max(Replayed(rev))
      BY <1>2, <2>2, <3>3, <3>4, LastReplayed
    <3>6. e <= history[Max(Replayed(rev))]
      BY <1>2, <3>3, <3>5
    <3>7. QED
      BY <1>1, <1>3, <3>3, <3>4, <3>6
  <2>3. current'[s] <= Seen \/ current'[s] = rev
    <3>1. CASE Replayed(rev) # {}
      BY <1>1, <1>2, <1>3, <3>1, LastReplayed
    <3>2. CASE Replayed(rev) = {}
      BY <1>1, <3>2
    <3>3. QED
      BY <3>1, <3>2
  <2>4. current'[s] \in Nat
    <3>1. CASE Replayed(rev) # {}
      BY <1>1, <1>2, <1>3, <3>1, LastReplayed
    <3>2. CASE Replayed(rev) = {}
      BY <1>1, <1>2, <3>2
    <3>3. QED
      BY <3>1, <3>2
  <2>5. \A e \in events : rev < e /\ e <= current'[s] => e <= Seen
    BY <1>2, <2>3, <2>4
  <2>6. QED
    BY <1>2, <2>1, <2>2, <2>3, <2>4, <2>5
<1>4. CASE ~ReplayExact(rev)
  <2>1. /\ rev = 0 /\ base'[s] = LastPublished /\ current'[s] = 0
    BY <1>1, <1>4
  <2>2. ASSUME NEW e \in events, e <= Seen PROVE e <= LastPublished
    <3>1. Len(history) > 0 /\ history # <<>>
      BY <1>2, <2>2
    <3>2. /\ LastPublished = history[Len(history)]
          /\ 1 \in 1 .. Len(history) /\ Len(history) \in 1 .. Len(history)
      BY <1>2, <3>1 DEF LastPublished, Last
    <3>3. \A i \in 1 .. Len(history) : history[i] <= LastPublished
      <4>1. TAKE i \in 1 .. Len(history)
      <4>2. history[i] \in Nat /\ Len(history) \in Nat
        BY <1>2
      <4>3. CASE i = Len(history)
        BY <3>2, <4>2, <4>3
      <4>4. CASE i # Len(history)
        <5>1. i < Len(history)
          BY <4>2, <4>4
        <5>2. history[i] < history[Len(history)] /\ history[Len(history)] \in Nat
          BY <1>2, <3>2, <5>1
        <5>3. QED
          BY <3>2, <4>2, <5>2
      <4>5. QED
        BY <4>3, <4>4
    <3>4. CASE e >= history[1]
      BY <1>2, <2>2, <3>3, <3>4
    <3>5. CASE ~(e >= history[1])
      BY <1>2, <3>2, <3>3, <3>5
    <3>6. QED
      BY <3>4, <3>5
  <2>3. QED
    BY <1>2, <2>1, <2>2
<1>5. QED
  BY <1>3, <1>4

LEMMA SubscribeKeeps ==
  ASSUME TypeInv, IInv, NEW s \in Streams, NEW rev \in 0 .. MaxRevision,
         NEW includeSnapshot \in BOOLEAN, Subscribe(s, rev, includeSnapshot)
  PROVE  IInv'
<1>1. /\ pc[s] = "new" /\ watchers' = watchers \cup {s}
      /\ pc'[s] \in {"live", "snapshot", "gone"}
      /\ \A t \in Streams \ {s} : /\ pc'[t] = pc[t] /\ base'[t] = base[t]
                                  /\ current'[t] = current[t] /\ got'[t] = got[t]
      /\ UNCHANGED <<applied, events, readyCh, history, chan, closed, pub, event, targets,
                     slow, panicked>>
  BY DEF Subscribe, TypeInv, TypeOK, nodeVars, pubVars
<1>2. Seen' = Seen /\ Seen \in Int /\ s \notin closed
  BY <1>1, Numbers DEF Seen, IInv, FollowInv
<1>3. ReadyInv' /\ HistoryInv' /\ ChannelInv'
  BY <1>1, <1>2 DEF IInv, ReadyInv, HistoryInv, ChannelInv
<1>4. PublishInv'
  BY <1>1, <1>2 DEF IInv, PublishInv
<1>5. FollowInv'
  <2>1. ASSUME NEW t \in Streams, t # s
        PROVE  /\ pc'[t] = "new" => t \notin watchers' \cup closed' /\ chan'[t] = <<>>
               /\ pc'[t] \in {"snapshot", "scan", "live"} => t \in watchers' \cup closed'
               /\ pc'[t] \in {"scan", "live"} =>
                    current'[t] <= applied' \/ current'[t] <= base'[t]
    BY <1>1, <2>1 DEF IInv, FollowInv
  <2>2. pc'[s] \in {"scan", "live"} => current'[s] <= applied' \/ current'[s] <= base'[s]
    BY <1>1, SubscribeStarts
  <2>3. QED
    BY <1>1, <2>1, <2>2 DEF FollowInv
<1>6. OwedInv'
  <2>1. ASSUME NEW t \in Streams, pc'[t] \in {"scan", "live"}, ~panicked',
               NEW e \in events', base'[t] < e, current'[t] < e
        PROVE  Coming(t, e)'
    <3>1. CASE t # s
      BY <1>1, <1>2, <2>1, <3>1 DEF IInv, OwedInv, Coming
    <3>2. CASE t = s
      <4>1. /\ pc'[s] = "live" /\ e \in events /\ e \in Nat
            /\ base'[s] \in Nat /\ current'[s] \in Nat
        <5>1. TypeInv'
          BY NextTypeInv DEF Next
        <5>2. base'[s] \in Nat /\ current'[s] \in Nat
          BY <5>1, ConstantsType DEF TypeInv, TypeOK
        <5>3. QED
          BY <1>1, <2>1, <3>2, <5>2, Numbers
      <4>2. /\ base'[s] < e /\ e <= Seen => e <= current'[s] \/ rev = 0
            /\ e <= Seen /\ rev = 0 => e <= base'[s]
        BY <4>1, SubscribeStarts
      <4>3. ~(e <= Seen)
        BY <2>1, <3>2, <4>1, <4>2
      <4>4. QED
        BY <1>2, <4>1, <4>3 DEF Coming
    <3>3. QED
      BY <3>1, <3>2
  <2>2. QED
    BY <2>1 DEF OwedInv
<1>7. NoGap'
  <2>1. \A t \in Streams \ {s} : pc'[t] = "live" =>
          \A e \in events' : base'[t] < e /\ e <= current'[t] => e \in got'[t]
    BY <1>1 DEF IInv, NoGap
  <2>2. pc'[s] = "live" =>
          \A e \in events' : base'[s] < e /\ e <= current'[s] => e \in got'[s]
    BY <1>1, SubscribeStarts
  <2>3. QED
    BY <2>1, <2>2 DEF NoGap
<1>8. QED
  BY <1>3, <1>4, <1>5, <1>6, <1>7 DEF IInv

LEMMA SnapshotKeeps ==
  ASSUME TypeInv, IInv, NEW s \in Streams, SnapshotRevision(s) \/ SnapshotScan(s)
  PROVE  IInv'
<1>1. /\ \A t \in Streams \ {s} : /\ pc'[t] = pc[t] /\ current'[t] = current[t]
                                  /\ got'[t] = got[t]
      /\ \/ pc[s] = "snapshot" /\ pc'[s] = "scan" /\ current'[s] = applied
         \/ /\ pc[s] = "scan" /\ pc'[s] = "live" /\ current'[s] = current[s]
            /\ got'[s] = events
      /\ UNCHANGED <<applied, events, readyCh, history, watchers, chan, closed, pub,
                     event, targets, slow, panicked, base>>
  BY DEF SnapshotRevision, SnapshotScan, TypeInv, TypeOK, nodeVars, hubVars, pubVars
<1>2. Seen' = Seen
  BY <1>1 DEF Seen
<1>3. ReadyInv' /\ HistoryInv' /\ PublishInv' /\ ChannelInv'
  BY <1>1, <1>2 DEF IInv, ReadyInv, HistoryInv, PublishInv, ChannelInv
<1>4. FollowInv'
  BY <1>1, Numbers DEF IInv, FollowInv
<1>5. NoGap'
  BY <1>1 DEF IInv, NoGap
<1>6. ASSUME NEW t \in Streams, pc'[t] \in {"scan", "live"}, ~panicked',
             NEW e \in events', base'[t] < e, current'[t] < e
      PROVE  Coming(t, e)'
  <2>1. pc[t] \in {"scan", "live"} /\ current'[t] = current[t]
    <3>1. e \in Nat /\ e <= applied /\ applied \in Nat
      BY <1>1, <1>6, Numbers
    <3>2. QED
      BY <1>1, <1>6, <3>1
  <2>2. Coming(t, e)
    BY <1>1, <1>6, <2>1 DEF IInv, OwedInv
  <2>3. QED
    BY <1>1, <1>2, <2>2 DEF Coming
<1>7. OwedInv'
  BY <1>6 DEF OwedInv
<1>8. QED
  BY <1>3, <1>4, <1>5, <1>7 DEF IInv

\* What a live stream owes is not older than the head of its channel.
LEMMA HeadIsNext ==
  ASSUME TypeInv, IInv, NEW s \in Streams, pc[s] = "live", ~panicked, chan[s] # <<>>,
         NEW e \in events, base[s] < e, current[s] < e
  PROVE  Head(chan[s]) <= e
<1>1. /\ Len(chan[s]) \in Nat /\ Head(chan[s]) = chan[s][1] /\ 1 \in 1 .. Len(chan[s])
      /\ Head(chan[s]) \in Nat /\ e \in Nat /\ Seen \in Int /\ event \in Nat
  <2>1. chan[s] \in Seq(Revision)
    BY Numbers
  <2>2. Len(chan[s]) \in Nat /\ Len(chan[s]) >= 1 /\ Head(chan[s]) = chan[s][1]
    BY <2>1, QueueProperties
  <2>3. QED
    BY <2>2, Numbers
<1>2. Coming(s, e)
  BY DEF IInv, OwedInv
<1>3. /\ chan[s][1] <= Seen /\ (s \in targets => chan[s][1] < event)
      /\ \A i \in 1 .. Len(chan[s]) : 1 < i => chan[s][1] < chan[s][i]
  BY <1>1 DEF IInv, ChannelInv
<1>4. CASE \E i \in 1 .. Len(chan[s]) : chan[s][i] = e
  <2>1. PICK i \in 1 .. Len(chan[s]) : chan[s][i] = e
    BY <1>4
  <2>2. i = 1 \/ 1 < i
    BY <1>1
  <2>3. QED
    BY <1>1, <1>3, <2>1, <2>2
<1>5. CASE e > Seen
  BY <1>1, <1>3, <1>5
<1>6. CASE e = event /\ s \in targets
  BY <1>1, <1>3, <1>6
<1>7. CASE \A i \in 1 .. Len(chan[s]) : chan[s][i] < e
  BY <1>1, <1>7
<1>8. QED
  BY <1>2, <1>4, <1>5, <1>6, <1>7 DEF Coming

LEMMA ReceiveKeeps ==
  ASSUME TypeInv, IInv, NEW s \in Streams, Receive(s)
  PROVE  IInv'
<1> DEFINE h == Head(chan[s])
<1>1. /\ ~panicked /\ pc[s] = "live" /\ chan[s] # <<>> /\ chan'[s] = Tail(chan[s])
      /\ \A t \in Streams \ {s} : /\ chan'[t] = chan[t] /\ current'[t] = current[t]
                                  /\ got'[t] = got[t]
      /\ \/ h > current[s] /\ current'[s] = h /\ got'[s] = got[s] \cup {h}
         \/ ~(h > current[s]) /\ current'[s] = current[s] /\ got'[s] = got[s]
      /\ UNCHANGED <<applied, events, readyCh, history, watchers, closed, pub, event,
                     targets, slow, panicked, pc, base>>
  BY DEF Receive, TypeInv, TypeOK, nodeVars, pubVars
<1>2. /\ Len(chan[s]) \in Nat /\ Len(chan[s]) >= 1 /\ h = chan[s][1]
      /\ Len(chan'[s]) = Len(chan[s]) - 1
      /\ \A i \in 1 .. Len(chan'[s]) : chan'[s][i] = chan[s][i + 1]
      /\ \A i \in 1 .. Len(chan[s]) : chan[s][i] \in Nat
  <2>1. chan[s] \in Seq(Revision)
    BY Numbers
  <2>2. /\ Len(chan[s]) \in Nat /\ Len(chan[s]) >= 1 /\ h = chan[s][1]
        /\ Len(Tail(chan[s])) = Len(chan[s]) - 1
        /\ \A i \in 1 .. Len(Tail(chan[s])) : Tail(chan[s])[i] = chan[s][i + 1]
    BY <1>1, <2>1, QueueProperties
  <2>3. \A i \in 1 .. Len(chan[s]) : chan[s][i] \in Nat
    BY Numbers
  <2>4. QED
    BY <1>1, <2>2, <2>3
<1>3. Seen' = Seen /\ Seen \in Int /\ Seen <= applied /\ applied \in Nat
  BY <1>1, Numbers DEF Seen
<1>4. /\ \A i \in 1 .. Len(chan[s]) : /\ chan[s][i] \in events /\ chan[s][i] <= Seen
                                      /\ s \in targets => chan[s][i] < event
      /\ \A i, j \in 1 .. Len(chan[s]) : i < j => chan[s][i] < chan[s][j]
  BY DEF IInv, ChannelInv
<1>5. \A i \in 1 .. Len(chan'[s]) : i + 1 \in 1 .. Len(chan[s])
  BY <1>2
<1>6. h \in Nat /\ current[s] \in Nat /\ h <= Seen
  <2>1. 1 \in 1 .. Len(chan[s])
    BY <1>2
  <2>2. QED
    BY <1>2, <1>4, <2>1, Numbers
<1>7. \A e \in events : base[s] < e /\ current[s] < e => h <= e
  BY <1>1, HeadIsNext
<1> HIDE DEF h
<1>8. ReadyInv' /\ HistoryInv' /\ PublishInv'
  BY <1>1, <1>3 DEF IInv, ReadyInv, HistoryInv, PublishInv
<1>9. ChannelInv'
  <2>1. \A i \in 1 .. Len(chan'[s]) : /\ chan'[s][i] \in events /\ chan'[s][i] <= Seen
                                      /\ s \in targets => chan'[s][i] < event
    BY <1>2, <1>4, <1>5
  <2>2. \A i, j \in 1 .. Len(chan'[s]) : i < j => chan'[s][i] < chan'[s][j]
    <3>1. \A i, j \in 1 .. Len(chan'[s]) : i < j => i + 1 < j + 1
      BY <1>2
    <3>2. QED
      BY <1>2, <1>4, <1>5, <3>1
  <2>3. QED
    BY <1>1, <1>3, <2>1, <2>2 DEF IInv, ChannelInv
<1>10. FollowInv'
  BY <1>1, <1>3, <1>6 DEF IInv, FollowInv
<1>11. NoGap'
  <2>1. ASSUME NEW e \in events, base[s] < e, e <= current'[s] PROVE e \in got'[s]
    <3>1. e \in Nat
      BY <2>1, Numbers
    <3>2. CASE e <= current[s]
      BY <1>1, <2>1, <3>2 DEF IInv, NoGap
    <3>3. CASE ~(e <= current[s])
      <4>1. h <= e /\ current'[s] = h
        BY <1>1, <1>6, <1>7, <2>1, <3>1, <3>3
      <4>2. e = h
        BY <1>6, <2>1, <3>1, <4>1
      <4>3. QED
        BY <1>1, <1>6, <3>1, <3>3, <4>2
    <3>4. QED
      BY <3>2, <3>3
  <2>2. QED
    BY <1>1, <2>1 DEF IInv, NoGap
<1>12. ASSUME NEW t \in Streams, pc'[t] \in {"scan", "live"}, ~panicked',
              NEW e \in events', base'[t] < e, current'[t] < e
       PROVE  Coming(t, e)'
  <2>1. CASE t # s
    BY <1>1, <1>3, <1>12, <2>1 DEF IInv, OwedInv, Coming
  <2>2. CASE t = s
    <3>1. current[s] < e /\ h < e /\ e \in Nat
      BY <1>1, <1>6, <1>12, <2>2, Numbers
    <3>2. Coming(s, e)
      BY <1>1, <1>12, <2>2, <3>1 DEF IInv, OwedInv
    <3>3. CASE \E i \in 1 .. Len(chan[s]) : chan[s][i] = e
      <4>1. PICK i \in 1 .. Len(chan[s]) : chan[s][i] = e
        BY <3>3
      <4>2. i # 1
        BY <1>2, <1>6, <3>1, <4>1
      <4>3. i - 1 \in 1 .. Len(chan'[s]) /\ (i - 1) + 1 = i
        BY <1>2, <4>2
      <4>4. chan'[s][i - 1] = e
        BY <1>2, <4>1, <4>3
      <4>5. QED
        BY <2>2, <4>3, <4>4 DEF Coming
    <3>4. CASE \A i \in 1 .. Len(chan[s]) : chan[s][i] < e
      <4>1. \A i \in 1 .. Len(chan'[s]) : chan'[s][i] < e
        BY <1>2, <1>5, <3>4
      <4>2. e > Seen \/ (pub = "send" /\ e = event /\ s \in targets) \/ s \in closed \cup slow
        <5>1. \A i \in 1 .. Len(chan[s]) : chan[s][i] # e
          BY <1>2, <3>1, <3>4
        <5>2. QED
          BY <3>2, <5>1 DEF Coming
      <4>3. QED
        BY <1>1, <1>3, <2>2, <4>1, <4>2 DEF Coming
    <3>5. CASE e > Seen \/ (pub = "send" /\ e = event /\ s \in targets)
      BY <1>1, <1>3, <2>2, <3>5 DEF Coming
    <3>6. QED
      BY <3>2, <3>3, <3>4, <3>5 DEF Coming
  <2>3. QED
    BY <2>1, <2>2
<1>13. OwedInv'
  BY <1>12 DEF OwedInv
<1>14. QED
  BY <1>8, <1>9, <1>10, <1>11, <1>13 DEF IInv

LEMMA EndKeeps ==
  ASSUME TypeInv, IInv, NEW s \in Streams, Drained(s) \/ Unsubscribe(s)
  PROVE  IInv'
<1>1. /\ pc[s] # "new" /\ pc'[s] = "ended"
      /\ \A t \in Streams \ {s} : pc'[t] = pc[t]
      /\ \/ watchers' = watchers /\ closed' = closed
         \/ s \in watchers /\ watchers' = watchers \ {s} /\ closed' = closed \cup {s}
      /\ UNCHANGED <<applied, events, readyCh, history, chan, pub, event, targets, slow,
                     panicked, current, base, got>>
  <2>1. CASE Drained(s)
    BY <2>1 DEF Drained, TypeInv, TypeOK, nodeVars, hubVars, pubVars
  <2>2. CASE Unsubscribe(s)
    <3>1. \/ watchers' = watchers /\ closed' = closed
          \/ s \in watchers /\ watchers' = watchers \ {s} /\ closed' = closed \cup {s}
      <4>1. CASE s \in watchers
        BY <2>2, <4>1 DEF Unsubscribe
      <4>2. CASE s \notin watchers
        BY <2>2, <4>2 DEF Unsubscribe
      <4>3. QED
        BY <4>1, <4>2
    <3>2. QED
      BY <2>2, <3>1 DEF Unsubscribe, TypeInv, TypeOK, nodeVars, pubVars
  <2>3. QED
    BY <2>1, <2>2
<1>2. Seen' = Seen
  BY <1>1 DEF Seen
<1>3. ReadyInv' /\ HistoryInv' /\ ChannelInv' /\ NoGap'
  BY <1>1, <1>2 DEF IInv, ReadyInv, HistoryInv, ChannelInv, NoGap
<1>4. PublishInv'
  BY <1>1, <1>2 DEF IInv, PublishInv
<1>5. FollowInv'
  BY <1>1 DEF IInv, FollowInv
<1>6. OwedInv'
  BY <1>1, <1>2 DEF IInv, OwedInv, Coming
<1>7. QED
  BY <1>3, <1>4, <1>5, <1>6 DEF IInv

-----------------------------------------------------------------------------
\* The theorems.

\* emitReady finds room in readyCh.
RoomForReady == applied' # applied => Len(readyCh) < ReadyBuffer

LEMMA InitIInv == Init => IInv
<1> SUFFICES ASSUME Init PROVE IInv
  OBVIOUS
<1>1. applied = 0 /\ Len(readyCh) = 0 /\ Len(history) = 0 /\ events = {} /\ Seen = 0
  <2>1. readyCh = <<>> /\ history = <<>> /\ applied = 0 /\ events = {}
    BY DEF Init
  <2>2. Len(<<>>) = 0
    OBVIOUS
  <2>3. Len(readyCh) = 0 /\ Len(history) = 0
    BY <2>1, <2>2, Zenon
  <2>4. 0 - 0 = 0
    OBVIOUS
  <2>5. Seen = 0
    BY <2>1, <2>3, <2>4, Zenon DEF Seen
  <2>6. QED
    BY <2>1, <2>3, <2>5
<1>2. \A s \in Streams : chan[s] = <<>> /\ Len(chan[s]) = 0 /\ pc[s] = "new"
  BY DEF Init
<1>3. ReadyInv /\ HistoryInv
  BY <1>1 DEF ReadyInv, HistoryInv
<1>4. PublishInv /\ FollowInv /\ OwedInv /\ NoGap
  BY <1>2 DEF Init, PublishInv, FollowInv, OwedInv, NoGap
<1>5. ChannelInv
  BY <1>2 DEF ChannelInv
<1>6. QED
  BY <1>3, <1>4, <1>5 DEF IInv

LEMMA NextIInv == TypeInv /\ IInv /\ [Next]_vars /\ [RoomForReady]_vars => IInv'
<1> SUFFICES ASSUME TypeInv, IInv, [Next]_vars, [RoomForReady]_vars PROVE IInv'
  OBVIOUS
<1>1. CASE UNCHANGED vars
  <2>1. UNCHANGED <<applied, events, readyCh, history, watchers, chan, closed, pub, event,
                    targets, slow, panicked, pc, since, current, base, got>>
    BY <1>1 DEF vars, nodeVars, hubVars, pubVars, streamVars
  <2>2. Seen' = Seen
    BY <2>1 DEF Seen
  <2>3. ReadyInv' /\ HistoryInv' /\ PublishInv' /\ ChannelInv'
    BY <2>1, <2>2 DEF IInv, ReadyInv, HistoryInv, PublishInv, ChannelInv
  <2>4. FollowInv' /\ OwedInv' /\ NoGap'
    BY <2>1, <2>2 DEF IInv, FollowInv, OwedInv, Coming, NoGap
  <2>5. QED
    BY <2>3, <2>4 DEF IInv
<1>2. ASSUME NEW isEvent \in BOOLEAN, Apply(isEvent) PROVE IInv'
  <2>1. applied' # applied
    BY <1>2, Numbers DEF Apply
  <2>2. Len(readyCh) < ReadyBuffer
    BY <2>1 DEF RoomForReady, vars, nodeVars
  <2>3. QED
    BY <1>2, <2>2, ApplyKeeps
<1>3. CASE HubStep
  BY <1>3, SkipReadyKeeps, PublishBeginKeeps, PublishSendKeeps, PublishSentKeeps,
     PublishCloseKeeps DEF HubStep
<1>4. ASSUME NEW s \in Streams, NEW rev \in 0 .. MaxRevision,
             NEW includeSnapshot \in BOOLEAN, Subscribe(s, rev, includeSnapshot)
      PROVE  IInv'
  BY <1>4, SubscribeKeeps
<1>5. ASSUME NEW s \in Streams, StreamStep(s) \/ Unsubscribe(s) PROVE IInv'
  BY <1>5, SnapshotKeeps, ReceiveKeeps, EndKeeps DEF StreamStep
<1>6. QED
  BY <1>1, <1>2, <1>3, <1>4, <1>5 DEF Next

LEMMA IInvOwed == TypeInv /\ IInv => OwedIsOnItsWay
<1> SUFFICES ASSUME TypeInv, IInv, NEW s \in Streams, pc[s] = "live", ~panicked,
                    NEW e \in events, base[s] < e, current[s] < e
             PROVE  \/ e \in ToSet(chan[s]) \cup ToSet(readyCh)
                    \/ pub = "send" /\ e = event /\ s \in targets
                    \/ s \in closed \cup slow /\ \A f \in ToSet(chan[s]) : f < e
  BY DEF OwedIsOnItsWay
<1>1. Coming(s, e)
  BY DEF IInv, OwedInv
<1>2. /\ readyCh \in Seq(Revision) /\ chan[s] \in Seq(Revision)
  BY Numbers DEF TypeInv, TypeOK
<1>3. DOMAIN readyCh = 1 .. Len(readyCh) /\ DOMAIN chan[s] = 1 .. Len(chan[s])
  BY <1>2
<1>4. CASE \E i \in 1 .. Len(chan[s]) : chan[s][i] = e
  BY <1>3, <1>4 DEF ToSet
<1>5. CASE e > Seen
  <2>1. /\ e \in Nat /\ e <= applied /\ applied \in Nat /\ Len(readyCh) \in Nat
        /\ \A i \in 1 .. Len(readyCh) : readyCh[i] = Seen + i
    BY Numbers DEF IInv, ReadyInv
  <2>2. e - Seen \in 1 .. Len(readyCh) /\ Seen + (e - Seen) = e
    BY <1>5, <2>1 DEF Seen
  <2>3. readyCh[e - Seen] = e
    BY <2>1, <2>2
  <2>4. QED
    BY <1>3, <2>2, <2>3 DEF ToSet
<1>6. CASE s \in closed \cup slow /\ \A i \in 1 .. Len(chan[s]) : chan[s][i] < e
  BY <1>3, <1>6 DEF ToSet
<1>7. QED
  BY <1>1, <1>4, <1>5, <1>6 DEF Coming

LEMMA SpecIInv == Spec /\ [][RoomForReady]_vars => [](TypeInv /\ IInv)
<1>1. Init => TypeInv /\ IInv
  BY InitTypeInv, InitIInv
<1>2. TypeInv /\ IInv /\ [Next]_vars /\ [RoomForReady]_vars => (TypeInv /\ IInv)'
  BY NextTypeInv, NextIInv
<1>3. QED
  BY <1>1, <1>2, PTL DEF Spec

\* As long as emitReady drops no Ready, a live stream has told its client every event
\* it owes up to the revision it has reached, whatever the order of publishing,
\* subscribing, replay, snapshot and the closing of slow watchers.
THEOREM NoGapWhileRoom == Spec /\ [][RoomForReady]_vars => []NoGap
<1>1. IInv => NoGap
  BY DEF IInv
<1>2. QED
  BY <1>1, SpecIInv, PTL

\* As long as emitReady drops no Ready, what a live stream still owes is on its way to
\* it, or the stream is one that is closed for being slow.
THEOREM OwedIsOnItsWayWhileRoom == Spec /\ [][RoomForReady]_vars => []OwedIsOnItsWay
  BY SpecIInv, IInvOwed, PTL

\* A log that fits in readyCh leaves room there.
LEMMA ShortLogs ==
  ASSUME MaxRevision <= ReadyBuffer
  PROVE  Spec => [][RoomForReady]_vars
<1> DEFINE Fits == Len(readyCh) <= applied
<1>1. Init => Fits
  BY DEF Init
<1>2. TypeInv /\ Fits /\ [Next]_vars => Fits'
  <2> SUFFICES ASSUME TypeInv, Fits, [Next]_vars PROVE Fits'
    OBVIOUS
  <2>1. readyCh \in Seq(Revision) /\ Len(readyCh) \in Nat /\ applied \in Nat
    BY Numbers DEF TypeInv, TypeOK
  <2>2. readyCh # <<>> => Len(Tail(readyCh)) = Len(readyCh) - 1
    BY <2>1
  <2>3. ASSUME NEW isEvent \in BOOLEAN, Apply(isEvent) PROVE Fits'
    <3>1. applied' = applied + 1 /\ applied + 1 \in Revision
      BY <2>1, <2>3, ConstantsType DEF Apply, Revision
    <3>2. Len(Append(readyCh, applied + 1)) = Len(readyCh) + 1
      BY <2>1, <3>1, QueueProperties
    <3>3. QED
      BY <2>1, <2>3, <3>1, <3>2 DEF Apply
  <2>4. CASE SkipReady \/ PublishBegin
    BY <2>1, <2>2, <2>4 DEF SkipReady, PublishBegin
  <2>5. CASE UNCHANGED <<applied, readyCh>>
    BY <2>5
  <2>6. QED
    BY <2>3, <2>4, <2>5
       DEF Next, HubStep, StreamStep, PublishSent, PublishClose, PublishSend, Subscribe,
           SnapshotRevision, SnapshotScan, Receive, Drained, Unsubscribe, vars, nodeVars
<1>3. TypeInv /\ Fits /\ [Next]_vars => [RoomForReady]_vars
  <2> SUFFICES ASSUME TypeInv, Fits, Next, applied' # applied
               PROVE  Len(readyCh) < ReadyBuffer
    BY DEF RoomForReady, vars, nodeVars
  <2>1. applied < MaxRevision
    BY DEF Next, Apply, HubStep, StreamStep, SkipReady, PublishBegin, PublishSent,
           PublishClose, PublishSend, Subscribe, SnapshotRevision, SnapshotScan, Receive,
           Drained, Unsubscribe, nodeVars
  <2>2. QED
    BY <2>1, Numbers, ConstantsType
<1>4. QED
  BY <1>1, <1>2, <1>3, InitTypeInv, NextTypeInv, PTL DEF Spec

\* In particular when the log is no longer than readyCh, as in the run.
THEOREM NoGapInShortLogs ==
  ASSUME MaxRevision <= ReadyBuffer
  PROVE  Spec => []NoGap
BY ShortLogs, NoGapWhileRoom

THEOREM OwedIsOnItsWayInShortLogs ==
  ASSUME MaxRevision <= ReadyBuffer
  PROVE  Spec => []OwedIsOnItsWay
BY ShortLogs, OwedIsOnItsWayWhileRoom

=============================================================================
