----------------------- MODULE SnapshotInstallProofs -----------------------
(***************************************************************************)
(* Proofs about SnapshotInstall, for any number of streams, peers, chunks  *)
(* and indices, and any retention: what InstallSnapshotChunk hands on is   *)
(* one peer's whole snapshot; the newest snapshot on disk never gets older *)
(* and is whole; and recovery has no hole.                                 *)
(***************************************************************************)
EXTENDS SnapshotInstall, FiniteSetTheorems, SequenceTheorems,
        WellFoundedInduction, TLAPS

-----------------------------------------------------------------------------
\* The inductive invariant.

StreamSet == [open : BOOLEAN, key : Keys \cup {0}, from : Peers \cup {Loop},
              sent : 0 .. Chunks]
JobSet == [key : Keys \cup {0}, bytes : Seq(Chunk), victims : SUBSET Keys]

\* The first m chunks of a sender's snapshot.
Part(p, d, m) == [n \in 1 .. m |-> [from |-> p, data |-> d, part |-> n]]

\* A stream of which the session under its key holds chunks.
Owner(s) == stream[s].open /\ stream[s].sent > 0

(* The bytes collected under a key, as long as the stream they came from is*)
(* open, are what that stream has sent, and no other stream of the key has *)
(* sent anything: a stream that finds bytes there begins at the wrong      *)
(* offset.  What a stream that broke off has left is in nobody's way but   *)
(* that of every later one.                                                *)
TransferInv ==
  /\ stream \in [Streams -> StreamSet]
  /\ session \in [Keys -> Seq(Chunk)] /\ \A k \in Keys : Len(session[k]) < Chunks
  /\ \A s \in Streams :
       stream[s].open => /\ stream[s].key \in Keys /\ stream[s].from \in Peers
                         /\ stream[s].sent < Chunks
  /\ \A s \in Streams :
       Owner(s) => session[stream[s].key] = Part(stream[s].from, DataAt(stream[s].key), stream[s].sent)
  /\ \A s, t \in Streams :
       Owner(s) /\ Owner(t) /\ stream[s].key = stream[t].key => s = t

\* The parts of the type invariant that the actions change together.
CreateType ==
  /\ pc \in [Writers -> Steps] /\ job \in [Writers -> JobSet]
  /\ fd \in [Writers -> {"none", "tmp", "snap", "gone"}] /\ clash \subseteq Keys
FileType ==
  /\ tmp \in [DOMAIN tmp -> Seq(Chunk)] /\ DOMAIN tmp \subseteq Keys
  /\ snap \in [DOMAIN snap -> Seq(Chunk)] /\ DOMAIN snap \subseteq Keys
  /\ meta \subseteq Keys
DiskType ==
  /\ kv \in Data /\ setBack \in BOOLEAN /\ hollow \subseteq Keys
  /\ applied \in 0 .. MaxIndex /\ commit \in 0 .. MaxIndex
  /\ wal \subseteq 1 .. MaxIndex
  /\ storage \in [snap : 0 .. MaxIndex, last : 0 .. MaxIndex] /\ raftLast \in 0 .. MaxIndex
BoundType ==
  /\ up \in BOOLEAN /\ refused \in BOOLEAN
  /\ opens \in 0 .. MaxOpens /\ crashes \in 0 .. MaxCrashes

\* Who is at work has a snapshot in hand, a stream's handler a peer's.
JobsInv ==
  /\ \A w \in Writers : pc[w] \notin {"idle", "due"} => job[w].key # 0
  /\ OneSenderPerSnapshot

(* The writers past WriteMeta; the snapshot that they have written is not  *)
(* newer than the newest, and what they are about to unlink is older.      *)
Published == {"sweep", "unlink", "restore", "memory", "index", "prefix", "compact",
              "resweep", "reunlink"}

NewestInv ==
  /\ \A w \in Writers : pc[w] \in Published => job[w].key <= Newest
  /\ \A w \in Writers : pc[w] \in {"unlink", "reunlink"} =>
                          \A v \in job[w].victims : v < Newest

\* Indices up to which something claims to have the log: the HardState, raft, or an
\* entry in the WAL.
Claimed(i) == i <= commit \/ i <= raftLast \/ \E j \in wal : i <= j

(* The committed entries are not enough: what raft believes stable and     *)
(* what lies before a WAL entry will be called committed with the next.    *)
CoverInv ==
  \A i \in Keys : Claimed(i) => i <= Newest \/ i \in wal

-----------------------------------------------------------------------------
\* Operators.

LEMMA MaxIsMax ==
  ASSUME NEW m \in Nat, NEW S \in SUBSET (0 .. m), S # {}
  PROVE  Max(S) \in S /\ \A x \in S : x <= Max(S)
<1> DEFINE T == {m - s : s \in S}
<1>1. T \subseteq Nat /\ T # {}
  <2>1. \A s \in S : m - s \in Nat
    OBVIOUS
  <2>2. PICK s \in S : TRUE
    OBVIOUS
  <2>3. m - s \in T
    BY <2>2
  <2>4. QED
    BY <2>1, <2>3
<1>2. \E n \in T : \A l \in T : ~(<<l, n>> \in OpToRel(<, Nat))
  <2> HIDE DEF T
  <2>1. QED
    BY <1>1, NatLessThanWellFounded, WFMin
<1>3. PICK n \in T : \A l \in T : ~(l < n)
  <2> HIDE DEF T
  <2>1. QED
    BY <1>1, <1>2 DEF OpToRel
<1>4. PICK b \in S : n = m - b
  BY <1>3
<1>5. ASSUME NEW y \in S PROVE b >= y
  <2>1. m - y \in T
    OBVIOUS
  <2>2. ~(m - y < m - b)
    <3> HIDE DEF T
    <3>1. QED
      BY <1>3, <1>4, <2>1
  <2>3. m \in Int /\ b \in Int /\ y \in Int
    OBVIOUS
  <2> HIDE DEF T
  <2>4. QED
    BY <2>2, <2>3
<1>6. \A y \in S : y <= b
  <2> HIDE DEF T
  <2>1. \A y \in S : y \in Int
    OBVIOUS
  <2>2. b \in Int
    OBVIOUS
  <2>3. QED
    BY <1>5, <2>1, <2>2
<1>7. \E e \in S : \A y \in S : y <= e
  <2> HIDE DEF T
  <2>1. QED
    BY <1>6
<1> HIDE DEF T
<1>8. QED
  BY <1>7 DEF Max

LEMMA ConstantsType ==
  /\ Chunks \in Nat /\ Chunks >= 1 /\ MaxIndex \in Nat /\ SnapshotEntries \in Nat
  /\ SnapshotEntries >= 1 /\ Keep >= 1 /\ KeepSnapshots >= 1
  /\ Keep \in Nat /\ KeepSnapshots \in Nat /\ Loop \notin Streams
BY ConstantsAssumption

LEMMA DataAtType == \A k \in 0 .. MaxIndex : DataAt(k) \in Data
BY ConstantsType DEF DataAt, Data, Keys

LEMMA PartIsPart ==
  ASSUME NEW p \in Peers \cup {Loop}, NEW d \in Data, NEW m \in 0 .. Chunks
  PROVE  /\ Part(p, d, m) \in Seq(Chunk) /\ Len(Part(p, d, m)) = m
         /\ Split(p, d) = Part(p, d, Chunks)
         /\ m = 0 => Part(p, d, m) = <<>>
         /\ m < Chunks => Append(Part(p, d, m), Split(p, d)[m + 1]) = Part(p, d, m + 1)
<1>1. \A n \in 1 .. m : [from |-> p, data |-> d, part |-> n] \in Chunk
  BY ConstantsType DEF Chunk
<1>2. Part(p, d, m) \in Seq(Chunk) /\ Len(Part(p, d, m)) = m
  BY <1>1, ConstantsType DEF Part
<1>3. Split(p, d) = Part(p, d, Chunks)
  BY DEF Split, Part
<1>4. m = 0 => Part(p, d, m) = <<>>
  BY <1>2
<1>5. ASSUME m < Chunks
      PROVE  Append(Part(p, d, m), Split(p, d)[m + 1]) = Part(p, d, m + 1)
  <2>1. Split(p, d)[m + 1] = [from |-> p, data |-> d, part |-> m + 1]
    BY <1>5, ConstantsType DEF Split
  <2>2. QED
    BY <1>2, <1>5, <2>1, ConstantsType DEF Part
<1>6. QED
  BY <1>2, <1>3, <1>4, <1>5

NewestOf(S) == IF S = {} THEN 0 ELSE Max(S)

LEMMA NewestOfIsNewest ==
  ASSUME NEW S \in SUBSET Keys
  PROVE  /\ NewestOf(S) \in 0 .. MaxIndex
         /\ \A k \in S : k <= NewestOf(S)
         /\ S # {} => NewestOf(S) \in S
<1>1. CASE S = {}
  BY <1>1, ConstantsType DEF NewestOf
<1>2. CASE S # {}
  <2>1. S \in SUBSET (0 .. MaxIndex)
    BY ConstantsType DEF Keys
  <2>2. QED
    BY <1>2, <2>1, MaxIsMax, ConstantsType DEF NewestOf
<1>3. QED
  BY <1>1, <1>2

LEMMA NewestIsNewest ==
  ASSUME meta \subseteq Keys
  PROVE  /\ Newest \in 0 .. MaxIndex
         /\ \A k \in meta : k <= Newest
         /\ meta # {} => Newest \in meta
BY NewestOfIsNewest DEF Newest, NewestOf

\* Cleanup never takes the newest.
LEMMA VictimsAreOlder ==
  ASSUME meta \subseteq Keys, NEW keep \in Nat, keep >= 1
  PROVE  Victims(keep) \subseteq meta /\ \A v \in Victims(keep) : v < Newest
<1>1. Victims(keep) \subseteq meta
  BY DEF Victims
<1>2. ASSUME NEW v \in Victims(keep) PROVE v < Newest
  <2>1. v \in meta /\ Cardinality({j \in meta : j > v}) >= keep
    BY <1>2 DEF Victims
  <2>2. {j \in meta : j > v} # {}
    BY <2>1, FS_EmptySet
  <2>3. PICK j \in meta : j > v
    BY <2>2
  <2>4. j <= Newest /\ Newest \in 0 .. MaxIndex
    BY NewestIsNewest
  <2>5. QED
    BY <2>1, <2>3, <2>4, ConstantsType DEF Keys
<1>3. QED
  BY <1>1, <1>2

-----------------------------------------------------------------------------
\* Who changes what.

LEMMA CreateStepFrame ==
  ASSUME NEW w \in Writers, CreateStep(w)
  PROVE  UNCHANGED <<stream, session, opens, kv, setBack, hollow, applied, wal, commit, storage,
                     raftLast, up>>
BY DEF CreateStep, streamVars, dataVars, diskVars, memVars

LEMMA InstallStepFrame ==
  ASSUME NEW s \in Streams, InstallStep(s)
  PROVE  UNCHANGED <<stream, session, opens, meta, snap, tmp, hollow, commit, raftLast, up>>
BY DEF InstallStep, RestoreData, ApplyToStorage, SetIndex, TruncateWal, streamVars, fileVars,
       dataVars, diskVars, memVars

-----------------------------------------------------------------------------
\* The transfer.

LEMMA ClosedType ==
  ASSUME TransferInv, NEW s \in Streams
  PROVE  /\ Closed(s) \in [Streams -> StreamSet]
         /\ Closed(s)[s].open = FALSE
         /\ \A t \in Streams \ {s} : Closed(s)[t] = stream[t]
<1> DEFINE half == [stream EXCEPT ![s].open = FALSE]
<1>1. stream \in [Streams -> StreamSet]
  BY DEF TransferInv
<1>2. /\ half \in [Streams -> StreamSet] /\ half[s].open = FALSE
      /\ \A t \in Streams \ {s} : half[t] = stream[t]
  BY <1>1 DEF StreamSet
<1>3. Closed(s) = [half EXCEPT ![s].sent = 0]
  BY <1>1 DEF Closed, StreamSet
<1> HIDE DEF half
<1>4. 0 \in 0 .. Chunks
  BY ConstantsType
<1>5. QED
  BY <1>2, <1>3, <1>4 DEF StreamSet

LEMMA CloseTransfer ==
  ASSUME TransferInv, NEW s \in Streams, stream' = Closed(s), UNCHANGED session
  PROVE  TransferInv'
<1>1. /\ stream' \in [Streams -> StreamSet]
      /\ stream'[s].open = FALSE
      /\ \A t \in Streams \ {s} : stream'[t] = stream[t]
  BY ClosedType
<1>2. \A t \in Streams : stream'[t].open => t # s /\ stream'[t] = stream[t] /\ stream[t].open
  BY <1>1
<1>3. QED
  BY <1>1, <1>2 DEF TransferInv, Owner

\* The bytes so far with the next chunk.
LEMMA NextBytes ==
  ASSUME TransferInv, NEW s \in Streams, stream[s].open, OffsetFits(s),
         NEW k, k = stream[s].key, NEW p, p = stream[s].from, NEW n, n = stream[s].sent
  PROVE  /\ k \in Keys /\ p \in Peers /\ n \in 0 .. Chunks - 1 /\ n = Len(session[k])
         /\ Append(session[k], Split(p, DataAt(k))[n + 1]) = Part(p, DataAt(k), n + 1)
<1>1. /\ stream[s] \in StreamSet /\ k \in Keys /\ p \in Peers
      /\ n \in 0 .. Chunks - 1
      /\ n = Len(session[k]) /\ session[k] \in Seq(Chunk)
  BY ConstantsType DEF TransferInv, OffsetFits, StreamSet
<1>2. DataAt(k) \in Data /\ p \in Peers \cup {Loop} /\ n \in 0 .. Chunks /\ n < Chunks
  BY <1>1, ConstantsType, DataAtType DEF Keys
<1>3. CASE n = 0
  <2>1. session[k] = <<>>
    BY <1>1, <1>3, EmptySeq
  <2>2. Part(p, DataAt(k), n) = <<>>
    BY <1>2, <1>3, PartIsPart
  <2>3. Append(Part(p, DataAt(k), n), Split(p, DataAt(k))[n + 1]) = Part(p, DataAt(k), n + 1)
    BY <1>2, PartIsPart
  <2>4. QED
    BY <1>1, <2>1, <2>2, <2>3
<1>4. CASE n # 0
  <2>1. Owner(s)
    BY <1>1, <1>4 DEF Owner
  <2>2. session[k] = Part(p, DataAt(k), n)
    BY <2>1 DEF TransferInv
  <2>3. Append(Part(p, DataAt(k), n), Split(p, DataAt(k))[n + 1]) = Part(p, DataAt(k), n + 1)
    BY <1>2, PartIsPart
  <2>4. QED
    BY <1>1, <2>2, <2>3
<1>5. QED
  BY <1>3, <1>4

LEMMA ReceiveTransfer ==
  ASSUME TransferInv, NEW s \in Streams, ReceiveChunk(s)
  PROVE  TransferInv'
<1> DEFINE k == stream[s].key
           p == stream[s].from
           n == stream[s].sent
           bytes == Append(session[k], Split(p, DataAt(k))[n + 1])
<1>1. /\ stream[s].open /\ stream[s] \in StreamSet /\ k \in Keys /\ p \in Peers
      /\ n \in 0 .. Chunks - 1
      /\ n = Len(session[k]) /\ session[k] \in Seq(Chunk)
  BY ConstantsType DEF ReceiveChunk, TransferInv, OffsetFits, StreamSet
<1>2. /\ DataAt(k) \in Data /\ p \in Peers \cup {Loop} /\ n \in 0 .. Chunks
      /\ n + 1 \in 0 .. Chunks
  BY <1>1, ConstantsType, DataAtType DEF Keys
<1>a. /\ n + 1 = Chunks => session' = [session EXCEPT ![k] = <<>>] /\ stream' = Closed(s)
      /\ n + 1 # Chunks => /\ session' = [session EXCEPT ![k] = bytes]
                           /\ stream' = [stream EXCEPT ![s].sent = @ + 1]
  BY DEF ReceiveChunk
<1>b. \A t \in Streams :
        Owner(t) /\ stream[t].key = k =>
          /\ stream[t].from \in Peers /\ stream[t].sent \in 1 .. Chunks - 1
          /\ session[k] = Part(stream[t].from, DataAt(k), stream[t].sent)
          /\ n > 0 => t = s
  BY <1>1, ConstantsType DEF TransferInv, Owner, StreamSet
<1>d. k = stream[s].key /\ p = stream[s].from /\ n = stream[s].sent
      /\ bytes = Append(session[k], Split(p, DataAt(k))[n + 1])
  OBVIOUS
<1> HIDE DEF k, p, n, bytes
<1>4. bytes = Part(p, DataAt(k), n + 1)
  <2>1. stream[s].open /\ OffsetFits(s)
    BY DEF ReceiveChunk
  <2>2. QED
    BY <1>d, <2>1, NextBytes
<1>e. bytes \in Seq(Chunk) /\ Len(bytes) = n + 1
  BY <1>2, <1>4, PartIsPart
<1>5. ASSUME NEW t \in Streams \ {s}, Owner(t) PROVE stream[t].key # k
  <2> SUFFICES ASSUME stream[t].key = k PROVE FALSE
    OBVIOUS
  <2>1. /\ stream[t].from \in Peers \cup {Loop} /\ stream[t].sent \in 0 .. Chunks
        /\ stream[t].sent > 0
        /\ session[k] = Part(stream[t].from, DataAt(k), stream[t].sent)
        /\ ~(n > 0)
    BY <1>5, <1>b, ConstantsType
  <2>2. Len(Part(stream[t].from, DataAt(k), stream[t].sent)) = stream[t].sent
    BY <1>2, <2>1, PartIsPart
  <2>3. QED
    BY <1>1, <2>1, <2>2
<1>6. CASE n + 1 = Chunks
  <2>1. session' = [session EXCEPT ![k] = <<>>] /\ stream' = Closed(s)
    BY <1>6, <1>a
  <2>2. /\ session' \in [Keys -> Seq(Chunk)] /\ \A i \in Keys : Len(session'[i]) < Chunks
        /\ \A i \in Keys \ {k} : session'[i] = session[i]
    BY <1>1, <2>1, ConstantsType DEF TransferInv
  <2>3. /\ stream' \in [Streams -> StreamSet]
        /\ stream'[s].open = FALSE
        /\ \A t \in Streams \ {s} : stream'[t] = stream[t]
    BY <2>1, ClosedType
  <2>4. \A t \in Streams :
          stream'[t].open => t \in Streams \ {s} /\ stream'[t] = stream[t] /\ stream[t].open
    BY <2>3
  <2>5. \A t \in Streams :
          Owner(t)' => /\ Owner(t) /\ stream'[t] = stream[t] /\ stream[t].key # k
                       /\ stream[t].key \in Keys
    BY <1>5, <2>4 DEF Owner, TransferInv
  <2>6. \A t \in Streams : Owner(t)' => session'[stream'[t].key] = session[stream[t].key]
    BY <2>2, <2>5
  <2>7. QED
    BY <2>2, <2>3, <2>4, <2>5, <2>6 DEF TransferInv
<1>7. CASE n + 1 # Chunks
  <2>1. /\ session' = [session EXCEPT ![k] = bytes]
        /\ stream' = [stream EXCEPT ![s].sent = @ + 1]
    BY <1>7, <1>a
  <2>2. /\ session' \in [Keys -> Seq(Chunk)] /\ \A i \in Keys : Len(session'[i]) < Chunks
        /\ session'[k] = bytes
        /\ \A i \in Keys \ {k} : session'[i] = session[i]
    BY <1>1, <1>e, <1>7, <2>1, ConstantsType DEF TransferInv
  <2>3. stream' = [stream EXCEPT ![s] = [stream[s] EXCEPT !.sent = n + 1]]
    BY <1>1, <1>d, <2>1 DEF StreamSet, TransferInv
  <2>4. [stream[s] EXCEPT !.sent = n + 1] \in StreamSet
    BY <1>1, <1>2 DEF StreamSet
  <2>5. /\ stream' \in [Streams -> StreamSet]
        /\ stream'[s] = [stream[s] EXCEPT !.sent = n + 1]
        /\ \A t \in Streams \ {s} : stream'[t] = stream[t]
    BY <2>3, <2>4 DEF TransferInv
  <2>6. /\ stream'[s].open /\ stream'[s].key = k /\ stream'[s].from = p
        /\ stream'[s].sent = n + 1 /\ n + 1 < Chunks
    BY <1>1, <1>7, <1>d, <2>5, ConstantsType DEF StreamSet
  <2>7. \A t \in Streams :
          stream'[t].open => /\ stream'[t].key \in Keys /\ stream'[t].from \in Peers
                             /\ stream'[t].sent < Chunks
    BY <1>1, <2>5, <2>6 DEF TransferInv
  <2>8. ASSUME NEW t \in Streams, Owner(t)'
        PROVE  session'[stream'[t].key] =
                 Part(stream'[t].from, DataAt(stream'[t].key), stream'[t].sent)
    <3>1. CASE t = s
      BY <1>4, <2>2, <2>6, <3>1
    <3>2. CASE t # s
      <4>1. Owner(t) /\ stream'[t] = stream[t] /\ t \in Streams \ {s}
        BY <2>5, <2>8, <3>2 DEF Owner
      <4>2. stream[t].key # k /\ stream[t].key \in Keys
        BY <1>5, <4>1 DEF Owner, TransferInv
      <4>3. session[stream[t].key] =
              Part(stream[t].from, DataAt(stream[t].key), stream[t].sent)
        BY <4>1 DEF TransferInv
      <4>4. QED
        BY <2>2, <4>1, <4>2, <4>3
    <3>3. QED
      BY <3>1, <3>2
  <2>9. ASSUME NEW t \in Streams, NEW u \in Streams, Owner(t)', Owner(u)',
               stream'[t].key = stream'[u].key
        PROVE  t = u
    <3>1. \A v \in Streams \ {s} : Owner(v)' => Owner(v) /\ stream'[v] = stream[v]
      BY <2>5 DEF Owner
    <3>2. \A v \in Streams \ {s} : Owner(v)' => stream'[v].key # stream'[s].key
      BY <1>5, <2>6, <3>1
    <3>3. CASE t # s /\ u # s
      BY <2>9, <3>1, <3>3 DEF TransferInv
    <3>4. QED
      BY <2>9, <3>2, <3>3
  <2>10. QED
    BY <2>2, <2>5, <2>7, <2>8, <2>9 DEF TransferInv
<1>8. QED
  BY <1>1, <1>2, <1>6, <1>7, ConstantsType

LEMMA StepTransfer == TransferInv /\ [Next]_vars => TransferInv'
<1> SUFFICES ASSUME TransferInv, [Next]_vars PROVE TransferInv'
  OBVIOUS
<1>0. ASSUME UNCHANGED <<stream, session>> PROVE TransferInv'
  BY <1>0 DEF TransferInv, Owner
<1>1. ASSUME NEW s \in Streams, NEW p \in Peers, NEW k \in PeerKeys, OpenStream(s, p, k)
      PROVE  TransferInv'
  <2>1. k \in Keys /\ UNCHANGED session
    BY <1>1 DEF PeerKeys, OpenStream
  <2>2. /\ stream' \in [Streams -> StreamSet]
        /\ stream'[s] = [open |-> TRUE, key |-> k, from |-> p, sent |-> 0]
        /\ \A t \in Streams \ {s} : stream'[t] = stream[t]
    BY <1>1, <2>1, ConstantsType, SMTT(30) DEF OpenStream, TransferInv, StreamSet
  <2>3. \A t \in Streams :
          Owner(t)' => t \in Streams \ {s} /\ Owner(t) /\ stream'[t] = stream[t]
    BY <2>2 DEF Owner
  <2>4. \A t \in Streams :
          stream'[t].open => /\ stream'[t].key \in Keys /\ stream'[t].from \in Peers
                             /\ stream'[t].sent < Chunks
    BY <2>1, <2>2, ConstantsType, SMTT(30) DEF TransferInv
  <2>5. QED
    BY <2>1, <2>2, <2>3, <2>4 DEF TransferInv
<1>2. ASSUME NEW s \in Streams, RefuseChunk(s) \/ BreakStream(s) PROVE TransferInv'
  BY <1>2, CloseTransfer DEF RefuseChunk, BreakStream
<1>3. CASE Crash
  <2>1. /\ stream' = [s \in Streams |-> [open |-> FALSE, key |-> 0, from |-> Loop, sent |-> 0]]
        /\ session' = [k \in Keys |-> <<>>]
    BY <1>3 DEF Crash
  <2>2. QED
    BY <2>1, ConstantsType DEF TransferInv, Owner, StreamSet
<1>4. CASE Advance \/ SkipExport \/ Export \/ CompactWal \/ Restart
  BY <1>0, <1>4 DEF Advance, SkipExport, Export, CompactWal, Restart, streamVars
<1>5. CASE UNCHANGED vars
  BY <1>0, <1>5 DEF vars, streamVars
<1>6. QED
  BY <1>0, <1>1, <1>2, <1>3, <1>4, <1>5, ReceiveTransfer, CreateStepFrame, InstallStepFrame
     DEF Next

-----------------------------------------------------------------------------
\* Type correctness, and what the writers have in hand.

TypeInv == CreateType /\ FileType /\ DiskType /\ BoundType /\ JobsInv

LEMMA TypeOKParts ==
  TransferInv /\ TypeInv => TypeOK
BY DEF TransferInv, TypeInv, CreateType, FileType, DiskType, BoundType, TypeOK, StreamSet,
       JobSet, Keys

LEMMA FreeType == Free \in JobSet /\ Free.key = 0
BY DEF Free, JobSet

\* A writer that goes from one step to the next, or home with nothing in hand.
LEMMA GotoType ==
  ASSUME CreateType, JobsInv, NEW w \in Writers, NEW step \in Steps, Goto(w, step),
         \/ job' = job /\ job[w].key # 0
         \/ job' = [job EXCEPT ![w] = Free] /\ step = "idle"
         \/ job' = job /\ step \in {"idle", "due"}
  PROVE  pc' \in [Writers -> Steps] /\ job' \in [Writers -> JobSet] /\ JobsInv'
<1>1. pc' \in [Writers -> Steps] /\ pc'[w] = step /\ \A v \in Writers \ {w} : pc'[v] = pc[v]
  BY DEF CreateType, Goto
<1>2. CASE job' = job
  BY <1>1, <1>2 DEF CreateType, JobsInv, OneSenderPerSnapshot, Writers
<1>3. CASE job' = [job EXCEPT ![w] = Free] /\ step = "idle"
  <2>1. /\ job' \in [Writers -> JobSet] /\ job'[w].key = 0
        /\ \A v \in Writers \ {w} : job'[v] = job[v]
    BY <1>3, FreeType DEF CreateType
  <2>2. QED
    BY <1>1, <1>3, <2>1 DEF JobsInv, OneSenderPerSnapshot, Writers
<1>4. QED
  BY <1>2, <1>3

LEMMA BeginType ==
  ASSUME CreateType, JobsInv, NEW w \in Writers, NEW k \in Keys, NEW bytes \in Seq(Chunk),
         w \in Streams => \E p \in Peers : bytes = Split(p, DataAt(k)),
         Begin(w, k, bytes)
  PROVE  CreateType' /\ JobsInv'
<1>1. [key |-> k, bytes |-> bytes, victims |-> {}] \in JobSet
  BY DEF JobSet
<1>2. /\ pc' \in [Writers -> Steps] /\ job' \in [Writers -> JobSet]
      /\ pc'[w] = "open" /\ job'[w] = [key |-> k, bytes |-> bytes, victims |-> {}]
      /\ \A v \in Writers \ {w} : pc'[v] = pc[v] /\ job'[v] = job[v]
  BY <1>1 DEF CreateType, Begin, Steps
<1>3. clash' \subseteq Keys /\ fd' = fd
  BY DEF CreateType, Begin
<1>4. k # 0
  BY ConstantsType DEF Keys
<1>5. QED
  BY <1>2, <1>3, <1>4 DEF CreateType, JobsInv, OneSenderPerSnapshot, Writers

LEMMA ReceiveType ==
  ASSUME TransferInv, CreateType, JobsInv, NEW s \in Streams, ReceiveChunk(s)
  PROVE  CreateType' /\ JobsInv'
<1> DEFINE k == stream[s].key
           p == stream[s].from
           n == stream[s].sent
<1>1. /\ k \in Keys /\ p \in Peers /\ n \in 0 .. Chunks - 1
      /\ Append(session[k], Split(p, DataAt(k))[n + 1]) = Part(p, DataAt(k), n + 1)
  BY NextBytes DEF ReceiveChunk
<1>2. CASE n + 1 = Chunks
  <2>1. DataAt(k) \in Data /\ p \in Peers \cup {Loop} /\ Chunks \in 0 .. Chunks
    BY <1>1, ConstantsType, DataAtType DEF Keys
  <2>2. Part(p, DataAt(k), n + 1) = Split(p, DataAt(k)) /\ Part(p, DataAt(k), n + 1) \in Seq(Chunk)
    BY <1>2, <2>1, PartIsPart
  <2>3. Begin(s, k, Part(p, DataAt(k), n + 1))
    BY <1>1, <1>2 DEF ReceiveChunk
  <2>4. s \in Writers
    BY DEF Writers
  <2>5. QED
    BY <1>1, <2>2, <2>3, <2>4, BeginType
<1>3. CASE n + 1 # Chunks
  <2>1. UNCHANGED <<pc, job, fd, clash>>
    BY <1>3 DEF ReceiveChunk, createVars
  <2>2. QED
    BY <2>1 DEF CreateType, JobsInv, OneSenderPerSnapshot
<1>4. QED
  BY <1>2, <1>3

LEMMA CreateStepType ==
  ASSUME CreateType, FileType, JobsInv, NEW w \in Writers, CreateStep(w)
  PROVE  CreateType' /\ FileType' /\ JobsInv'
<1>0. /\ pc[w] \notin {"idle", "due"} => job[w].key \in Keys /\ job[w].key # 0
      /\ job[w] \in JobSet
  BY DEF CreateType, JobsInv, JobSet
<1>1. CASE OpenTmp(w)
  <2>1. job[w].key \in Keys /\ job[w].key # 0 /\ "write" \in Steps
    BY <1>0, <1>1 DEF OpenTmp, Steps
  <2>2. /\ DOMAIN tmp' = DOMAIN tmp \cup {job[w].key}
        /\ tmp' \in [DOMAIN tmp' -> Seq(Chunk)]
    BY <1>1 DEF OpenTmp, FileType, Placed
  <2>3. fd' \in [Writers -> {"none", "tmp", "snap", "gone"}]
    BY <1>1 DEF OpenTmp, CreateType
  <2>4. QED
    BY <1>1, <2>1, <2>2, <2>3, GotoType DEF OpenTmp, CreateType, FileType
<1>2. CASE WriteTmp(w)
  <2>1. job[w].key # 0 /\ job[w].bytes \in Seq(Chunk) /\ "rename" \in Steps
    BY <1>0, <1>2 DEF WriteTmp, Steps, JobSet
  <2>2. /\ DOMAIN tmp' = DOMAIN tmp /\ tmp' \in [DOMAIN tmp' -> Seq(Chunk)]
        /\ DOMAIN snap' = DOMAIN snap /\ snap' \in [DOMAIN snap' -> Seq(Chunk)]
    BY <1>2, <2>1 DEF WriteTmp, FileType
  <2>3. QED
    BY <1>2, <2>1, <2>2, GotoType DEF WriteTmp, CreateType, FileType
<1>3. CASE RenameTmp(w)
  <2>1. job[w].key \in Keys /\ job[w].key # 0 /\ "meta" \in Steps
    BY <1>0, <1>3 DEF RenameTmp, Steps
  <2>2. /\ DOMAIN snap' = DOMAIN snap \cup {job[w].key}
        /\ snap' \in [DOMAIN snap' -> Seq(Chunk)]
    BY <1>3 DEF RenameTmp, FileType, Placed
  <2>3. DOMAIN tmp' \subseteq DOMAIN tmp /\ tmp' \in [DOMAIN tmp' -> Seq(Chunk)]
    BY <1>3 DEF RenameTmp, FileType, Restrict
  <2>4. fd' \in [Writers -> {"none", "tmp", "snap", "gone"}]
    BY <1>3 DEF RenameTmp, CreateType
  <2>5. QED
    BY <1>3, <2>1, <2>2, <2>3, <2>4, GotoType DEF RenameTmp, CreateType, FileType
<1>4. CASE RenameFails(w)
  <2>1. fd' \in [Writers -> {"none", "tmp", "snap", "gone"}]
    BY <1>4 DEF RenameFails, CreateFails, CreateType
  <2>2. QED
    BY <1>4, <2>1, GotoType DEF RenameFails, CreateFails, CreateType, FileType, fileVars, Steps
<1>5. CASE WriteMeta(w)
  <2>1. job[w].key \in Keys /\ job[w].key # 0 /\ "sweep" \in Steps
    BY <1>0, <1>5 DEF WriteMeta, Steps
  <2>2. QED
    BY <1>5, <2>1, GotoType DEF WriteMeta, CreateType, FileType
<1>6. ASSUME NEW from \in {"sweep", "resweep"}, NEW to \in {"unlink", "reunlink"}, NEW keep,
             Sweep(w, from, to, keep)
      PROVE  CreateType' /\ FileType' /\ JobsInv'
  <2>1. job[w].key # 0
    BY <1>0, <1>6 DEF Sweep
  <2>2. Victims(keep) \in SUBSET Keys
    BY DEF Victims, FileType
  <2>3. /\ job' \in [Writers -> JobSet]
        /\ job'[w].key = job[w].key /\ job'[w].bytes = job[w].bytes
        /\ \A v \in Writers \ {w} : job'[v] = job[v]
    BY <1>6, <2>2 DEF Sweep, CreateType, JobSet
  <2>4. /\ pc' \in [Writers -> Steps] /\ \A v \in Writers \ {w} : pc'[v] = pc[v]
    BY <1>6 DEF Sweep, CreateType, Goto, Steps
  <2>5. DOMAIN snap' \subseteq DOMAIN snap /\ snap' \in [DOMAIN snap' -> Seq(Chunk)]
    BY <1>6 DEF Sweep, FileType, Restrict
  <2>6. fd' \in [Writers -> {"none", "tmp", "snap", "gone"}]
    BY <1>6 DEF Sweep, CreateType
  <2>7. JobsInv'
    BY <2>1, <2>3, <2>4 DEF JobsInv, OneSenderPerSnapshot, Writers
  <2>8. QED
    BY <1>6, <2>3, <2>4, <2>5, <2>6, <2>7 DEF Sweep, CreateType, FileType
<1>7. ASSUME NEW from \in {"unlink", "reunlink"}, NEW to \in {"compact", "restore", "idle"},
             Unlink(w, from, to)
      PROVE  CreateType' /\ FileType' /\ JobsInv'
  <2>1. job[w].key # 0 /\ to \in Steps
    BY <1>0, <1>7 DEF Unlink, Steps
  <2>2. QED
    BY <1>7, <2>1, GotoType DEF Unlink, CreateType, FileType
<1>8. QED
  BY <1>1, <1>2, <1>3, <1>4, <1>5, <1>6, <1>7 DEF CreateStep

\* What Restore puts into Pebble.
LEMMA RestoredData ==
  ASSUME JobsInv, NEW s \in Streams, job[s].key # 0, RestoreData(s)
  PROVE  kv' = DataAt(job[s].key)
<1>1. PICK p \in Peers : job[s].bytes = Split(p, DataAt(job[s].key))
  BY DEF JobsInv, OneSenderPerSnapshot
<1>2. QED
  BY <1>1, ConstantsType DEF RestoreData, Split

LEMMA InstallStepType ==
  ASSUME CreateType, DiskType, BoundType, JobsInv, NEW s \in Streams, InstallStep(s)
  PROVE  CreateType' /\ DiskType' /\ BoundType' /\ JobsInv'
<1>0. s \in Writers /\ {"idle", "memory", "index", "prefix"} \subseteq Steps
  BY DEF Writers, Steps
<1>a. pc[s] \notin {"idle", "due"}
  BY DEF InstallStep, RestoreData, ApplyToStorage, SetIndex, TruncateWal
<1>b. job[s].key \in Keys /\ job[s].key # 0
  BY <1>0, <1>a DEF CreateType, JobsInv, JobSet
<1>c. job[s].key \in 0 .. MaxIndex
  BY <1>b, ConstantsType DEF Keys
<1>1. CASE RestoreData(s)
  <2>1. kv' \in Data /\ setBack' \in BOOLEAN
    BY <1>1, <1>b, <1>c, RestoredData, DataAtType DEF RestoreData
  <2>2. QED
    BY <1>0, <1>1, <1>b, <1>c, <2>1, GotoType
       DEF InstallStep, RestoreData, CreateType, DiskType, BoundType, streamVars, memVars
<1>2. CASE ApplyToStorage(s)
  <2>1. storage' \in [snap : 0 .. MaxIndex, last : 0 .. MaxIndex]
    BY <1>2, <1>c DEF ApplyToStorage, DiskType
  <2>2. QED
    BY <1>0, <1>2, <1>b, <2>1, GotoType
       DEF InstallStep, ApplyToStorage, CreateType, DiskType, BoundType, streamVars, diskVars,
           dataVars
<1>3. CASE SetIndex(s)
  BY <1>0, <1>3, <1>b, <1>c, GotoType
     DEF InstallStep, SetIndex, CreateType, DiskType, BoundType, streamVars, dataVars, memVars
<1>4. CASE TruncateWal(s)
  <2>1. wal' \subseteq 1 .. MaxIndex
    BY <1>4 DEF TruncateWal, Truncated, DiskType
  <2>2. QED
    BY <1>0, <1>4, <2>1, GotoType
       DEF InstallStep, TruncateWal, CreateType, DiskType, BoundType, streamVars, dataVars,
           memVars
<1>5. QED
  BY <1>1, <1>2, <1>3, <1>4 DEF InstallStep

LEMMA LoopIsWriter == Loop \in Writers /\ Loop \notin Streams
BY ConstantsType DEF Writers

LEMMA AdvanceType ==
  ASSUME CreateType, DiskType, BoundType, JobsInv, Advance
  PROVE  CreateType' /\ DiskType' /\ BoundType' /\ JobsInv'
<1>1. raftLast + 1 \in 1 .. MaxIndex /\ raftLast + 1 \in 0 .. MaxIndex
  BY ConstantsType DEF Advance, DiskType
<1>2. storage' \in [snap : 0 .. MaxIndex, last : 0 .. MaxIndex]
  BY <1>1 DEF Advance, DiskType
<1>3. "due" \in Steps
  BY DEF Steps
<1>4. With(kv, raftLast + 1) \in Data
  BY <1>1 DEF With, Data, DiskType, Keys
<1>5. QED
  BY <1>1, <1>2, <1>3, <1>4, LoopIsWriter, GotoType
     DEF Advance, CreateType, DiskType, BoundType, streamVars

LEMMA ExportType ==
  ASSUME CreateType, DiskType, BoundType, JobsInv, Export
  PROVE  CreateType' /\ DiskType' /\ BoundType' /\ JobsInv'
<1>1. applied \in Keys
  BY ConstantsType DEF Export, Due, DiskType, Keys
<1>2. storage' \in [snap : 0 .. MaxIndex, last : 0 .. MaxIndex]
  BY DEF Export, DiskType
<1>3. Split(Loop, kv) \in Seq(Chunk)
  <2>1. kv \in Data /\ Loop \in Peers \cup {Loop} /\ Chunks \in 0 .. Chunks
    BY ConstantsType DEF DiskType
  <2>2. QED
    BY <2>1, PartIsPart
<1>4. CreateType' /\ JobsInv'
  BY <1>1, <1>3, LoopIsWriter, BeginType DEF Export
<1>5. hollow' \subseteq Keys
  BY <1>1 DEF Export, DiskType
<1>6. QED
  BY <1>2, <1>4, <1>5 DEF Export, DiskType, BoundType, streamVars

LEMMA CompactType ==
  ASSUME CreateType, DiskType, BoundType, JobsInv, CompactWal
  PROVE  CreateType' /\ DiskType' /\ BoundType' /\ JobsInv'
<1>1. wal' \subseteq 1 .. MaxIndex
  BY DEF CompactWal, Truncated, DiskType
<1>2. "resweep" \in Steps /\ job[Loop].key # 0
  BY LoopIsWriter DEF CompactWal, Steps, JobsInv
<1>3. QED
  BY <1>1, <1>2, LoopIsWriter, GotoType
     DEF CompactWal, CreateType, DiskType, BoundType, streamVars, dataVars, memVars

LEMMA CrashType ==
  ASSUME CreateType, FileType, DiskType, BoundType, Crash
  PROVE  CreateType' /\ FileType' /\ DiskType' /\ BoundType' /\ JobsInv'
<1>1. crashes' \in 0 .. MaxCrashes
  BY ConstantsAssumption DEF Crash, BoundType
<1>2. storage' \in [snap : 0 .. MaxIndex, last : 0 .. MaxIndex] /\ raftLast' \in 0 .. MaxIndex
  BY ConstantsType DEF Crash
<1>3. CreateType' /\ JobsInv'
  BY FreeType DEF Crash, CreateType, JobsInv, OneSenderPerSnapshot, Steps, Writers
<1>4. FileType'
  BY DEF Crash, FileType, fileVars
<1>5. QED
  BY <1>1, <1>2, <1>3, <1>4 DEF Crash, DiskType, BoundType, dataVars, diskVars

LEMMA RestartMaxes ==
  ASSUME FileType, DiskType
  PROVE  LET tail == {i \in wal : i > Newest}
             last == Max(tail \cup {Newest})
             done == Max({i \in tail : i <= commit} \cup {Newest})
         IN /\ last \in tail \cup {Newest} /\ last \in 0 .. MaxIndex
            /\ done \in tail \cup {Newest} /\ done \in 0 .. MaxIndex
            /\ done >= Newest
<1> DEFINE tail == {i \in wal : i > Newest}
           early == {i \in tail : i <= commit}
<1>1. Newest \in 0 .. MaxIndex
  BY NewestIsNewest DEF FileType
<1>2. tail \cup {Newest} \in SUBSET (0 .. MaxIndex) /\ tail \cup {Newest} # {}
  <2>1. wal \subseteq 0 .. MaxIndex
    BY ConstantsType DEF DiskType
  <2>2. tail \subseteq wal
    OBVIOUS
  <2>3. QED
    BY <1>1, <2>1, <2>2
<1>3. early \cup {Newest} \in SUBSET (0 .. MaxIndex) /\ early \cup {Newest} # {}
  BY <1>2
<1>4. Max(tail \cup {Newest}) \in tail \cup {Newest}
  BY <1>2, MaxIsMax, ConstantsType
<1>5. /\ Max(early \cup {Newest}) \in early \cup {Newest}
      /\ \A x \in early \cup {Newest} : x <= Max(early \cup {Newest})
  BY <1>3, MaxIsMax, ConstantsType
<1>6. QED
  BY <1>1, <1>2, <1>3, <1>4, <1>5

LEMMA RestartType ==
  ASSUME CreateType, FileType, DiskType, BoundType, JobsInv, Restart
  PROVE  CreateType' /\ FileType' /\ DiskType' /\ BoundType' /\ JobsInv'
<1> DEFINE tail == {i \in wal : i > Newest}
           last == Max(tail \cup {Newest})
           done == Max({i \in tail : i <= commit} \cup {Newest})
           again == {i \in tail : i <= commit}
           base == IF Newest = 0 \/ snap[Newest] = <<>> THEN DataAt(0) ELSE snap[Newest][1].data
<1>1. last \in 0 .. MaxIndex /\ done \in 0 .. MaxIndex
  BY RestartMaxes
<1>2. Newest \in 0 .. MaxIndex
  BY NewestIsNewest DEF FileType
<1>3. base \in Data /\ again \subseteq Keys
  <2> again \subseteq Keys
    BY DEF DiskType, Keys
  <2>1. CASE Newest = 0 \/ snap[Newest] = <<>>
    BY <2>1, ConstantsType, DataAtType
  <2>2. CASE ~(Newest = 0 \/ snap[Newest] = <<>>)
    <3>1. snap[Newest] \in Seq(Chunk) /\ snap[Newest] # <<>>
      BY <2>2 DEF Restart, FileType
    <3>2. snap[Newest][1] \in Chunk
      BY <3>1, EmptySeq
    <3>3. QED
      BY <2>2, <3>2 DEF Chunk
  <2>3. QED
    BY <2>1, <2>2
<1>4. /\ kv' = [seen |-> base.seen \cup again,
                 last |-> IF again = {} THEN base.last ELSE done]
      /\ setBack' \in BOOLEAN /\ UNCHANGED hollow
      /\ applied' = done
      /\ storage' = [snap |-> Newest, last |-> last] /\ raftLast' = last
      /\ UNCHANGED <<crashes, opens, pc, job, fd, clash, tmp, snap, meta, wal, commit>>
  BY DEF Restart, streamVars, createVars, fileVars
<1>5. refused' \in BOOLEAN /\ up' \in BOOLEAN
  BY DEF Restart
<1> HIDE DEF tail, last, done, again, base
<1>6. DiskType'
  <2>1. kv' \in Data
    BY <1>1, <1>3, <1>4 DEF Data
  <2>2. QED
    BY <1>1, <1>2, <1>4, <2>1 DEF DiskType
<1>7. QED
  BY <1>4, <1>5, <1>6 DEF CreateType, FileType, BoundType, JobsInv, OneSenderPerSnapshot

LEMMA StepTypeInv == TransferInv /\ TypeInv /\ [Next]_vars => TypeInv'
<1> SUFFICES ASSUME TransferInv, TypeInv, [Next]_vars PROVE TypeInv'
  OBVIOUS
<1>0. CreateType /\ FileType /\ DiskType /\ BoundType /\ JobsInv
  BY DEF TypeInv
<1>1. ASSUME NEW s \in Streams, NEW p \in Peers, NEW k \in PeerKeys, OpenStream(s, p, k)
      PROVE  TypeInv'
  <2>1. opens' \in 0 .. MaxOpens
    BY <1>0, <1>1, ConstantsAssumption DEF OpenStream, BoundType
  <2>2. QED
    BY <1>0, <1>1, <2>1 DEF OpenStream, TypeInv, CreateType, FileType, DiskType, BoundType,
       JobsInv, OneSenderPerSnapshot, createVars, fileVars, dataVars, diskVars, memVars
<1>2. ASSUME NEW s \in Streams, RefuseChunk(s) \/ BreakStream(s) PROVE TypeInv'
  BY <1>0, <1>2 DEF RefuseChunk, BreakStream, TypeInv, CreateType, FileType, DiskType,
     BoundType, JobsInv, OneSenderPerSnapshot, createVars, fileVars, dataVars, diskVars, memVars
<1>3. ASSUME NEW s \in Streams, ReceiveChunk(s) PROVE TypeInv'
  BY <1>0, <1>3, ReceiveType
     DEF ReceiveChunk, TypeInv, FileType, DiskType, BoundType, fileVars, dataVars, diskVars, memVars
<1>4. ASSUME NEW s \in Streams, InstallStep(s) PROVE TypeInv'
  BY <1>0, <1>4, InstallStepType DEF InstallStep, TypeInv, FileType, fileVars
<1>5. ASSUME NEW w \in Writers, CreateStep(w) PROVE TypeInv'
  BY <1>0, <1>5, CreateStepType
     DEF CreateStep, TypeInv, DiskType, BoundType, streamVars, dataVars, diskVars, memVars
<1>6. CASE SkipExport
  <2>1. "idle" \in Steps
    BY DEF Steps
  <2>2. QED
    BY <1>0, <1>6, <2>1, LoopIsWriter, GotoType
       DEF SkipExport, TypeInv, CreateType, FileType, DiskType, BoundType, streamVars, fileVars,
           dataVars, diskVars, memVars
<1>7. CASE Advance \/ Export \/ CompactWal
  BY <1>0, <1>7, AdvanceType, ExportType, CompactType
     DEF Advance, Export, CompactWal, TypeInv, FileType, fileVars
<1>8. CASE Crash \/ Restart
  BY <1>0, <1>8, CrashType, RestartType DEF TypeInv
<1>9. CASE UNCHANGED vars
  BY <1>0, <1>9 DEF vars, TypeInv, CreateType, FileType, DiskType, BoundType, JobsInv,
     OneSenderPerSnapshot, streamVars, createVars, fileVars, dataVars, diskVars, memVars
<1>10. QED
  BY <1>1, <1>2, <1>3, <1>4, <1>5, <1>6, <1>7, <1>8, <1>9 DEF Next

LEMMA InitInv == Init => TransferInv /\ TypeInv
<1> SUFFICES ASSUME Init PROVE TransferInv /\ TypeInv
  OBVIOUS
<1>1. TransferInv
  BY ConstantsType, EmptySeq DEF Init, TransferInv, StreamSet, Owner
<1>2. CreateType /\ JobsInv
  BY FreeType DEF Init, CreateType, JobsInv, OneSenderPerSnapshot, Steps, Writers
<1>3. FileType
  BY DEF Init, FileType
<1>4. DiskType /\ BoundType
  <2>1. 0 \in 0 .. MaxIndex /\ 0 \in 0 .. MaxOpens /\ 0 \in 0 .. MaxCrashes
        /\ DataAt(0) \in Data
    BY ConstantsAssumption, DataAtType
  <2>2. QED
    BY <2>1 DEF Init, DiskType, BoundType
<1>5. QED
  BY <1>1, <1>2, <1>3, <1>4 DEF TypeInv

-----------------------------------------------------------------------------
\* The newest snapshot, and the log after it.

\* What a step of Create does to the metadata, and to what is relied on of it.
LEMMA CreateNewest ==
  ASSUME TypeInv, NewestInv, NEW w \in Writers, CreateStep(w)
  PROVE  NewestInv' /\ Newest' >= Newest
<1>0. /\ meta \subseteq Keys /\ meta' \subseteq Keys /\ Newest \in 0 .. MaxIndex
      /\ Newest' \in 0 .. MaxIndex
      /\ \A k \in meta : k <= Newest
      /\ meta # {} => Newest \in meta
      /\ \A k \in meta' : k <= Newest'
      /\ meta' # {} => Newest' \in meta'
  <2>1. meta \subseteq Keys /\ meta' \subseteq Keys
    BY CreateStepType DEF TypeInv, FileType
  <2>2. Newest = NewestOf(meta) /\ Newest' = NewestOf(meta')
    BY DEF Newest, NewestOf
  <2>3. QED
    BY <2>1, <2>2, NewestOfIsNewest
<1>a. \A v \in Writers : job[v] \in JobSet
  BY DEF TypeInv, CreateType
<1>b. /\ pc \in [Writers -> Steps] /\ job \in [Writers -> JobSet]
  BY DEF TypeInv, CreateType
<1>1. CASE OpenTmp(w) \/ WriteTmp(w) \/ RenameTmp(w)
  <2>1. job' = job /\ meta' = meta
    BY <1>1 DEF OpenTmp, WriteTmp, RenameTmp
  <2>2. /\ pc'[w] \notin Published
        /\ \A v \in Writers \ {w} : pc'[v] = pc[v]
    BY <1>1, <1>b DEF OpenTmp, WriteTmp, RenameTmp, Goto, Published
  <2>3. Newest' = Newest
    BY <2>1 DEF Newest
  <2>4. QED
    BY <1>0, <2>1, <2>2, <2>3, ConstantsType DEF NewestInv, Published
<1>2. CASE RenameFails(w)
  <2>1. meta' = meta /\ \A v \in Writers \ {w} : pc'[v] = pc[v] /\ job'[v] = job[v]
    BY <1>2, <1>b DEF RenameFails, CreateFails, Goto, fileVars
  <2>2. pc'[w] = "idle"
    BY <1>2, <1>b DEF RenameFails, CreateFails, Goto
  <2>3. Newest' = Newest
    BY <2>1 DEF Newest
  <2>4. QED
    BY <1>0, <2>1, <2>2, <2>3, ConstantsType DEF NewestInv, Published
<1>3. CASE WriteMeta(w)
  <2>1. job' = job /\ meta' = meta \cup {job[w].key}
    BY <1>3 DEF WriteMeta
  <2>2. pc'[w] = "sweep" /\ \A v \in Writers \ {w} : pc'[v] = pc[v]
    BY <1>3, <1>b DEF WriteMeta, Goto
  <2>3. job[w].key <= Newest' /\ Newest <= Newest'
    <3>1. CASE meta = {}
      BY <1>0, <2>1, <3>1, ConstantsType DEF Newest
    <3>2. CASE meta # {}
      BY <1>0, <2>1, <3>2
    <3>3. QED
      BY <3>1, <3>2
  <2>4. \A v \in Writers : pc'[v] \in Published => job'[v].key <= Newest'
    <3>1. ASSUME NEW v \in Writers \ {w}, pc'[v] \in Published PROVE job'[v].key <= Newest'
      <4>1. job[v].key <= Newest /\ job[v].key \in Keys \cup {0}
        BY <1>a, <2>2, <3>1 DEF NewestInv, JobSet
      <4>2. QED
        BY <1>0, <2>1, <2>3, <4>1, ConstantsType DEF Keys
    <3>2. QED
      BY <2>1, <2>3, <3>1
  <2>5. \A v \in Writers : pc'[v] \in {"unlink", "reunlink"} =>
                             \A i \in job'[v].victims : i < Newest'
    <3>1. ASSUME NEW v \in Writers \ {w}, pc'[v] \in {"unlink", "reunlink"},
                 NEW i \in job[v].victims
          PROVE  i < Newest'
      <4>1. i < Newest /\ i \in Keys
        BY <1>a, <2>2, <3>1 DEF NewestInv, JobSet
      <4>2. QED
        BY <1>0, <2>3, <4>1, ConstantsType DEF Keys
    <3>2. QED
      BY <2>1, <2>2, <3>1
  <2>6. QED
    BY <1>0, <2>3, <2>4, <2>5, ConstantsType DEF NewestInv
<1>4. ASSUME NEW from \in {"sweep", "resweep"}, NEW to \in {"unlink", "reunlink"},
             NEW keep \in {Keep, KeepSnapshots}, Sweep(w, from, to, keep)
      PROVE  NewestInv' /\ Newest' >= Newest
  <2>1. meta' = meta /\ job' = [job EXCEPT ![w].victims = Victims(keep)]
    BY <1>4 DEF Sweep
  <2>2. /\ pc[w] \in Published /\ pc'[w] \in Published
        /\ \A v \in Writers \ {w} : pc'[v] = pc[v]
    BY <1>4, <1>b DEF Sweep, Goto, Published
  <2>3. /\ job'[w].key = job[w].key /\ job'[w].victims = Victims(keep)
        /\ \A v \in Writers \ {w} : job'[v] = job[v]
    BY <1>b, <2>1 DEF JobSet
  <2>4. \A v \in Victims(keep) : v < Newest
    BY <1>0, VictimsAreOlder, ConstantsType
  <2>5. Newest' = Newest
    BY <2>1 DEF Newest
  <2>6. QED
    BY <1>0, <2>2, <2>3, <2>4, <2>5, ConstantsType DEF NewestInv
<1>5. ASSUME NEW from \in {"unlink", "reunlink"}, NEW to \in {"compact", "restore", "idle"},
             Unlink(w, from, to)
      PROVE  NewestInv' /\ Newest' >= Newest
  <2>1. meta' = meta \ job[w].victims /\ \A i \in job[w].victims : i < Newest
    BY <1>5 DEF Unlink, NewestInv
  <2>2. Newest' = Newest
    <3>1. CASE meta = {}
      BY <2>1, <3>1 DEF Newest
    <3>2. CASE meta # {}
      <4>1. Newest \in meta'
        BY <1>0, <2>1, <3>2, ConstantsType
      <4>2. Newest' <= Newest /\ Newest <= Newest'
        BY <1>0, <2>1, <4>1
      <4>3. QED
        BY <1>0, <4>2, ConstantsType
    <3>3. QED
      BY <3>1, <3>2
  <2>3. \A v \in Writers \ {w} : pc'[v] = pc[v] /\ job'[v] = job[v]
    BY <1>5, <1>b DEF Unlink, Goto
  <2>4. /\ pc[w] \in Published /\ pc'[w] = to /\ to \notin {"unlink", "reunlink"}
        /\ to \in Published => job'[w] = job[w]
    BY <1>5, <1>b DEF Unlink, Goto, Published
  <2>5. QED
    BY <1>0, <2>2, <2>3, <2>4, ConstantsType DEF NewestInv
<1>6. QED
  BY <1>1, <1>2, <1>3, <1>4, <1>5 DEF CreateStep

LEMMA StepNewest ==
  TransferInv /\ TypeInv /\ NewestInv /\ [Next]_vars => NewestInv' /\ Newest' >= Newest
<1> SUFFICES ASSUME TransferInv, TypeInv, NewestInv, [Next]_vars
             PROVE  NewestInv' /\ Newest' >= Newest
  OBVIOUS
<1>0. /\ pc \in [Writers -> Steps] /\ job \in [Writers -> JobSet] /\ Newest \in 0 .. MaxIndex
      /\ Loop \in Writers
  BY NewestIsNewest, LoopIsWriter DEF TypeInv, CreateType, FileType
<1>1. ASSUME NEW w \in Writers, meta' = meta,
             \A v \in Writers \ {w} : pc'[v] = pc[v] /\ job'[v] = job[v],
             \/ pc'[w] \notin Published
             \/ pc[w] \in Published /\ pc'[w] \in Published \ {"unlink", "reunlink"}
                /\ job'[w] = job[w]
      PROVE  NewestInv' /\ Newest' >= Newest
  <2>1. Newest' = Newest
    BY <1>1 DEF Newest
  <2>2. QED
    BY <1>0, <1>1, <2>1, ConstantsType DEF NewestInv, Published
<1>2. ASSUME UNCHANGED <<meta, pc, job>> PROVE NewestInv' /\ Newest' >= Newest
  BY <1>0, <1>2, ConstantsType DEF NewestInv, Newest
<1>3. ASSUME NEW s \in Streams, NEW p \in Peers, NEW k \in PeerKeys, OpenStream(s, p, k)
      PROVE  NewestInv' /\ Newest' >= Newest
  BY <1>2, <1>3 DEF OpenStream, createVars, fileVars
<1>a. ASSUME NEW s \in Streams, RefuseChunk(s) \/ BreakStream(s)
      PROVE  NewestInv' /\ Newest' >= Newest
  BY <1>2, <1>a DEF RefuseChunk, BreakStream, createVars, fileVars
<1>4. ASSUME NEW w \in Writers, NEW k, NEW bytes, Begin(w, k, bytes), meta' = meta
      PROVE  NewestInv' /\ Newest' >= Newest
  <2>1. /\ pc'[w] = "open"
        /\ \A v \in Writers \ {w} : pc'[v] = pc[v] /\ job'[v] = job[v]
    BY <1>0, <1>4 DEF Begin
  <2>2. QED
    BY <1>1, <1>4, <2>1 DEF Published
<1>5. ASSUME NEW s \in Streams, ReceiveChunk(s) PROVE NewestInv' /\ Newest' >= Newest
  <2>1. s \in Writers
    BY DEF Writers
  <2>2. CASE stream[s].sent + 1 = Chunks
    BY <1>4, <1>5, <2>1, <2>2 DEF ReceiveChunk, fileVars
  <2>3. CASE stream[s].sent + 1 # Chunks
    BY <1>2, <1>5, <2>3 DEF ReceiveChunk, createVars, fileVars
  <2>4. QED
    BY <2>2, <2>3
<1>6. ASSUME NEW s \in Streams, InstallStep(s) PROVE NewestInv' /\ Newest' >= Newest
  <2>1. s \in Writers /\ meta' = meta
    BY <1>6, InstallStepFrame DEF Writers
  <2>2. \A v \in Writers \ {s} : pc'[v] = pc[v] /\ job'[v] = job[v]
    BY <1>0, <1>6 DEF InstallStep, RestoreData, ApplyToStorage, SetIndex, TruncateWal, Goto
  <2>3. \/ pc'[s] \notin Published
        \/ pc[s] \in Published /\ pc'[s] \in Published \ {"unlink", "reunlink"}
           /\ job'[s] = job[s]
    BY <1>0, <1>6, <2>1
       DEF InstallStep, RestoreData, ApplyToStorage, SetIndex, TruncateWal, Goto, Published
  <2>4. QED
    BY <1>1, <2>1, <2>2, <2>3
<1>7. CASE Advance \/ SkipExport \/ CompactWal
  <2>1. /\ meta' = meta
        /\ \A v \in Writers \ {Loop} : pc'[v] = pc[v] /\ job'[v] = job[v]
        /\ \/ pc'[Loop] \notin Published
           \/ pc[Loop] \in Published /\ pc'[Loop] \in Published \ {"unlink", "reunlink"}
              /\ job'[Loop] = job[Loop]
    BY <1>0, <1>7 DEF Advance, SkipExport, CompactWal, Goto, Published, fileVars
  <2>2. QED
    BY <1>0, <1>1, <2>1
<1>8. CASE Export
  BY <1>0, <1>4, <1>8 DEF Export, fileVars
<1>9. CASE Crash
  <2>1. meta' = meta /\ \A v \in Writers : pc'[v] = "idle"
    BY <1>9 DEF Crash, fileVars
  <2>2. QED
    BY <1>0, <2>1, ConstantsType DEF NewestInv, Newest, Published
<1>10. CASE Restart \/ UNCHANGED vars
  BY <1>2, <1>10 DEF Restart, vars, createVars, fileVars
<1>11. ASSUME NEW w \in Writers, CreateStep(w) PROVE NewestInv' /\ Newest' >= Newest
  BY <1>11, CreateNewest
<1>12. CASE Next
  <2>1. ASSUME NEW s \in Streams,
               \/ \E p \in Peers, k \in PeerKeys : OpenStream(s, p, k)
               \/ ReceiveChunk(s) \/ RefuseChunk(s) \/ BreakStream(s) \/ InstallStep(s)
        PROVE  NewestInv' /\ Newest' >= Newest
    BY <1>3, <1>5, <1>6, <1>a, <2>1
  <2>2. QED
    BY <1>7, <1>8, <1>9, <1>10, <1>11, <1>12, <2>1 DEF Next
<1>13. QED
  BY <1>10, <1>12

LEMMA StepCover ==
  TransferInv /\ TypeInv /\ NewestInv /\ CoverInv /\ [Next]_vars => CoverInv'
<1> SUFFICES ASSUME TransferInv, TypeInv, NewestInv, CoverInv, [Next]_vars PROVE CoverInv'
  OBVIOUS
<1>0. /\ Newest \in 0 .. MaxIndex /\ Newest' \in 0 .. MaxIndex /\ Newest' >= Newest
      /\ raftLast \in 0 .. MaxIndex /\ commit \in 0 .. MaxIndex /\ wal \subseteq 1 .. MaxIndex
  <2>1. meta \subseteq Keys /\ meta' \subseteq Keys
    BY StepTypeInv DEF TypeInv, FileType
  <2>2. Newest = NewestOf(meta) /\ Newest' = NewestOf(meta')
    BY DEF Newest, NewestOf
  <2>3. Newest' >= Newest
    BY StepNewest
  <2>4. QED
    BY <2>1, <2>2, <2>3, NewestOfIsNewest DEF TypeInv, DiskType
<1>1. ASSUME commit' = commit, raftLast' = raftLast \/ raftLast' = 0, wal' \subseteq wal,
             \A i \in wal : i \in wal' \/ i <= Newest
      PROVE  CoverInv'
  <2>1. ASSUME NEW i \in Keys, Claimed(i)' PROVE i <= Newest' \/ i \in wal'
    <3>1. Claimed(i)
      <4>1. i <= commit \/ i <= raftLast' \/ \E j \in wal : i <= j
        BY <1>1, <2>1 DEF Claimed
      <4>2. raftLast' = 0 => ~(i <= raftLast')
        BY ConstantsType DEF Keys
      <4>3. QED
        BY <1>1, <4>1, <4>2 DEF Claimed
    <3>2. i <= Newest \/ i \in wal
      BY <2>1, <3>1 DEF CoverInv
    <3>3. i <= Newest \/ i \in wal'
      BY <1>1, <3>2
    <3>4. QED
      BY <1>0, <3>3, ConstantsType DEF Keys
  <2>2. QED
    BY <2>1 DEF CoverInv
<1>2. ASSUME UNCHANGED <<commit, raftLast, wal>> PROVE CoverInv'
  BY <1>1, <1>2
<1>3. ASSUME NEW w \in Writers, pc[w] \in Published, wal' = Truncated(job[w].key),
             UNCHANGED <<commit, raftLast>>
      PROVE  CoverInv'
  <2>1. job[w].key <= Newest /\ job[w].key \in Keys \cup {0}
    BY <1>3 DEF NewestInv, TypeInv, CreateType, JobSet
  <2>2. wal' \subseteq wal /\ \A i \in wal : i \in wal' \/ i <= Newest
    BY <1>0, <1>3, <2>1, ConstantsType DEF Truncated, Keys
  <2>3. QED
    BY <1>1, <1>3, <2>2
<1>4. ASSUME NEW s \in Streams, InstallStep(s) PROVE CoverInv'
  <2>1. s \in Writers
    BY DEF Writers
  <2>2. CASE TruncateWal(s)
    BY <1>3, <1>4, <2>1, <2>2, InstallStepFrame DEF TruncateWal, Published
  <2>3. CASE RestoreData(s) \/ ApplyToStorage(s) \/ SetIndex(s)
    BY <1>2, <1>4, <2>3, InstallStepFrame DEF RestoreData, ApplyToStorage, SetIndex, diskVars
  <2>4. QED
    BY <1>4, <2>2, <2>3 DEF InstallStep
<1>5. CASE CompactWal
  BY <1>3, <1>5, LoopIsWriter DEF CompactWal, Published, memVars
<1>6. CASE Advance
  <2>1. /\ raftLast + 1 \in Keys /\ wal' = wal \cup {raftLast + 1}
        /\ commit' = raftLast + 1 /\ raftLast' = raftLast + 1 /\ meta' = meta
    BY <1>0, <1>6 DEF Advance, Keys, fileVars
  <2>2. Newest' = Newest
    BY <2>1 DEF Newest
  <2>3. ASSUME NEW i \in Keys, Claimed(i)' PROVE i <= Newest' \/ i \in wal'
    <3>1. i = raftLast + 1 \/ Claimed(i)
      BY <1>0, <2>1, <2>3, ConstantsType DEF Claimed, Keys
    <3>2. CASE i = raftLast + 1
      BY <2>1, <3>2
    <3>3. CASE Claimed(i)
      BY <2>1, <2>2, <2>3, <3>3 DEF CoverInv
    <3>4. QED
      BY <3>1, <3>2, <3>3
  <2>4. QED
    BY <2>3 DEF CoverInv
<1>7. CASE Crash
  BY <1>1, <1>7 DEF Crash, diskVars
<1>8. CASE Restart
  <2> DEFINE tail == {i \in wal : i > Newest}
             last == Max(tail \cup {Newest})
  <2>1. /\ last \in tail \cup {Newest} /\ raftLast' = last
        /\ UNCHANGED <<commit, wal, meta>>
    BY <1>8, RestartMaxes DEF Restart, TypeInv, fileVars
  <2>2. Newest' = Newest
    BY <2>1 DEF Newest
  <2>3. last \in wal \/ last = Newest
    BY <2>1
  <2> HIDE DEF tail, last
  <2>4. ASSUME NEW i \in Keys, Claimed(i)' PROVE i <= Newest' \/ i \in wal'
    <3>1. i <= last \/ Claimed(i)
      BY <2>1, <2>4 DEF Claimed
    <3>2. i <= Newest \/ Claimed(i)
      BY <2>3, <3>1 DEF Claimed
    <3>3. QED
      BY <2>1, <2>2, <2>4, <3>2 DEF CoverInv
  <2>5. QED
    BY <2>4 DEF CoverInv
<1>9. ASSUME NEW s \in Streams, NEW p \in Peers, NEW k \in PeerKeys, OpenStream(s, p, k)
      PROVE  CoverInv'
  BY <1>2, <1>9 DEF OpenStream, diskVars, memVars
<1>10. ASSUME NEW s \in Streams, ReceiveChunk(s) \/ RefuseChunk(s) \/ BreakStream(s)
       PROVE  CoverInv'
  BY <1>2, <1>10 DEF ReceiveChunk, RefuseChunk, BreakStream, diskVars, memVars
<1>11. ASSUME NEW w \in Writers, CreateStep(w) PROVE CoverInv'
  BY <1>2, <1>11, CreateStepFrame
<1>12. CASE SkipExport \/ Export \/ UNCHANGED vars
  BY <1>2, <1>12 DEF SkipExport, Export, vars, diskVars, memVars
<1>13. CASE Next
  <2>1. ASSUME NEW s \in Streams,
               \/ \E p \in Peers, k \in PeerKeys : OpenStream(s, p, k)
               \/ ReceiveChunk(s) \/ RefuseChunk(s) \/ BreakStream(s) \/ InstallStep(s)
        PROVE  CoverInv'
    BY <1>4, <1>9, <1>10, <2>1
  <2>2. QED
    BY <1>5, <1>6, <1>7, <1>8, <1>11, <1>12, <1>13, <2>1 DEF Next
<1>14. QED
  BY <1>12, <1>13

LEMMA InitNewest == Init => NewestInv /\ CoverInv
<1> SUFFICES ASSUME Init PROVE NewestInv /\ CoverInv
  OBVIOUS
<1>1. NewestInv
  BY DEF Init, NewestInv, Published
<1>2. CoverInv
  BY ConstantsType DEF Init, CoverInv, Claimed, Keys
<1>3. QED
  BY <1>1, <1>2

-----------------------------------------------------------------------------
\* Whole snapshots.

\* The bytes of a snapshot of index k, where the exports of keys h are excused and n is
\* the newest published: the run loop may export newer data than it should while those
\* are being installed.
Whole(h, n, k, bytes) ==
  k \in h \/ k < n \/ \E p \in Peers \cup {Loop} : bytes = Split(p, DataAt(k))

\* The snapshot published under a key is there, and whole.
Good(k) == k \in DOMAIN snap /\ Whole(hollow, Newest, k, snap[k])

\* What a writer relies on between two steps of Create.
Creates(w) ==
  LET k == job[w].key
  IN /\ pc[w] = "write" => fd[w] = "tmp" /\ k \in DOMAIN tmp
     /\ pc[w] = "rename" => k \in DOMAIN tmp /\ Whole(hollow, Newest, k, tmp[k])
     /\ pc[w] = "meta" => Good(k) \/ k < Newest

(* The files of a key that no two Creates have shared are those of the one *)
(* writer that has the key in hand.  A Cleanup may take its snapshot away  *)
(* before its metadata are written, but only where a newer one is there.   *)
WholeInv ==
  /\ \A w \in Writers : job[w].key # 0 => Whole(hollow, Newest, job[w].key, job[w].bytes)
  /\ \A v, w \in Writers :
       job[v].key = job[w].key /\ job[w].key \notin clash \cup {0} => v = w
  /\ \A w \in Writers : job[w].key \notin clash => Creates(w)
  /\ meta # {} /\ Newest \notin clash => Good(Newest)

LEMMA WholeStays ==
  ASSUME NEW h, NEW g, h \subseteq g, NEW n \in Nat, NEW m \in Nat, n <= m, NEW k \in Nat,
         NEW bytes, Whole(h, n, k, bytes)
  PROVE  Whole(g, m, k, bytes)
BY DEF Whole

\* What is left to show of a step in which one writer, with its key, is at work.
LEMMA OneAtWork ==
  ASSUME TypeInv, WholeInv, NEW w \in Writers, clash' = clash, hollow' = hollow,
         Newest \in Nat, Newest' \in Nat, Newest' >= Newest,
         \A v \in Writers \ {w} : pc'[v] = pc[v] /\ job'[v] = job[v],
         job'[w].key \in {job[w].key, 0},
         job'[w].key # 0 => job'[w].bytes = job[w].bytes,
         \A v \in Writers : fd[v] = "tmp" /\ job[v].key # job[w].key => fd'[v] = "tmp",
         \A k \in Keys \ {job[w].key} :
           k \in DOMAIN tmp => k \in DOMAIN tmp' /\ tmp'[k] = tmp[k],
         \A k \in Keys \ {job[w].key} : Good(k) => Good(k)' \/ k < Newest',
         job'[w].key \notin clash => Creates(w)',
         meta' # {} /\ Newest' \notin clash => Good(Newest)'
  PROVE  WholeInv'
<1>1. ASSUME NEW v \in Writers, job'[v].key # 0
      PROVE  Whole(hollow', Newest', job'[v].key, job'[v].bytes)
  <2>1. PICK k, b : k = job[v].key /\ b = job[v].bytes
    OBVIOUS
  <2>2. /\ job'[v].key = k /\ job'[v].bytes = b /\ k # 0
        /\ k \in Nat
    BY <1>1, <2>1 DEF TypeInv, CreateType, JobSet, Keys
  <2>3. Whole(hollow, Newest, k, b)
    BY <2>1, <2>2 DEF WholeInv
  <2>4. QED
    BY <2>2, <2>3, WholeStays
<1>2. \A v \in Writers : job'[v].key # 0 => job'[v].key = job[v].key
  OBVIOUS
<1>3. ASSUME NEW u \in Writers, NEW v \in Writers, job'[u].key = job'[v].key,
             job'[v].key \notin clash' \cup {0}
      PROVE  u = v
  BY <1>2, <1>3 DEF WholeInv
<1>4. ASSUME NEW v \in Writers \ {w}, job'[v].key \notin clash' PROVE Creates(v)'
  <2>0. PICK k : k = job[v].key
    OBVIOUS
  <2>1. pc'[v] = pc[v] /\ job'[v].key = k /\ job'[v] = job[v] /\ k \notin clash
    BY <1>4, <2>0
  <2>2. k \in Keys \cup {0} /\ (pc[v] \notin {"idle", "due"} => k # 0)
    BY <2>0 DEF TypeInv, CreateType, JobsInv, JobSet
  <2>3. Creates(v)
    BY <2>0, <2>1 DEF WholeInv
  <2>4. CASE k = 0
    BY <2>1, <2>2, <2>4 DEF Creates
  <2>5. CASE k # 0
    <3>1. k # job[w].key
      BY <1>4, <2>0, <2>1, <2>5 DEF WholeInv
    <3>2. pc[v] = "write" => fd'[v] = "tmp" /\ k \in DOMAIN tmp'
      BY <2>0, <2>1, <2>2, <2>3, <2>5, <3>1 DEF Creates
    <3>3. pc[v] = "rename" => k \in DOMAIN tmp' /\ Whole(hollow', Newest', k, tmp'[k])
      <4>1. pc[v] = "rename" => Whole(hollow, Newest, k, tmp[k]) /\ k \in DOMAIN tmp
        BY <2>0, <2>1, <2>3 DEF Creates
      <4>2. k \in Nat
        BY <2>2 DEF Keys
      <4>3. pc[v] = "rename" => Whole(hollow', Newest', k, tmp[k])
        BY <4>1, <4>2, WholeStays
      <4>4. QED
        BY <2>0, <2>1, <2>2, <2>5, <3>1, <4>1, <4>3
    <3>4. pc[v] = "meta" => Good(k)' \/ k < Newest'
      <4>1. pc[v] = "meta" => Good(k) \/ k < Newest
        BY <2>0, <2>1, <2>3 DEF Creates
      <4>2. k < Newest => k < Newest'
        BY <2>2, ConstantsType DEF Keys
      <4>3. k \in Keys \ {job[w].key}
        BY <2>2, <2>5, <3>1
      <4>4. QED
        BY <4>1, <4>2, <4>3
    <3>5. QED
      BY <2>1, <3>2, <3>3, <3>4 DEF Creates, Good
  <2>6. QED
    BY <2>4, <2>5
<1>5. \A v \in Writers : job'[v].key \notin clash' => Creates(v)'
  BY <1>4
<1>6. QED
  BY <1>1, <1>3, <1>5 DEF WholeInv

\* Outside Create nothing touches the files.
LEMMA AwayFromFiles ==
  ASSUME TypeInv, WholeInv, NEW w \in Writers,
         UNCHANGED <<tmp, snap, meta, fd, clash, hollow>>,
         \A v \in Writers \ {w} : pc'[v] = pc[v] /\ job'[v] = job[v],
         job'[w] \in {job[w], Free},
         pc'[w] \notin {"write", "rename", "meta"}
  PROVE  WholeInv'
<1>1. Newest' = Newest /\ Newest \in Nat
  <2>1. Newest \in 0 .. MaxIndex
    BY NewestIsNewest DEF TypeInv, FileType
  <2>2. QED
    BY <2>1, ConstantsType DEF Newest
<1>2. Creates(w)'
  BY DEF Creates
<1>3. \A k : Good(k)' <=> Good(k)
  BY <1>1 DEF Good
<1>4. meta' # {} /\ Newest' \notin clash' => Good(Newest)'
  <2>1. meta # {} /\ Newest \notin clash => Good(Newest)
    BY DEF WholeInv
  <2>2. QED
    BY <1>1, <2>1 DEF Good
<1>5. /\ job'[w].key \in {job[w].key, 0}
      /\ job'[w].key # 0 => job'[w].bytes = job[w].bytes
  BY FreeType
<1>6. \A v \in Writers : fd[v] = "tmp" => fd'[v] = "tmp"
  OBVIOUS
<1>7. \A k \in Keys : k \in DOMAIN tmp => k \in DOMAIN tmp' /\ tmp'[k] = tmp[k]
  OBVIOUS
<1>8. Newest' >= Newest
  BY <1>1
<1>9. QED
  BY <1>1, <1>2, <1>3, <1>4, <1>5, <1>6, <1>7, <1>8, OneAtWork

LEMMA BeginWhole ==
  ASSUME TypeInv, WholeInv, NEW w \in Writers, NEW k \in Keys, NEW bytes,
         Begin(w, k, bytes), UNCHANGED <<tmp, snap, meta>>,
         hollow \subseteq hollow', Whole(hollow', Newest, k, bytes)
  PROVE  WholeInv'
<1>0. pc \in [Writers -> Steps] /\ job \in [Writers -> JobSet] /\ k # 0
  BY ConstantsType DEF TypeInv, CreateType, Keys
<1>1. /\ pc'[w] = "open" /\ job'[w].key = k /\ job'[w].bytes = bytes
      /\ \A v \in Writers \ {w} : pc'[v] = pc[v] /\ job'[v] = job[v]
      /\ clash \subseteq clash' /\ fd' = fd
      /\ k \notin clash' => \A v \in Writers \ {w} : job[v].key # k
  BY <1>0 DEF Begin
<1>2. Newest' = Newest /\ Newest \in Nat
  <2>1. Newest \in 0 .. MaxIndex
    BY NewestIsNewest DEF TypeInv, FileType
  <2>2. QED
    BY <2>1, ConstantsType DEF Newest
<1>a. \A j \in Keys : \A b : Whole(hollow, Newest, j, b) => Whole(hollow', Newest', j, b)
  <2>1. Keys \subseteq Nat
    BY ConstantsType DEF Keys
  <2>2. QED
    BY <1>2, <2>1, WholeStays
<1>b. \A v \in Writers : job[v].key # 0 => job[v].key \in Keys
  BY <1>0 DEF JobSet
<1>3. \A v \in Writers : job'[v].key # 0 => Whole(hollow', Newest', job'[v].key, job'[v].bytes)
  BY <1>1, <1>2, <1>a, <1>b DEF WholeInv
<1>4. ASSUME NEW u \in Writers, NEW v \in Writers, job'[u].key = job'[v].key,
             job'[v].key \notin clash' \cup {0}
      PROVE  u = v
  BY <1>1, <1>4 DEF WholeInv
<1>5. ASSUME NEW v \in Writers, job'[v].key \notin clash' PROVE Creates(v)'
  <2>1. CASE v = w
    BY <1>1, <2>1 DEF Creates
  <2>2. CASE v # w
    <3>1. job'[v] = job[v] /\ pc'[v] = pc[v] /\ Creates(v)
      BY <1>1, <1>5, <2>2 DEF WholeInv
    <3>2. pc[v] \in {"write", "rename", "meta"} => job[v].key \in Keys
      BY <1>b DEF TypeInv, JobsInv
    <3>3. QED
      BY <1>1, <1>2, <1>a, <3>1, <3>2 DEF Creates, Good
  <2>3. QED
    BY <2>1, <2>2
<1>6. meta' # {} /\ Newest' \notin clash' => Good(Newest)'
  <2>1. meta # {} /\ Newest \notin clash => Good(Newest)
    BY DEF WholeInv
  <2>2. meta # {} => Newest \in Keys
    BY NewestIsNewest DEF TypeInv, FileType
  <2>3. QED
    BY <1>1, <1>2, <1>a, <2>1, <2>2 DEF Good
<1>7. QED
  BY <1>3, <1>4, <1>5, <1>6 DEF WholeInv

\* A step of Create or Cleanup, with what is known of the newest snapshot.
LEMMA CreateWhole ==
  ASSUME TypeInv, NewestInv, WholeInv, NEW w \in Writers, CreateStep(w)
  PROVE  WholeInv'
<1>0. /\ pc \in [Writers -> Steps] /\ job \in [Writers -> JobSet]
      /\ fd \in [Writers -> {"none", "tmp", "snap", "gone"}]
      /\ meta \subseteq Keys /\ meta' \subseteq Keys
  BY CreateStepType DEF TypeInv, CreateType, FileType
<1>1. /\ Newest \in Nat /\ Newest' \in Nat /\ Newest' >= Newest
      /\ \A j \in meta : j <= Newest
      /\ meta # {} => Newest \in meta
      /\ meta' # {} => Newest' \in meta'
      /\ hollow' = hollow
  <2>1. Newest = NewestOf(meta) /\ Newest' = NewestOf(meta')
    BY DEF Newest, NewestOf
  <2>2. Newest' >= Newest
    BY CreateNewest
  <2>3. QED
    BY <1>0, <2>1, <2>2, NewestOfIsNewest, CreateStepFrame, ConstantsType
<1>2. PICK k : k = job[w].key
  OBVIOUS
<1>3. k \in Keys \cup {0} /\ (pc[w] \notin {"idle", "due"} => k # 0 /\ Whole(hollow, Newest, k, job[w].bytes))
  BY <1>0, <1>2 DEF JobSet, TypeInv, JobsInv, WholeInv
<1>b. \A j \in Keys : \A b : Whole(hollow, Newest, j, b) => Whole(hollow, Newest', j, b)
  <2>1. Keys \subseteq Nat
    BY ConstantsType DEF Keys
  <2>2. QED
    BY <1>1, <2>1, WholeStays
<1>4. k \notin clash => Creates(w)
  BY <1>2 DEF WholeInv
<1>5. meta # {} /\ Newest \notin clash => Good(Newest)
  BY DEF WholeInv
<1>6. ASSUME NEW step, Goto(w, step) PROVE pc'[w] = step /\ \A v \in Writers \ {w} : pc'[v] = pc[v]
  BY <1>0, <1>6 DEF Goto
\* The steps that leave the jobs and the metadata alone.
<1>7. ASSUME job' = job, clash' = clash, meta' = meta, NEW step, Goto(w, step),
             \A v \in Writers : fd[v] = "tmp" /\ job[v].key # k => fd'[v] = "tmp",
             \A j \in Keys \ {k} : j \in DOMAIN tmp => j \in DOMAIN tmp' /\ tmp'[j] = tmp[j],
             \A j \in Keys \ {k} : Good(j) => Good(j)',
             k \notin clash => Creates(w)',
             k \notin clash /\ Good(k) => Good(k)'
      PROVE  WholeInv'
  <2>1. Newest' = Newest
    BY <1>7 DEF Newest
  <2>2. PICK n : n = Newest
    OBVIOUS
  <2>3. Good(n)' <=> Good(Newest)'
    BY <2>1, <2>2 DEF Good
  <2>4. meta # {} => n \in Keys
    BY <1>0, <1>1, <2>2
  <2>5. meta' # {} /\ Newest' \notin clash' => Good(n)'
    BY <1>5, <1>7, <2>1, <2>2, <2>4
  <2>6. QED
    BY <1>1, <1>2, <1>6, <1>7, <2>3, <2>5, OneAtWork
<1>8. CASE OpenTmp(w)
  <2>1. /\ tmp' = Placed(tmp, k, <<>>) /\ fd' = [fd EXCEPT ![w] = "tmp"] /\ Goto(w, "write")
        /\ UNCHANGED <<job, clash, snap, meta>>
    BY <1>2, <1>8 DEF OpenTmp
  <2>2. /\ \A j \in Keys \ {k} : j \in DOMAIN tmp => j \in DOMAIN tmp' /\ tmp'[j] = tmp[j]
        /\ k \in DOMAIN tmp'
    BY <2>1 DEF Placed
  <2>3. fd'[w] = "tmp" /\ \A v \in Writers : fd[v] = "tmp" => fd'[v] = "tmp"
    BY <1>0, <2>1
  <2>4. Creates(w)'
    BY <1>2, <1>6, <2>1, <2>2, <2>3 DEF Creates
  <2>5. \A j : Good(j) => Good(j)'
    BY <1>1, <2>1 DEF Good, Newest
  <2>6. QED
    BY <1>7, <2>1, <2>2, <2>3, <2>4, <2>5
<1>9. CASE WriteTmp(w)
  <2>1. /\ tmp' = IF fd[w] = "tmp" THEN [tmp EXCEPT ![k] = job[w].bytes] ELSE tmp
        /\ snap' = IF fd[w] = "snap" THEN [snap EXCEPT ![k] = job[w].bytes] ELSE snap
        /\ pc[w] = "write" /\ Goto(w, "rename")
        /\ UNCHANGED <<job, fd, clash, meta>>
    BY <1>2, <1>9 DEF WriteTmp
  <2>2. Whole(hollow, Newest, k, job[w].bytes) /\ Newest' = Newest
    BY <1>3, <2>1 DEF Newest
  <2>3. /\ DOMAIN tmp' = DOMAIN tmp /\ \A j \in DOMAIN tmp \ {k} : tmp'[j] = tmp[j]
        /\ fd[w] = "tmp" /\ k \in DOMAIN tmp => tmp'[k] = job[w].bytes
    BY <2>1
  <2>4. /\ DOMAIN snap' = DOMAIN snap /\ \A j \in DOMAIN snap \ {k} : snap'[j] = snap[j]
        /\ k \in DOMAIN snap => snap'[k] \in {snap[k], job[w].bytes}
    BY <2>1
  <2>5. ASSUME k \notin clash PROVE Creates(w)'
    <3>1. fd[w] = "tmp" /\ k \in DOMAIN tmp
      BY <1>2, <1>4, <2>1, <2>5 DEF Creates
    <3>2. k \in DOMAIN tmp' /\ tmp'[k] = job[w].bytes
      BY <2>3, <3>1
    <3>3. k \in DOMAIN tmp' /\ Whole(hollow', Newest', k, tmp'[k])
      BY <1>1, <2>2, <3>2
    <3>4. QED
      BY <1>2, <1>6, <2>1, <3>3 DEF Creates
  <2>6. \A j : Good(j) => Good(j)'
    BY <1>1, <2>2, <2>4 DEF Good
  <2>7. QED
    BY <1>7, <2>1, <2>3, <2>5, <2>6
<1>10. CASE RenameTmp(w)
  <2> DEFINE moved == [tmp |-> "snap", snap |-> "gone", gone |-> "gone", none |-> "none"]
  <2>1. /\ pc[w] = "rename" /\ Goto(w, "meta")
        /\ snap' = Placed(snap, k, tmp[k])
        /\ tmp' = Restrict(tmp, DOMAIN tmp \ {k})
        /\ fd' = [v \in Writers |-> IF v = w THEN "none"
                                    ELSE IF job[v].key = k THEN moved[fd[v]] ELSE fd[v]]
        /\ UNCHANGED <<job, clash, meta>>
    BY <1>2, <1>10 DEF RenameTmp
  <2> HIDE DEF moved
  <2>2. \A v \in Writers : fd[v] = "tmp" /\ job[v].key # k => fd'[v] = "tmp"
    BY <1>2, <2>1
  <2>3. \A j \in Keys \ {k} : j \in DOMAIN tmp => j \in DOMAIN tmp' /\ tmp'[j] = tmp[j]
    BY <2>1 DEF Restrict
  <2>4. /\ k \in DOMAIN snap' /\ snap'[k] = tmp[k]
        /\ \A j \in DOMAIN snap \ {k} : j \in DOMAIN snap' /\ snap'[j] = snap[j]
    BY <2>1 DEF Placed
  <2>a. Newest' = Newest
    BY <2>1 DEF Newest
  <2>5. \A j \in Keys \ {k} : Good(j) => Good(j)'
    BY <1>1, <2>4, <2>a DEF Good
  <2>6. k \notin clash => Good(k)'
    <3>1. k \notin clash => Whole(hollow, Newest, k, tmp[k])
      BY <1>2, <1>4, <2>1 DEF Creates
    <3>2. QED
      BY <1>1, <2>4, <2>a, <3>1 DEF Good
  <2>7. k \notin clash => Creates(w)'
    <3>1. pc'[w] = "meta" /\ job'[w].key = k
      BY <1>2, <1>6, <2>1
    <3>2. Good(k)' => Good(job[w].key)'
      BY <3>1 DEF Good
    <3>3. QED
      BY <2>6, <3>1, <3>2 DEF Creates
  <2>8. QED
    BY <1>7, <2>1, <2>2, <2>3, <2>5, <2>6, <2>7
<1>11. CASE RenameFails(w)
  <2>1. /\ Goto(w, "idle") /\ job' = [job EXCEPT ![w] = Free]
        /\ fd' = [fd EXCEPT ![w] = "none"]
        /\ UNCHANGED <<clash, tmp, snap, meta>>
    BY <1>11 DEF RenameFails, CreateFails, fileVars
  <2>2. job'[w].key = 0 /\ \A v \in Writers \ {w} : job'[v] = job[v]
    BY <1>0, <2>1, FreeType
  <2>3. \A v \in Writers : fd[v] = "tmp" /\ job[v].key # k => fd'[v] = "tmp"
    BY <1>0, <1>2, <2>1
  <2>4. Creates(w)'
    BY <1>6, <2>1 DEF Creates
  <2>6. Newest' = Newest
    BY <2>1 DEF Newest
  <2>5. \A j : Good(j) => Good(j)'
    BY <1>1, <2>1, <2>6 DEF Good
  <2>7. meta' # {} /\ Newest' \notin clash' => Good(Newest)'
    BY <1>1, <1>5, <2>1, <2>6 DEF Good
  <2>8. QED
    BY <1>1, <1>2, <1>6, <2>1, <2>2, <2>3, <2>4, <2>5, <2>7, OneAtWork
<1>12. CASE WriteMeta(w)
  <2>1. /\ pc[w] = "meta" /\ meta' = meta \cup {k} /\ Goto(w, "sweep")
        /\ UNCHANGED <<job, fd, clash, tmp, snap>>
    BY <1>2, <1>12 DEF WriteMeta
  <2>2. \A j \in Keys : Good(j) => Good(j)'
    BY <1>1, <1>b, <2>1 DEF Good
  <2>3. PICK n : n = Newest'
    OBVIOUS
  <2>4. ASSUME n \notin clash PROVE Good(n)
    <3>1. CASE n \in meta
      <4>1. n = Newest
        BY <1>1, <2>3, <3>1
      <4>2. QED
        BY <1>5, <2>4, <3>1, <4>1
    <3>2. CASE n = k
      <4>1. ~(k < Newest)
        BY <1>1, <2>3, <3>2
      <4>2. QED
        BY <1>2, <1>4, <2>1, <2>4, <3>2, <4>1 DEF Creates
    <3>3. QED
      BY <1>1, <2>1, <2>3, <3>1, <3>2
  <2>5. meta' # {} /\ Newest' \notin clash' => Good(Newest)'
    <3>1. meta' # {} /\ Newest' \notin clash' => Good(n)' /\ n \in Keys
      BY <1>0, <1>1, <2>1, <2>2, <2>3, <2>4
    <3>2. QED
      BY <2>3, <3>1 DEF Good
  <2>6. Creates(w)'
    BY <1>6, <2>1 DEF Creates
  <2>7. \A v \in Writers \ {w} : pc'[v] = pc[v]
    BY <1>6, <2>1
  <2>8. QED
    BY <1>1, <2>1, <2>2, <2>5, <2>6, <2>7, OneAtWork
<1>13. ASSUME NEW from \in {"sweep", "resweep"}, NEW to \in {"unlink", "reunlink"},
              NEW keep \in {Keep, KeepSnapshots}, Sweep(w, from, to, keep)
       PROVE  WholeInv'
  <2>1. PICK V : V = Victims(keep)
    OBVIOUS
  <2>2. /\ job' = [job EXCEPT ![w].victims = V]
        /\ snap' = Restrict(snap, DOMAIN snap \ V)
        /\ fd' = [v \in Writers |-> IF fd[v] = "snap" /\ job[v].key \in V THEN "gone" ELSE fd[v]]
        /\ Goto(w, to) /\ UNCHANGED <<clash, tmp, meta>>
    BY <1>13, <2>1 DEF Sweep
  <2>3. \A v \in V : v < Newest
    BY <1>0, <2>1, VictimsAreOlder, ConstantsType
  <2>4. Newest' = Newest
    BY <2>2 DEF Newest
  <2>5. /\ job'[w].key = job[w].key /\ job'[w].bytes = job[w].bytes
        /\ \A v \in Writers \ {w} : job'[v] = job[v]
    BY <1>0, <2>2 DEF JobSet
  <2>6. \A j : j \in DOMAIN snap /\ j \notin V => j \in DOMAIN snap' /\ snap'[j] = snap[j]
    BY <2>2 DEF Restrict
  <2>7. \A j : Good(j) /\ j \notin V => Good(j)'
    BY <1>1, <2>4, <2>6 DEF Good
  <2>8. \A j \in Keys \ {job[w].key} : Good(j) => Good(j)' \/ j < Newest'
    BY <2>3, <2>4, <2>7
  <2>9. meta' # {} /\ Newest' \notin clash' => Good(Newest)'
    <3>1. PICK n : n = Newest
      OBVIOUS
    <3>2. n \notin V
      BY <1>1, <2>3, <3>1
    <3>3. meta' # {} /\ n \notin clash => Good(n)'
      BY <1>5, <2>2, <2>7, <3>1, <3>2
    <3>4. Good(n)' => Good(Newest)'
      BY <2>4, <3>1 DEF Good
    <3>5. QED
      BY <2>2, <2>4, <3>1, <3>3, <3>4
  <2>10. Creates(w)'
    BY <1>6, <2>2 DEF Creates
  <2>11. \A v \in Writers : fd[v] = "tmp" => fd'[v] = "tmp"
    BY <2>2
  <2>12. \A v \in Writers \ {w} : pc'[v] = pc[v]
    BY <1>6, <2>2
  <2>13. QED
    BY <1>1, <2>2, <2>5, <2>8, <2>9, <2>10, <2>11, <2>12, OneAtWork
<1>14. ASSUME NEW from \in {"unlink", "reunlink"}, NEW to \in {"compact", "restore", "idle"},
              Unlink(w, from, to)
       PROVE  WholeInv'
  <2>1. /\ meta' = meta \ job[w].victims /\ Goto(w, to)
        /\ job' = IF to = "idle" THEN [job EXCEPT ![w] = Free] ELSE job
        /\ UNCHANGED <<fd, clash, tmp, snap>>
    BY <1>14 DEF Unlink
  <2>2. /\ job'[w] \in {job[w], Free} /\ \A v \in Writers \ {w} : job'[v] = job[v]
    BY <1>0, <2>1
  <2>3. /\ job'[w].key \in {job[w].key, 0}
        /\ job'[w].key # 0 => job'[w].bytes = job[w].bytes
    BY <2>2, FreeType
  <2>4. meta' # {} => meta # {} /\ Newest' = Newest
    BY <1>1, <2>1
  <2>5. meta' # {} /\ Newest' \notin clash' => Good(Newest)'
    BY <1>1, <1>5, <2>1, <2>4 DEF Good
  <2>6. \A j \in Keys : Good(j) => Good(j)'
    BY <1>1, <1>b, <2>1 DEF Good
  <2>7. Creates(w)'
    BY <1>6, <2>1 DEF Creates
  <2>8. \A v \in Writers \ {w} : pc'[v] = pc[v]
    BY <1>6, <2>1
  <2>9. QED
    BY <1>1, <2>1, <2>2, <2>3, <2>5, <2>6, <2>7, <2>8, OneAtWork
<1>15. QED
  BY <1>8, <1>9, <1>10, <1>11, <1>12, <1>13, <1>14 DEF CreateStep

LEMMA WholeIsEnough == TypeInv /\ WholeInv => LatestIsWhole
<1> SUFFICES ASSUME TypeInv, WholeInv PROVE LatestIsWhole
  OBVIOUS
<1>1. ~(Newest < Newest)
  BY NewestIsNewest, ConstantsType DEF TypeInv, FileType
<1>2. QED
  BY <1>1 DEF WholeInv, LatestIsWhole, Good, Whole

-----------------------------------------------------------------------------
\* What is in Pebble.

(* All that is in the WAL is committed, and raft has it; and the applied   *)
(* index that makes an export due is that of raft's last entry, not of an  *)
(* installation under way, which MemoryStorage knows of first.             *)
LogInv ==
  /\ \A j \in wal : j <= commit
  /\ up => /\ commit <= raftLast
           /\ applied <= storage.snap \/ applied = raftLast
           /\ \A s \in Streams : pc[s] = "index" => job[s].key <= storage.snap

(* Pebble has the entries up to some index, raft's last entry at least; it *)
(* has more after a snapshot that raft does not know of, which is then     *)
(* published, and where it has no more that entry was the last one applied.*)
PebbleInv ==
  up /\ ~setBack =>
    \E k \in 0 .. MaxIndex :
      /\ kv.seen = 1 .. k /\ raftLast <= k
      /\ k <= Newest \/ k = raftLast
      /\ k = raftLast => kv.last = k

DataInv == LogInv /\ PebbleInv

\* What the run loop exports has what its index says, if it is to be the newest.
LEMMA ExportedData ==
  ASSUME TypeInv, DataInv, Export
  PROVE  applied \in hollow' \/ applied < Newest \/ kv = DataAt(applied)
<1>1. /\ up /\ applied > storage.snap /\ applied \in Nat /\ raftLast \in Nat
      /\ Newest \in Nat
  <2>1. /\ storage.snap \in Nat /\ applied \in Nat /\ raftLast \in Nat
    BY ConstantsType DEF TypeInv, DiskType
  <2>2. Newest \in 0 .. MaxIndex
    BY NewestIsNewest DEF TypeInv, FileType
  <2>3. QED
    BY <2>1, <2>2, ConstantsType DEF Export, Due
<1>2. applied = raftLast
  BY <1>1, ConstantsType DEF DataInv, LogInv, TypeInv, DiskType
<1>3. CASE setBack
  BY <1>3 DEF Export
<1>4. CASE ~setBack
  <2>1. PICK k \in 0 .. MaxIndex :
          /\ kv.seen = 1 .. k /\ raftLast <= k
          /\ k <= Newest \/ k = raftLast
          /\ k = raftLast => kv.last = k
    BY <1>1, <1>4 DEF DataInv, PebbleInv
  <2>2. CASE k = raftLast
    <3>1. kv \in [seen : SUBSET Keys, last : 0 .. MaxIndex]
      BY DEF TypeInv, DiskType, Data
    <3>2. kv = [seen |-> kv.seen, last |-> kv.last]
      BY <3>1
    <3>3. QED
      BY <1>2, <2>1, <2>2, <3>2 DEF DataAt
  <2>3. CASE k # raftLast
    BY <1>1, <1>2, <2>1, <2>3, ConstantsType
  <2>4. QED
    BY <2>2, <2>3
<1>5. QED
  BY <1>3, <1>4

\* A step that leaves alone what the invariant is about.
LEMMA PebbleStays ==
  ASSUME PebbleInv, up' => up, UNCHANGED <<kv, setBack, raftLast>>,
         Newest \in 0 .. MaxIndex, Newest' \in 0 .. MaxIndex, Newest' >= Newest
  PROVE  PebbleInv'
<1> SUFFICES ASSUME up', ~setBack' PROVE PebbleInv'
  BY DEF PebbleInv
<1>1. PICK k \in 0 .. MaxIndex :
        /\ kv.seen = 1 .. k /\ raftLast <= k
        /\ k <= Newest \/ k = raftLast
        /\ k = raftLast => kv.last = k
  BY DEF PebbleInv
<1>2. k <= Newest => k <= Newest'
  BY ConstantsType
<1>3. QED
  BY <1>1, <1>2 DEF PebbleInv

LEMMA LogStays ==
  ASSUME LogInv, up' => up, wal' \subseteq wal, UNCHANGED <<commit, raftLast, applied, storage>>,
         \A s \in Streams : pc'[s] = "index" => pc[s] = "index" /\ job'[s].key = job[s].key
  PROVE  LogInv'
BY DEF LogInv

\* The steps of InstallSnapshot.
LEMMA InstallData ==
  ASSUME TypeInv, NewestInv, DataInv, NEW s \in Streams, InstallStep(s),
         Newest \in 0 .. MaxIndex, Newest' = Newest
  PROVE  DataInv'
<1>0. /\ s \in Writers /\ up /\ up' /\ pc \in [Writers -> Steps] /\ job \in [Writers -> JobSet]
      /\ raftLast' = raftLast /\ commit' = commit
      /\ raftLast \in Nat /\ applied \in Nat /\ storage.snap \in Nat
  <2>1. UNCHANGED <<raftLast, commit, up>>
    BY InstallStepFrame
  <2>2. up
    BY DEF InstallStep
  <2>3. QED
    BY <2>1, <2>2, ConstantsType DEF Writers, TypeInv, CreateType, DiskType
<1>1. pc[s] \notin {"idle", "due"} /\ pc[s] \in Published
  BY <1>0
     DEF InstallStep, RestoreData, ApplyToStorage, SetIndex, TruncateWal, Published
<1>2. job[s].key \in Keys /\ job[s].key # 0 /\ job[s].key <= Newest
  BY <1>0, <1>1 DEF TypeInv, JobsInv, JobSet, NewestInv
<1>3. \A t \in Streams \ {s} : pc'[t] = pc[t] /\ job'[t] = job[t]
  BY <1>0 DEF InstallStep, RestoreData, ApplyToStorage, SetIndex, TruncateWal, Goto, Writers
<1>4. CASE RestoreData(s)
  <2>1. /\ UNCHANGED <<job, applied, storage, wal>> /\ pc'[s] = "memory"
        /\ setBack' = (job[s].key < raftLast)
    BY <1>0, <1>4 DEF RestoreData, Goto, memVars
  <2>2. LogInv'
    BY <1>0, <1>3, <2>1 DEF DataInv, LogInv
  <2>3. kv' = DataAt(job[s].key)
    BY <1>2, <1>4, RestoredData DEF TypeInv
  <2>4. PebbleInv'
    <3> SUFFICES ASSUME ~(job[s].key < raftLast) PROVE PebbleInv'
      BY <2>1 DEF PebbleInv
    <3>1. PICK k : k = job[s].key
      OBVIOUS
    <3>2. k \in 0 .. MaxIndex /\ raftLast <= k /\ k <= Newest'
      BY <1>0, <1>2, <3>1, ConstantsType DEF Keys
    <3>3. kv'.seen = 1 .. k /\ kv'.last = k
      BY <2>3, <3>1 DEF DataAt
    <3>4. QED
      BY <1>0, <3>2, <3>3 DEF PebbleInv
  <2>5. QED
    BY <2>2, <2>4 DEF DataInv
<1>5. ASSUME UNCHANGED <<kv, setBack>> PROVE PebbleInv'
  BY <1>0, <1>5, PebbleStays, ConstantsType DEF DataInv
<1>6. CASE ApplyToStorage(s)
  <2>1. /\ UNCHANGED <<kv, setBack, job, applied, wal>> /\ pc'[s] = "index"
        /\ storage' = IF storage.snap >= job[s].key THEN storage
                      ELSE [snap |-> job[s].key, last |-> job[s].key]
    BY <1>0, <1>6 DEF ApplyToStorage, Goto, dataVars, diskVars
  <2>2. job[s].key <= storage'.snap /\ storage.snap <= storage'.snap /\ storage'.snap \in Nat
    BY <1>0, <1>2, <2>1, ConstantsType DEF Keys
  <2>3. \A t \in Streams : job[t].key \in Nat
    BY <1>0, ConstantsType DEF JobSet, Keys, Writers
  <2>4. LogInv'
    BY <1>0, <1>3, <2>1, <2>2, <2>3 DEF DataInv, LogInv
  <2>5. QED
    BY <1>5, <2>1, <2>4 DEF DataInv
<1>7. CASE SetIndex(s)
  <2>1. /\ UNCHANGED <<kv, setBack, job, storage, wal>> /\ pc'[s] = "prefix"
        /\ applied' = job[s].key /\ pc[s] = "index"
    BY <1>0, <1>7 DEF SetIndex, Goto, dataVars, memVars
  <2>2. LogInv'
    BY <1>0, <1>3, <2>1 DEF DataInv, LogInv
  <2>3. QED
    BY <1>5, <2>1, <2>2 DEF DataInv
<1>8. CASE TruncateWal(s)
  <2>1. /\ UNCHANGED <<kv, setBack, storage, applied>> /\ pc'[s] = "idle" /\ wal' \subseteq wal
    BY <1>0, <1>8 DEF TruncateWal, Truncated, Goto, dataVars, memVars
  <2>2. LogInv'
    BY <1>0, <1>3, <2>1, LogStays DEF DataInv
  <2>3. QED
    BY <1>5, <2>1, <2>2 DEF DataInv
<1>9. QED
  BY <1>4, <1>6, <1>7, <1>8 DEF InstallStep

\* The next entry.
LEMMA AdvanceData ==
  ASSUME TypeInv, DataInv, Advance, Newest \in 0 .. MaxIndex, Newest' = Newest
  PROVE  DataInv'
<1>1. PICK e : e = raftLast + 1
  OBVIOUS
<1>2. /\ up /\ up' /\ e \in 1 .. MaxIndex /\ raftLast \in Nat /\ commit \in Nat /\ e \in Nat
      /\ wal' = wal \cup {e} /\ commit' = e /\ raftLast' = e /\ applied' = e
      /\ storage'.snap = storage.snap /\ kv' = With(kv, e) /\ setBack' = setBack
      /\ job' = job /\ pc' = [pc EXCEPT ![Loop] = "due"]
  BY <1>1, ConstantsType DEF Advance, TypeInv, DiskType, Goto
<1>3. LogInv'
  <2>1. \A s \in Streams : pc'[s] = pc[s]
    BY <1>2, LoopIsWriter DEF TypeInv, CreateType, Writers
  <2>2. \A j \in wal : j <= e
    <3>1. \A j \in wal : j \in Int /\ j <= commit
      BY DEF TypeInv, DiskType, DataInv, LogInv
    <3>2. commit <= raftLast
      BY <1>2 DEF DataInv, LogInv
    <3>3. QED
      BY <1>1, <1>2, <3>1, <3>2
  <2>3. QED
    BY <1>2, <2>1, <2>2 DEF DataInv, LogInv
<1>4. PebbleInv'
  <2> SUFFICES ASSUME ~setBack PROVE PebbleInv'
    BY <1>2 DEF PebbleInv
  <2>1. PICK k \in 0 .. MaxIndex :
          /\ kv.seen = 1 .. k /\ raftLast <= k
          /\ k <= Newest \/ k = raftLast
          /\ k = raftLast => kv.last = k
    BY <1>2 DEF DataInv, PebbleInv
  <2>2. kv'.seen = 1 .. k \cup {e} /\ kv'.last = e
    BY <1>2, <2>1 DEF With
  <2>3. CASE k = raftLast
    <3>1. kv'.seen = 1 .. e
      <4>1. 1 .. k \cup {e} = 1 .. e
        BY <1>1, <1>2, <2>3
      <4>2. QED
        BY <2>2, <4>1
    <3>2. e \in 0 .. MaxIndex
      BY <1>2
    <3>3. QED
      BY <1>2, <2>2, <3>1, <3>2 DEF PebbleInv
  <2>4. CASE k # raftLast
    <3>1. e <= k /\ k <= Newest'
      BY <1>1, <1>2, <2>1, <2>4
    <3>a. kv'.seen = 1 .. k
      <4>1. e \in 1 .. k
        BY <1>2, <3>1
      <4>2. QED
        BY <2>2, <4>1
    <3>2. QED
      BY <1>2, <2>2, <3>1, <3>a DEF PebbleInv
  <2>5. QED
    BY <2>3, <2>4
<1>5. QED
  BY <1>3, <1>4 DEF DataInv

\* What a restart makes of the newest snapshot and the WAL.
LEMMA RestartData ==
  ASSUME TypeInv, NewestInv, CoverInv, DataInv, WholeInv, Restart
  PROVE  DataInv'
<1> DEFINE tail == {i \in wal : i > Newest}
           last == Max(tail \cup {Newest})
           again == {i \in tail : i <= commit}
           done == Max(again \cup {Newest})
           base == IF Newest = 0 \/ snap[Newest] = <<>> THEN DataAt(0) ELSE snap[Newest][1].data
<1>1. /\ Newest \in 0 .. MaxIndex /\ Newest \in Nat /\ wal \subseteq 1 .. MaxIndex /\ commit \in Nat
      /\ meta # {} => Newest \in Keys
  BY NewestIsNewest, ConstantsType DEF TypeInv, FileType, DiskType
<1>2. again = tail
  BY DEF DataInv, LogInv
<1>3. done = last
  BY <1>2
<1>4. last \in tail \cup {Newest} /\ last \in 0 .. MaxIndex /\ last \in Nat
  BY RestartMaxes, ConstantsType DEF TypeInv
<1>5. \A i \in tail : i <= last
  <2>1. tail \cup {Newest} \in SUBSET (0 .. MaxIndex) /\ tail \cup {Newest} # {}
    <3>1. wal \subseteq 0 .. MaxIndex
      BY <1>1
    <3>2. tail \subseteq wal
      OBVIOUS
    <3>3. QED
      BY <1>1, <3>1, <3>2
  <2>2. QED
    BY <2>1, MaxIsMax, ConstantsType
<1>6. last >= Newest
  BY <1>1, <1>4
<1>7. /\ UNCHANGED <<wal, commit, meta, pc, job, hollow, clash>>
      /\ kv' = [seen |-> base.seen \cup again,
                last |-> IF again = {} THEN base.last ELSE done]
      /\ setBack' = (Newest \in hollow \cup clash)
      /\ applied' = done /\ storage' = [snap |-> Newest, last |-> last] /\ raftLast' = last
      /\ up' = ~refused' /\ refused' = (commit # 0 /\ commit < Newest)
  BY DEF Restart, createVars, fileVars
<1>8. Newest' = Newest
  BY <1>7 DEF Newest
\* The entries after the snapshot are those of the WAL.
<1>9. tail = Newest + 1 .. last
  <2>1. ASSUME NEW i \in Newest + 1 .. last PROVE i \in tail
    <3>1. i \in Keys /\ i > Newest /\ i <= last
      BY <1>1, <1>4, ConstantsType DEF Keys
    <3>2. last \in wal
      BY <1>1, <1>4, <3>1
    <3>3. Claimed(i)
      BY <3>1, <3>2 DEF Claimed
    <3>4. i \in wal
      BY <1>1, <3>1, <3>3 DEF CoverInv
    <3>5. QED
      BY <3>1, <3>4
  <2>2. ASSUME NEW i \in tail PROVE i \in Newest + 1 .. last
    BY <1>1, <1>4, <1>5
  <2>3. QED
    BY <2>1, <2>2
<1>10. up' => commit <= last
  <2>1. CASE commit = 0
    BY <1>4, <2>1
  <2>2. CASE commit # 0 /\ up'
    <3>a. ~(commit # 0 /\ commit < Newest)
      BY <1>7, <2>2
    <3>b. commit \in 1 .. MaxIndex /\ commit <= commit
      BY <1>1, <2>2 DEF TypeInv, DiskType
    <3>1. commit \in Keys /\ Claimed(commit) /\ Newest <= commit
      BY <1>1, <2>2, <3>a, <3>b DEF Keys, Claimed
    <3>2. commit <= Newest \/ commit \in wal
      BY <3>1 DEF CoverInv
    <3>3. commit = Newest \/ commit \in tail
      BY <1>1, <3>1, <3>2
    <3>4. QED
      BY <1>1, <1>5, <1>6, <3>3
  <2>3. QED
    BY <2>1, <2>2
<1> HIDE DEF tail, last, again, done, base
<1>11. LogInv'
  <2>1. up' => \A s \in Streams : pc[s] = "index" => job[s].key <= storage'.snap
    <3>1. \A s \in Streams : pc[s] = "index" => job[s].key <= Newest
      BY DEF NewestInv, Published, Writers
    <3>2. QED
      BY <1>7, <3>1
  <2>2. QED
    BY <1>3, <1>7, <1>10, <2>1 DEF DataInv, LogInv
<1>12. PebbleInv'
  <2> SUFFICES ASSUME Newest \notin hollow \cup clash PROVE PebbleInv'
    BY <1>7 DEF PebbleInv
  <2>1. base = DataAt(Newest)
    <3>1. CASE Newest = 0
      BY <3>1 DEF base
    <3>2. CASE Newest # 0
      <4>1. meta # {}
        BY <3>2 DEF Newest
      <4>2. PICK p \in Peers \cup {Loop} : snap[Newest] = Split(p, DataAt(Newest))
        BY <4>1, WholeIsEnough DEF LatestIsWhole
      <4>3. Split(p, DataAt(Newest)) \in Seq(Chunk) /\ Len(Split(p, DataAt(Newest))) = Chunks
        BY <1>1, PartIsPart, DataAtType, ConstantsType
      <4>4. snap[Newest] # <<>> /\ snap[Newest][1].data = DataAt(Newest)
        BY <4>2, <4>3, ConstantsType DEF Split
      <4>5. QED
        BY <3>2, <4>4 DEF base
    <3>3. QED
      BY <3>1, <3>2
  <2>2. base.seen = 1 .. Newest /\ base.last = Newest
    BY <2>1 DEF DataAt
  <2>3. kv'.seen = 1 .. last
    BY <1>1, <1>2, <1>4, <1>6, <1>7, <1>9, <2>2
  <2>4. kv'.last = last
    <3>1. CASE again = {}
      <4>1. last = Newest
        BY <1>2, <1>4, <3>1
      <4>2. QED
        BY <1>7, <2>2, <3>1, <4>1
    <3>2. CASE again # {}
      BY <1>3, <1>7, <3>2
    <3>3. QED
      BY <3>1, <3>2
  <2>5. QED
    BY <1>4, <1>7, <2>3, <2>4 DEF PebbleInv
<1>13. QED
  BY <1>11, <1>12 DEF DataInv

LEMMA StepData ==
  TransferInv /\ TypeInv /\ NewestInv /\ CoverInv /\ DataInv /\ WholeInv /\ [Next]_vars
    => DataInv'
<1> SUFFICES ASSUME TransferInv, TypeInv, NewestInv, CoverInv, DataInv, WholeInv, [Next]_vars
             PROVE  DataInv'
  OBVIOUS
<1>0. /\ Newest \in 0 .. MaxIndex /\ Newest' \in 0 .. MaxIndex /\ Newest' >= Newest
      /\ pc \in [Writers -> Steps] /\ job \in [Writers -> JobSet]
      /\ Loop \in Writers /\ Loop \notin Streams /\ Streams \subseteq Writers
  <2>1. meta \subseteq Keys /\ meta' \subseteq Keys
    BY StepTypeInv DEF TypeInv, FileType
  <2>2. Newest = NewestOf(meta) /\ Newest' = NewestOf(meta')
    BY DEF Newest, NewestOf
  <2>3. QED
    BY <2>1, <2>2, StepNewest, NewestOfIsNewest, LoopIsWriter DEF TypeInv, CreateType, Writers
<1>1. ASSUME up' => up, UNCHANGED <<kv, setBack, raftLast, commit, applied, storage>>,
             wal' \subseteq wal,
             \A s \in Streams : pc'[s] = "index" => pc[s] = "index" /\ job'[s].key = job[s].key
      PROVE  DataInv'
  BY <1>0, <1>1, PebbleStays, LogStays DEF DataInv
<1>2. ASSUME NEW w \in Writers, NEW k, NEW bytes, Begin(w, k, bytes)
      PROVE  \A s \in Streams : pc'[s] = "index" => pc[s] = "index" /\ job'[s].key = job[s].key
  BY <1>0, <1>2 DEF Begin
<1>3. ASSUME NEW s \in Streams,
             \/ \E p \in Peers, k \in PeerKeys : OpenStream(s, p, k)
             \/ RefuseChunk(s) \/ BreakStream(s)
      PROVE  DataInv'
  BY <1>1, <1>3 DEF OpenStream, RefuseChunk, BreakStream, createVars, dataVars, diskVars, memVars
<1>4. ASSUME NEW s \in Streams, ReceiveChunk(s) PROVE DataInv'
  <2>1. UNCHANGED <<kv, setBack, raftLast, commit, applied, storage, wal, up>>
    BY <1>4 DEF ReceiveChunk, dataVars, diskVars, memVars
  <2>2. CASE stream[s].sent + 1 = Chunks
    BY <1>0, <1>1, <1>2, <1>4, <2>1, <2>2 DEF ReceiveChunk
  <2>3. CASE stream[s].sent + 1 # Chunks
    BY <1>1, <1>4, <2>1, <2>3 DEF ReceiveChunk, createVars
  <2>4. QED
    BY <2>2, <2>3
<1>5. ASSUME NEW s \in Streams, InstallStep(s) PROVE DataInv'
  <2>1. Newest' = Newest
    BY <1>5, InstallStepFrame DEF Newest
  <2>2. QED
    BY <1>0, <1>5, <2>1, InstallData
<1>6. ASSUME NEW w \in Writers, CreateStep(w) PROVE DataInv'
  <2>1. UNCHANGED <<kv, setBack, raftLast, commit, applied, storage, wal, up>>
    BY <1>6, CreateStepFrame
  <2>2. \A s \in Streams : pc'[s] = "index" => pc[s] = "index" /\ job'[s].key = job[s].key
    <3>1. \A v \in Writers \ {w} : pc'[v] = pc[v] /\ job'[v] = job[v]
      BY <1>0, <1>6 DEF CreateStep, OpenTmp, WriteTmp, RenameTmp, RenameFails, CreateFails,
         WriteMeta, Sweep, Unlink, Goto
    <3>2. pc'[w] # "index"
      BY <1>0, <1>6 DEF CreateStep, OpenTmp, WriteTmp, RenameTmp, RenameFails, CreateFails,
         WriteMeta, Sweep, Unlink, Goto
    <3>3. QED
      BY <1>0, <3>1, <3>2
  <2>3. QED
    BY <1>1, <2>1, <2>2
<1>7. CASE Advance
  <2>1. Newest' = Newest
    BY <1>7 DEF Advance, Newest, fileVars
  <2>2. QED
    BY <1>0, <1>7, <2>1, AdvanceData
<1>8. CASE SkipExport \/ CompactWal
  <2>1. /\ UNCHANGED <<kv, setBack, raftLast, commit, applied, storage, up, job>>
        /\ wal' \subseteq wal
    BY <1>8 DEF SkipExport, CompactWal, Truncated, dataVars, diskVars, memVars
  <2>2. \A s \in Streams : pc'[s] = pc[s]
    BY <1>0, <1>8 DEF SkipExport, CompactWal, Goto
  <2>3. QED
    BY <1>1, <2>1, <2>2
<1>9. CASE Export
  <2>1. /\ UNCHANGED <<kv, setBack, raftLast, commit, applied, wal, up>>
        /\ storage' = [storage EXCEPT !.snap = applied] /\ applied >= storage.snap + SnapshotEntries
        /\ Begin(Loop, applied, Split(Loop, kv))
    BY <1>9 DEF Export, Due
  <2>2. /\ storage.snap \in Nat /\ applied \in Nat /\ storage'.snap = applied
        /\ storage.snap <= applied
    BY <2>1, ConstantsType DEF TypeInv, DiskType
  <2>3. \A s \in Streams : pc'[s] = "index" => pc[s] = "index" /\ job'[s].key = job[s].key
    BY <1>0, <1>2, <2>1
  <2>4. \A s \in Streams : job[s].key \in Nat
    BY <1>0, ConstantsType DEF JobSet, Keys
  <2>5. LogInv'
    BY <2>1, <2>2, <2>3, <2>4 DEF DataInv, LogInv
  <2>6. PebbleInv'
    BY <1>0, <2>1, PebbleStays DEF DataInv
  <2>7. QED
    BY <2>5, <2>6 DEF DataInv
<1>10. CASE Crash
  BY <1>10 DEF Crash, DataInv, LogInv, PebbleInv, dataVars, diskVars
<1>11. CASE Restart
  BY <1>11, RestartData
<1>12. CASE UNCHANGED vars
  BY <1>1, <1>12 DEF vars, createVars, dataVars, diskVars, memVars
<1>13. CASE Next
  <2>1. ASSUME NEW s \in Streams,
               \/ \E p \in Peers, k \in PeerKeys : OpenStream(s, p, k)
               \/ ReceiveChunk(s) \/ RefuseChunk(s) \/ BreakStream(s) \/ InstallStep(s)
        PROVE  DataInv'
    BY <1>3, <1>4, <1>5, <2>1
  <2>2. QED
    BY <1>6, <1>7, <1>8, <1>9, <1>10, <1>11, <1>13, <2>1 DEF Next
<1>14. QED
  BY <1>12, <1>13

LEMMA InitData == Init => DataInv
<1> SUFFICES ASSUME Init PROVE DataInv
  OBVIOUS
<1>1. LogInv
  BY DEF Init, LogInv, Writers
<1>2. PebbleInv
  <2>1. /\ kv.seen = 1 .. 0 /\ kv.last = 0 /\ raftLast = 0 /\ 0 \in 0 .. MaxIndex
    BY ConstantsType DEF Init, DataAt
  <2>2. QED
    BY <2>1 DEF PebbleInv
<1>3. QED
  BY <1>1, <1>2 DEF DataInv

LEMMA StepWhole ==
  TransferInv /\ TypeInv /\ NewestInv /\ DataInv /\ WholeInv /\ [Next]_vars => WholeInv'
<1> SUFFICES ASSUME TransferInv, TypeInv, NewestInv, DataInv, WholeInv, [Next]_vars
             PROVE  WholeInv'
  OBVIOUS
<1>0. /\ pc \in [Writers -> Steps] /\ job \in [Writers -> JobSet] /\ kv \in Data
      /\ applied \in 0 .. MaxIndex /\ Loop \in Writers
  BY LoopIsWriter DEF TypeInv, CreateType, DiskType
<1>1. ASSUME UNCHANGED <<pc, job, fd, clash, tmp, snap, meta, hollow>> PROVE WholeInv'
  <2>1. Newest' = Newest
    BY <1>1 DEF Newest
  <2>2. QED
    BY <1>1, <2>1 DEF WholeInv, Creates, Good
<1>2. ASSUME NEW s \in Streams, NEW p \in Peers, NEW k \in PeerKeys, OpenStream(s, p, k)
      PROVE  WholeInv'
  BY <1>1, <1>2 DEF OpenStream, createVars, fileVars, dataVars, diskVars
<1>3. ASSUME NEW s \in Streams, RefuseChunk(s) \/ BreakStream(s) PROVE WholeInv'
  BY <1>1, <1>3 DEF RefuseChunk, BreakStream, createVars, fileVars, dataVars, diskVars
<1>4. ASSUME NEW s \in Streams, ReceiveChunk(s) PROVE WholeInv'
  <2>1. s \in Writers
    BY DEF Writers
  <2>2. PICK k, p, n : k = stream[s].key /\ p = stream[s].from /\ n = stream[s].sent
    OBVIOUS
  <2>3. stream[s].open /\ OffsetFits(s)
    BY <1>4 DEF ReceiveChunk
  <2>4. /\ k \in Keys /\ p \in Peers /\ n \in 0 .. Chunks - 1
        /\ Append(session[k], Split(p, DataAt(k))[n + 1]) = Part(p, DataAt(k), n + 1)
    BY <2>2, <2>3, NextBytes
  <2>5. CASE n + 1 = Chunks
    <3>1. Split(p, DataAt(k)) = Part(p, DataAt(k), Chunks)
      BY DEF Split, Part
    <3>2. Whole(hollow, Newest, k, Part(p, DataAt(k), n + 1))
      BY <2>4, <2>5, <3>1 DEF Whole
    <3>3. Begin(s, k, Part(p, DataAt(k), n + 1)) /\ UNCHANGED <<tmp, snap, meta, hollow>>
      BY <1>4, <2>2, <2>4, <2>5 DEF ReceiveChunk, fileVars, dataVars, diskVars
    <3>4. QED
      BY <2>1, <2>4, <3>2, <3>3, BeginWhole
  <2>6. CASE n + 1 # Chunks
    BY <1>1, <1>4, <2>2, <2>6 DEF ReceiveChunk, createVars, fileVars, dataVars, diskVars
  <2>7. QED
    BY <2>5, <2>6
<1>5. ASSUME NEW s \in Streams, InstallStep(s) PROVE WholeInv'
  <2>1. s \in Writers /\ UNCHANGED <<tmp, snap, meta, fd, clash, hollow>>
    BY <1>5, InstallStepFrame DEF Writers, InstallStep, fileVars
  <2>2. /\ \A v \in Writers \ {s} : pc'[v] = pc[v] /\ job'[v] = job[v]
        /\ job'[s] \in {job[s], Free}
        /\ pc'[s] \notin {"write", "rename", "meta"}
    BY <1>0, <1>5, <2>1 DEF InstallStep, RestoreData, ApplyToStorage, SetIndex, TruncateWal, Goto
  <2>3. QED
    BY <2>1, <2>2, AwayFromFiles
<1>6. CASE Advance \/ SkipExport \/ CompactWal
  <2>1. /\ UNCHANGED <<tmp, snap, meta, fd, clash, hollow>> /\ job' = job
        /\ \A v \in Writers \ {Loop} : pc'[v] = pc[v]
        /\ pc'[Loop] \notin {"write", "rename", "meta"}
    BY <1>0, <1>6 DEF Advance, SkipExport, CompactWal, Goto, fileVars, dataVars, diskVars
  <2>2. QED
    BY <1>0, <2>1, AwayFromFiles
<1>7. CASE Export
  <2>1. applied \in Keys
    BY <1>0, <1>7, ConstantsType DEF Export, Due, Keys, TypeInv, DiskType
  <2>2. Whole(hollow', Newest, applied, Split(Loop, kv))
    BY <1>7, ExportedData DEF Whole
  <2>3. /\ Begin(Loop, applied, Split(Loop, kv)) /\ UNCHANGED <<tmp, snap, meta>>
        /\ hollow \subseteq hollow'
    BY <1>7 DEF Export, fileVars
  <2>4. PICK k, b : k = applied /\ b = Split(Loop, kv)
    OBVIOUS
  <2>5. QED
    BY <1>0, <2>1, <2>2, <2>3, <2>4, BeginWhole
<1>8. CASE Crash
  <2>1. /\ UNCHANGED <<clash, tmp, snap, meta, hollow>>
        /\ \A v \in Writers : pc'[v] = "idle" /\ job'[v].key = 0
    BY <1>8, FreeType DEF Crash, fileVars, dataVars, diskVars
  <2>2. Newest' = Newest
    BY <2>1 DEF Newest
  <2>3. meta' # {} /\ Newest' \notin clash' => Good(Newest)'
    BY <2>1, <2>2 DEF WholeInv, Good
  <2>4. \A w \in Writers : Creates(w)'
    BY <2>1 DEF Creates
  <2>5. QED
    BY <2>1, <2>3, <2>4 DEF WholeInv
<1>9. CASE Restart \/ UNCHANGED vars
  BY <1>1, <1>9 DEF Restart, vars, createVars, fileVars, dataVars, diskVars
<1>10. ASSUME NEW w \in Writers, CreateStep(w) PROVE WholeInv'
  BY <1>10, CreateWhole
<1>11. CASE Next
  <2>1. ASSUME NEW s \in Streams,
               \/ \E p \in Peers, k \in PeerKeys : OpenStream(s, p, k)
               \/ ReceiveChunk(s) \/ RefuseChunk(s) \/ BreakStream(s) \/ InstallStep(s)
        PROVE  WholeInv'
    BY <1>2, <1>3, <1>4, <1>5, <2>1
  <2>2. QED
    BY <1>6, <1>7, <1>8, <1>9, <1>10, <1>11, <2>1 DEF Next
<1>12. QED
  BY <1>9, <1>11

LEMMA InitWhole == Init => WholeInv
<1> SUFFICES ASSUME Init PROVE WholeInv
  OBVIOUS
<1>1. \A w \in Writers : pc[w] = "idle" /\ job[w].key = 0
  BY FreeType DEF Init
<1>2. meta = {}
  BY DEF Init
<1>3. QED
  BY <1>1, <1>2 DEF WholeInv, Creates

LEMMA CoverIsEnough == TypeInv /\ CoverInv /\ WholeInv => RecoveryHasNoHole
<1> SUFFICES ASSUME TypeInv, CoverInv, WholeInv, NEW i \in 1 .. commit
             PROVE  \/ i > Newest /\ i \in wal
                    \/ /\ i <= Newest
                       /\ Newest \in clash \cup hollow \/ i \in snap[Newest][1].data.seen
  BY DEF RecoveryHasNoHole
<1>1. i \in Keys /\ i <= commit /\ Newest \in 0 .. MaxIndex /\ i \in Nat /\ i >= 1
  BY NewestIsNewest, ConstantsType DEF TypeInv, DiskType, FileType, Keys
<1>2. i <= Newest \/ i \in wal
  BY <1>1 DEF CoverInv, Claimed
<1>3. ASSUME i <= Newest, Newest \notin clash \cup hollow PROVE i \in snap[Newest][1].data.seen
  <2>1. meta # {}
    BY <1>1, <1>3 DEF Newest
  <2>2. PICK p \in Peers \cup {Loop} : snap[Newest] = Split(p, DataAt(Newest))
    BY <1>3, <2>1, WholeIsEnough DEF LatestIsWhole
  <2>3. snap[Newest][1].data = DataAt(Newest)
    BY <2>2, ConstantsType DEF Split
  <2>4. QED
    BY <1>1, <1>3, <2>3 DEF DataAt
<1>4. QED
  BY <1>1, <1>2, <1>3

(* Every variable keeps its type: no session outgrows a snapshot, indices  *)
(* stay within the log, and the data restored are those of an index.       *)
THEOREM TypeCorrect == Spec => []TypeOK
<1>1. TransferInv /\ TypeInv /\ [Next]_vars => TransferInv' /\ TypeInv'
  BY StepTransfer, StepTypeInv
<1>2. QED
  BY InitInv, TypeOKParts, <1>1, PTL DEF Spec

(* Whatever number of streams of whatever peers interleave, break off and  *)
(* begin again, what InstallSnapshotChunk hands to InstallSnapshot is one  *)
(* peer's snapshot, whole and in order (transport_service.go:55-88).       *)
THEOREM OneSenderPerSnapshotAlways == Spec => []OneSenderPerSnapshot
<1>1. TransferInv /\ TypeInv /\ [Next]_vars => TransferInv' /\ TypeInv'
  BY StepTransfer, StepTypeInv
<1>2. TypeInv => OneSenderPerSnapshot
  BY DEF TypeInv, JobsInv
<1>3. QED
  BY InitInv, <1>1, <1>2, PTL DEF Spec

(* The newest snapshot on disk never gets older: not by an older snapshot  *)
(* that a peer sends late, not by Cleanup in two goroutines that choose    *)
(* their victims from what each of them sees, nor by a crash               *)
(* (snapshot.go:88-138, 172-194).                                          *)
THEOREM NewestOnlyAdvancesAlways == Spec => NewestOnlyAdvances
<1>1. TransferInv /\ TypeInv /\ NewestInv /\ [Next]_vars
        => TransferInv' /\ TypeInv' /\ NewestInv'
  BY StepTransfer, StepTypeInv, StepNewest
<1>2. TransferInv /\ TypeInv /\ NewestInv /\ [Next]_vars => [Newest' >= Newest]_vars
  BY StepNewest
<1>3. Init => TransferInv /\ TypeInv /\ NewestInv
  BY InitInv, InitNewest
<1>4. QED
  BY <1>1, <1>2, <1>3, PTL DEF Spec, NewestOnlyAdvances

\* The whole invariant.
InstallInv == /\ TransferInv /\ TypeInv /\ NewestInv /\ CoverInv /\ DataInv /\ WholeInv

LEMMA StepInstall == InstallInv /\ [Next]_vars => InstallInv'
BY StepTransfer, StepTypeInv, StepNewest, StepCover, StepData, StepWhole DEF InstallInv

LEMMA InitInstall == Init => InstallInv
BY InitInv, InitNewest, InitData, InitWhole DEF InstallInv

(* Every committed entry is in the data of the newest snapshot or in the   *)
(* WAL after it, for any number of installs and exports side by side and   *)
(* any retention: what a writer truncates the WAL to is never newer than   *)
(* the newest snapshot, and what the run loop exports has what its index   *)
(* says, or is not the newest, where Pebble was not set back before        *)
(* (service.go:191-236, node.go:900-964, 1006-1052).                       *)
THEOREM RecoveryHasNoHoleAlways == Spec => []RecoveryHasNoHole
<1>1. InstallInv => RecoveryHasNoHole
  BY CoverIsEnough DEF InstallInv
<1>2. QED
  BY <1>1, InitInstall, StepInstall, PTL DEF Spec

(* Whatever a crash cuts short, the newest snapshot on disk is one writer's*)
(* and whole, with the data of its index, for any number of writers of     *)
(* different snapshots, any retention and any Cleanup beside them; what    *)
(* Create's own steps do not give is a key that two of them share          *)
(* (snapshot.go:88-138, 172-194, service.go:199-221, node.go:900-964).     *)
THEOREM LatestIsWholeAlways == Spec => []LatestIsWhole
<1>1. InstallInv => LatestIsWhole
  BY WholeIsEnough DEF InstallInv
<1>2. QED
  BY <1>1, InitInstall, StepInstall, PTL DEF Spec

=============================================================================
