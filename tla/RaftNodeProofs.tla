--------------------------- MODULE RaftNodeProofs ---------------------------
(***************************************************************************)
(* Proofs about RaftNode, for every log length, snapshot interval, number  *)
(* of retained entries and number of crashes.                              *)
(***************************************************************************)
EXTENDS RaftNode, FiniteSetTheorems, NaturalsInduction, WellFoundedInduction, TLAPS

-----------------------------------------------------------------------------
\* The inductive invariant.

\* One of the snapshot files, if there is any, is the newest.
HasNewest(files) ==
  DOMAIN files # {} => \E s \in DOMAIN files : \A t \in DOMAIN files : t <= s

TypeInv == TypeOK /\ HasNewest(snaps)

\* The last entry that this Ready, or the ones before it, put into the WAL.
Persisted == CASE pc \in {"idle", "state"} -> stable
               [] pc = "entries" -> cur
               [] pc \in {"down", "replay", "panicked"} -> Smaller(walCommit, walHi)
               [] OTHER -> last

\* The committed entries among those in the WAL: DurableIndex, where the WAL
\* reaches the newest snapshot.
Durable == IF pc = "entries" THEN Smaller(walCommit, cur)
                             ELSE Smaller(walCommit, walHi)

AfterWal == pc \in {"apply", "snapshot", "compact", "cleanup", "advance"}

\* raft's indexes are ordered, and the HardState is on disk as raft emitted it.
RaftOrder ==
  /\ Up => applying <= committed /\ committed <= last /\ stable <= last
  /\ pc \in {"idle", "state"} =>
       /\ walCommit = memCommit
       /\ walCommit <= stable /\ walCommit <= committed /\ applying <= walCommit
  /\ pc = "state" => cur = stable
  /\ pc = "entries" => /\ walCommit = committed /\ stable <= cur /\ cur < last
                       /\ memCommit <= stable /\ applying <= memCommit
  /\ AfterWal => walCommit = committed /\ memCommit = committed
  /\ Up /\ pc # "idle" => applying <= hi /\ hi <= committed
  /\ pc = "apply" => applying <= cur /\ cur <= hi
  /\ pc = "replay" => memCommit = walCommit

\* The WAL has what was persisted, and reaches down to the newest snapshot.
WalShape ==
  /\ WalEmpty => walLo = 1 /\ walHi = 0
  /\ LatestSnapshot <= walHi
  /\ walLo <= LatestSnapshot + 1
  /\ Persisted <= walHi
  /\ \A i \in Index : walLo <= i /\ i <= Persisted => walEnt[i] = log[i]
  /\ pc \in {"down", "replay"} => walCommit <= walHi

\* Snapshots are never ahead of the one MemoryStorage knows.
SnapshotShape ==
  /\ Up \/ pc = "replay" => \A s \in DOMAIN snaps : s <= memSnap
  /\ pc = "compact" => kvApplied \in DOMAIN snaps
  /\ pc = "replay" => LatestSnapshot <= cur

\* Nothing in Pebble, in a snapshot or in the status is ahead of what is durable.
Behind ==
  /\ \A k \in Keys : kv[k] <= Durable
  /\ \A s \in DOMAIN snaps : /\ s <= Durable
                             /\ \A k \in Keys : snaps[s][k] <= Durable
  /\ kvApplied <= Durable /\ statusApplied <= Durable

Core == pc # "panicked" /\ RaftOrder /\ WalShape /\ SnapshotShape /\ Behind

IInv == TypeInv /\ (Trusted => Core)

-----------------------------------------------------------------------------
\* Facts about the helpers.

LEMMA SmallerIsPosition ==
  ASSUME NEW a \in Int, NEW b \in Int
  PROVE  /\ Smaller(a, b) \in {a, b}
         /\ Smaller(a, b) <= a /\ Smaller(a, b) <= b
BY DEF Smaller

\* An applied command keeps an image an image.
LEMMA AppliedIsImage ==
  ASSUME NEW image \in Images, NEW ents, NEW i \in Position
  PROVE  Applied(image, ents, i) \in Images
BY DEF Applied, Images

\* Cleanup keeps a set of snapshot files a set of snapshot files.
LEMMA CleanedFiles ==
  ASSUME NEW files, NEW S, files \in [DOMAIN files -> S], NEW keep
  PROVE  /\ DOMAIN Cleaned(files, keep) \subseteq DOMAIN files
         /\ Cleaned(files, keep) \in [DOMAIN Cleaned(files, keep) -> S]
         /\ \A s \in DOMAIN Cleaned(files, keep) :
               Cleaned(files, keep)[s] = files[s]
BY DEF Cleaned

\* Cleanup keeps the newest file, whatever the number of files to keep.
LEMMA CleanedKeepsNewest ==
  ASSUME NEW files, DOMAIN files \subseteq Index, HasNewest(files),
         NEW keep \in Nat \ {0}
  PROVE  /\ HasNewest(Cleaned(files, keep))
         /\ \A s \in DOMAIN files : (\A t \in DOMAIN files : t <= s)
                                     => s \in DOMAIN Cleaned(files, keep)
<1>1. ASSUME NEW s \in DOMAIN files, \A t \in DOMAIN files : t <= s
      PROVE  s \in DOMAIN Cleaned(files, keep)
  <2>1. {u \in DOMAIN files : u > s} = {}
    BY <1>1 DEF Index
  <2>2. Cardinality({u \in DOMAIN files : u > s}) < keep
    BY <2>1, FS_EmptySet
  <2>3. QED
    BY <1>1, <2>2 DEF Cleaned
<1>2. DOMAIN Cleaned(files, keep) \subseteq DOMAIN files
  BY DEF Cleaned
<1>3. QED
  BY <1>1, <1>2 DEF HasNewest

\* In a directory that has a newest file, Newest is that file.
LEMMA NewestIsNewest ==
  ASSUME NEW files, DOMAIN files \subseteq Index, HasNewest(files), MaxIndex \in Nat
  PROVE  /\ Newest(files) \in Position
         /\ \A s \in DOMAIN files : s <= Newest(files)
         /\ DOMAIN files # {} => Newest(files) \in DOMAIN files
         /\ DOMAIN files = {} => Newest(files) = 0
<1>1. CASE DOMAIN files = {}
  BY <1>1 DEF Newest, Position
<1>2. CASE DOMAIN files # {}
  <2>1. Newest(files) = CHOOSE s \in DOMAIN files : \A t \in DOMAIN files : t <= s
    BY <1>2 DEF Newest
  <2>2. /\ Newest(files) \in DOMAIN files
        /\ \A t \in DOMAIN files : t <= Newest(files)
    BY <1>2, <2>1 DEF HasNewest
  <2>3. Newest(files) \in Position
    BY <2>2 DEF Index, Position
  <2>4. QED
    BY <1>2, <2>2, <2>3
<1>3. QED
  BY <1>1, <1>2

-----------------------------------------------------------------------------
\* Type correctness, from which every other proof starts.

\* The variables that hold an index.
IndexesOK ==
  /\ last \in Position /\ stable \in Position
  /\ committed \in Position /\ applying \in Position
  /\ cur \in Position /\ hi \in Position
  /\ memFirst \in 1 .. MaxIndex + 1 /\ memSnap \in Position
  /\ memCommit \in Position
  /\ statusApplied \in Position /\ statusCommit \in Position
  /\ walCommit \in Position
  /\ walLo \in 1 .. MaxIndex + 1 /\ walHi \in Position
  /\ kvApplied \in Position

\* Every step keeps the variables in their types.
LEMMA StepTypeOK == TypeInv /\ [Next]_vars => TypeOK'
<1> SUFFICES ASSUME TypeInv, [Next]_vars
             PROVE  TypeOK'
  OBVIOUS
<1>a. TypeOK /\ HasNewest(snaps) /\ IndexesOK
  BY DEF TypeInv, TypeOK, IndexesOK
<1>b. MaxIndex \in Nat /\ Commands \subseteq SUBSET Keys
  BY ConstantsAssumption
<1>c. Index \subseteq Position
  BY <1>b DEF Index, Position
<1>d. LatestSnapshot \in Position /\ RecoveredLast \in Position
      /\ (LatestSnapshot = 0 \/ LatestSnapshot \in DOMAIN snaps)
  BY <1>a, <1>b, NewestIsNewest DEF TypeOK, RecoveredLast, LatestSnapshot
<1> USE <1>a, <1>b
<1>1. ASSUME NEW i \in Index, NEW entry \in Commands, RaftAppend(i, entry)
      PROVE  TypeOK'
  <2>1. log' \in [Index -> SUBSET Keys]
    BY <1>1 DEF RaftAppend, TypeOK
  <2>2. last' \in Position /\ stable' \in Position
    BY <1>1 DEF RaftAppend, Smaller, IndexesOK, Index, Position
  <2>3. QED
    BY <1>1, <2>1, <2>2
       DEF RaftAppend, TypeOK, loopVars, memVars, diskVars, walVars, boundVars
<1>2. ASSUME NEW i \in Index, RaftCommit(i)
      PROVE  TypeOK'
  BY <1>2, <1>c
     DEF RaftCommit, TypeOK, loopVars, memVars, diskVars, walVars, boundVars
<1>3. ASSUME NEW i \in Position, RaftReady(i)
      PROVE  TypeOK'
  BY <1>3 DEF RaftReady, TypeOK, Steps, raftVars, memVars, diskVars, walVars,
              boundVars
<1>4. ASSUME PersistState PROVE TypeOK'
  BY <1>4 DEF PersistState, TypeOK, Steps, raftVars, boundVars
<1>5. ASSUME WalAppendEntry PROVE TypeOK'
  <2>1. cur < last => /\ cur + 1 \in Index /\ cur + 1 \in Position
                      /\ cur + 1 \in 1 .. MaxIndex + 1
    BY DEF IndexesOK, Index, Position
  <2>2. cur < last
    BY <1>5 DEF WalAppendEntry
  <2>3. walEnt' \in [Index -> SUBSET Keys]
    BY <1>5, <2>1, <2>2 DEF WalAppendEntry, TypeOK
  <2>4. QED
    BY <1>5, <2>1, <2>2, <2>3
       DEF WalAppendEntry, EntriesDone, TypeOK, Steps, raftVars, boundVars
<1>6. ASSUME WalRewriteTail PROVE TypeOK'
  <2>1. walLo' \in 1 .. MaxIndex + 1
    BY <1>6 DEF WalRewriteTail, Smaller, IndexesOK, Position
  <2>2. walEnt' \in [Index -> SUBSET Keys]
    BY <1>6 DEF WalRewriteTail, TypeOK
  <2>3. QED
    BY <1>6, <2>1, <2>2
       DEF WalRewriteTail, EntriesDone, TypeOK, Steps, raftVars, boundVars
<1>7. ASSUME WalGapError PROVE TypeOK'
  BY <1>7 DEF WalGapError, EntriesDone, TypeOK, Steps, raftVars, diskVars, walVars,
              boundVars
<1>8. ASSUME ApplyEntry PROVE TypeOK'
  <2>1. cur + 1 \in Position
    BY <1>8 DEF ApplyEntry, IndexesOK, Position
  <2>2. kv' \in Images
    BY <1>8, <2>1, AppliedIsImage DEF ApplyEntry, TypeOK
  <2>3. QED
    BY <1>8, <2>1, <2>2
       DEF ApplyEntry, TypeOK, raftVars, memVars, walVars, boundVars
<1>9. ASSUME FinishApply PROVE TypeOK'
  BY <1>9 DEF FinishApply, TypeOK, Steps, raftVars, walVars, boundVars
<1>10. ASSUME SkipSnapshot PROVE TypeOK'
  BY <1>10 DEF SkipSnapshot, TypeOK, Steps, raftVars, memVars, diskVars, walVars,
               boundVars
<1>11. ASSUME CreateSnapshot PROVE TypeOK'
  <2> DEFINE files == [s \in DOMAIN snaps \cup {kvApplied} |->
                         IF s = kvApplied THEN kv ELSE snaps[s]]
  <2>1. kvApplied \in Index
    BY <1>11 DEF CreateSnapshot, SnapshotDue, IndexesOK, Index, Position
  <2>2. files \in [DOMAIN files -> Images] /\ DOMAIN files \subseteq Index
    BY <2>1 DEF TypeOK
  <2>3. snaps' = Cleaned(files, DefaultKeep)
    BY <1>11 DEF CreateSnapshot
  <2> HIDE DEF files
  <2>4. /\ DOMAIN snaps' \subseteq Index
        /\ snaps' \in [DOMAIN snaps' -> Images]
    BY <2>2, <2>3, CleanedFiles
  <2>5. QED
    BY <1>11, <2>4
       DEF CreateSnapshot, TypeOK, Steps, raftVars, walVars, boundVars
<1>12. ASSUME Compact PROVE TypeOK'
  <2>1. CompactIndex \in Int /\ CompactIndex <= MaxIndex
    BY ConstantsAssumption DEF CompactIndex, IndexesOK, Position
  <2>2. memFirst' \in 1 .. MaxIndex + 1
    BY <1>12, <2>1 DEF Compact, IndexesOK
  <2>3. /\ walLo' \in 1 .. MaxIndex + 1 /\ walHi' \in Position
        /\ walCommit' \in Position
    BY <1>12, <2>1 DEF Compact, TruncatedWal, WalEmpty, walVars, IndexesOK, Position
  <2>4. walEnt' \in [Index -> SUBSET Keys]
    BY <1>12 DEF Compact, TruncatedWal, walVars, TypeOK
  <2>5. QED
    BY <1>12, <2>2, <2>3, <2>4 DEF Compact, TypeOK, Steps, raftVars, boundVars
<1>13. ASSUME CleanupSnapshots PROVE TypeOK'
  <2>1. /\ DOMAIN snaps' \subseteq Index
        /\ snaps' \in [DOMAIN snaps' -> Images]
    BY <1>13, CleanedFiles DEF CleanupSnapshots, TypeOK
  <2>2. QED
    BY <1>13, <2>1
       DEF CleanupSnapshots, TypeOK, Steps, raftVars, memVars, walVars, boundVars
<1>14. ASSUME Advance PROVE TypeOK'
  <2>1. 0 \in Position
    BY DEF Position
  <2>2. QED
    BY <1>14, <2>1 DEF Advance, TypeOK, Steps, memVars, diskVars, walVars, boundVars
<1>15. ASSUME WalFails PROVE TypeOK'
  <2>1. walFaults' \in 0 .. MaxWalFaults
    BY <1>15, ConstantsAssumption DEF WalFails, TypeOK
  <2>2. QED
    BY <1>15, <2>1
       DEF WalFails, EntriesDone, TypeOK, Steps, raftVars, diskVars, walVars
<1>16. ASSUME CreateSnapshotFails PROVE TypeOK'
  <2>1. snapFaults' \in 0 .. MaxSnapFaults
    BY <1>16, ConstantsAssumption DEF CreateSnapshotFails, TypeOK
  <2>2. QED
    BY <1>16, <2>1
       DEF CreateSnapshotFails, TypeOK, Steps, raftVars, diskVars, walVars
<1>17. ASSUME LoseMemory, crashes' \in 0 .. MaxCrashes,
              tornCrashes' \in 0 .. MaxTornCrashes
       PROVE  TypeOK'
  <2>1. 0 \in Position /\ 1 \in 1 .. MaxIndex + 1
    BY DEF Position
  <2>2. QED
    BY <1>17, <2>1 DEF LoseMemory, TypeOK, Steps, diskVars, walVars
<1>18. ASSUME Crash \/ TornCrash PROVE TypeOK'
  <2>1. /\ crashes' \in 0 .. MaxCrashes
        /\ tornCrashes' \in 0 .. MaxTornCrashes
    BY <1>18, ConstantsAssumption DEF Crash, TornCrash, TypeOK
  <2>2. QED
    BY <1>17, <1>18, <2>1 DEF Crash, TornCrash
<1>19. ASSUME BootRestore PROVE TypeOK'
  <2>1. kv' \in Images /\ kvApplied' \in Position
    BY <1>19, <1>d DEF BootRestore, TypeOK
  <2>2. memFirst' \in 1 .. MaxIndex + 1
    BY <1>19, <1>d DEF BootRestore, IndexesOK, Position
  <2>3. QED
    BY <1>19, <1>d, <2>1, <2>2
       DEF BootRestore, TypeOK, Steps, raftVars, walVars, boundVars
<1>20. ASSUME BootReplay PROVE TypeOK'
  <2>1. cur + 1 \in Position
    BY <1>20, <1>d DEF BootReplay, ReplayLast, Smaller, IndexesOK, Position
  <2>2. kv' \in Images
    BY <1>20, <2>1, AppliedIsImage DEF BootReplay, TypeOK
  <2>3. QED
    BY <1>20, <2>1, <2>2
       DEF BootReplay, TypeOK, raftVars, memVars, walVars, boundVars
<1>21. ASSUME BootFinish PROVE TypeOK'
  <2>1. log' \in [Index -> SUBSET Keys]
    BY <1>21 DEF BootFinish, raftVars, TypeOK
  <2>2. 0 \in Position
    BY DEF Position
  <2>3. QED
    BY <1>21, <1>d, <2>1, <2>2
       DEF BootFinish, TypeOK, Steps, raftVars, memVars, diskVars, walVars, boundVars
<1>22. CASE UNCHANGED vars
  BY <1>22
     DEF vars, TypeOK, raftVars, loopVars, memVars, diskVars, walVars, boundVars
<1>23. QED
  BY <1>1, <1>2, <1>3, <1>4, <1>5, <1>6, <1>7, <1>8, <1>9, <1>10, <1>11, <1>12,
     <1>13, <1>14, <1>15, <1>16, <1>18, <1>19, <1>20, <1>21, <1>22
     DEF Next, LoopStep

\* Every step keeps a newest snapshot file.
LEMMA StepHasNewest == TypeInv /\ [Next]_vars => HasNewest(snaps)'
<1> SUFFICES ASSUME TypeInv, [Next]_vars
             PROVE  HasNewest(snaps)'
  OBVIOUS
<1>0. /\ DOMAIN snaps \subseteq Index /\ kvApplied \in Position
      /\ memSnap \in Position /\ HasNewest(snaps)
  BY DEF TypeInv, TypeOK
<1>1. ASSUME CreateSnapshot PROVE HasNewest(snaps)'
  <2> DEFINE files == [s \in DOMAIN snaps \cup {kvApplied} |->
                         IF s = kvApplied THEN kv ELSE snaps[s]]
  <2>1. kvApplied \in Index
    BY <1>0, <1>1, ConstantsAssumption
       DEF CreateSnapshot, SnapshotDue, Index, Position
  <2>2. DOMAIN files \subseteq Index
    BY <1>0, <2>1
  <2>3. HasNewest(files)
    <3>1. PICK n \in DOMAIN files : \A t \in DOMAIN snaps : t <= n
      BY <1>0, <2>1 DEF HasNewest
    <3>2. CASE n <= kvApplied
      BY <1>0, <2>1, <3>1, <3>2 DEF HasNewest, Index
    <3>3. CASE n > kvApplied
      BY <1>0, <2>1, <3>1, <3>3 DEF HasNewest, Index
    <3>4. QED
      BY <2>1, <2>2, <3>1, <3>2, <3>3 DEF Index
  <2>4. snaps' = Cleaned(files, DefaultKeep)
    BY <1>1 DEF CreateSnapshot
  <2> HIDE DEF files
  <2>5. QED
    BY <2>2, <2>3, <2>4, CleanedKeepsNewest, ConstantsAssumption DEF HasNewest
<1>2. ASSUME CleanupSnapshots PROVE HasNewest(snaps)'
  BY <1>0, <1>2, CleanedKeepsNewest, ConstantsAssumption
     DEF CleanupSnapshots, HasNewest
<1>3. ASSUME UNCHANGED snaps PROVE HasNewest(snaps)'
  BY <1>0, <1>3 DEF HasNewest
<1>4. QED
  BY <1>1, <1>2, <1>3
     DEF Next, LoopStep, RaftAppend, RaftCommit, RaftReady, PersistState,
         WalAppendEntry, WalRewriteTail, WalGapError, WalFails, ApplyEntry,
         FinishApply, SkipSnapshot, CreateSnapshotFails, Compact, Advance, Crash,
         TornCrash, LoseMemory, BootRestore, BootReplay, BootFinish, vars,
         diskVars

\* Every reachable state of the node has its variables in their types.
THEOREM TypeCorrect == Spec => []TypeOK
<1>1. Init => TypeInv
  BY ConstantsAssumption
     DEF Init, TypeInv, TypeOK, HasNewest, Index, Position, Steps, Images
<1>2. TypeInv /\ [Next]_vars => TypeInv'
  BY StepTypeOK, StepHasNewest DEF TypeInv
<1>3. TypeInv => TypeOK
  BY DEF TypeInv
<1>4. QED
  BY <1>1, <1>2, <1>3, PTL DEF Spec

-----------------------------------------------------------------------------
\* The induction: one lemma for each group of steps.

\* What every step starts from.
LEMMA CoreFacts ==
  ASSUME TypeInv, Core
  PROVE  /\ MaxIndex \in Nat /\ IndexesOK /\ Index \subseteq Position
         /\ LatestSnapshot \in Position
         /\ LatestSnapshot <= Durable
         /\ RecoveredLast = walHi
         /\ DurableIndex = Durable
         /\ Durable \in Position
         /\ Durable <= Persisted /\ Durable <= walHi
         /\ \A k \in Keys : kv[k] \in Position
         /\ \A s \in DOMAIN snaps : /\ s \in Index
                                    /\ \A k \in Keys : snaps[s][k] \in Position
<1>1. MaxIndex \in Nat /\ IndexesOK /\ Index \subseteq Position
  <2>1. IndexesOK
    BY DEF TypeInv, TypeOK, IndexesOK
  <2>2. QED
    BY <2>1, ConstantsAssumption DEF Index, Position
<1>2. /\ LatestSnapshot \in Position
      /\ LatestSnapshot = 0 \/ LatestSnapshot \in DOMAIN snaps
  BY <1>1, NewestIsNewest DEF TypeInv, TypeOK, LatestSnapshot
<1>3. Durable \in Position /\ Durable <= walHi
  BY <1>1 DEF Durable, Smaller, IndexesOK, Position, Core, WalShape, Persisted
<1>4. LatestSnapshot <= Durable
  BY <1>2, <1>3 DEF Core, Behind, Position
<1>5. RecoveredLast = walHi
  BY <1>1, <1>2 DEF RecoveredLast, WalEmpty, Core, WalShape, IndexesOK, Position
<1>6. DurableIndex = Durable
  BY <1>5 DEF DurableIndex, Durable, ReplayLast
<1>7. Durable <= Persisted
  <2>1. pc \in Steps
    BY DEF TypeInv, TypeOK
  <2>2. QED
    BY <1>1, <2>1
       DEF Durable, Persisted, Smaller, Core, RaftOrder, IndexesOK, Position,
           Steps, Up, AfterWal
<1>8. /\ \A k \in Keys : kv[k] \in Position
      /\ \A s \in DOMAIN snaps : /\ s \in Index
                                 /\ \A k \in Keys : snaps[s][k] \in Position
  BY DEF TypeInv, TypeOK, Images
<1>9. QED
  BY <1>1, <1>2, <1>3, <1>4, <1>5, <1>6, <1>7, <1>8

\* A step that leaves Pebble and the snapshots alone, and takes nothing durable
\* back, leaves everything behind what is durable.
LEMMA BehindStays ==
  ASSUME TypeInv, Core, UNCHANGED <<kv, snaps, kvApplied>>,
         statusApplied' = statusApplied \/ statusApplied' = 0,
         Durable' \in Int, Durable <= Durable'
  PROVE  Behind'
<1>1. /\ Durable \in Position /\ kvApplied \in Position /\ statusApplied \in Position
      /\ \A k \in Keys : kv[k] \in Position
      /\ \A s \in DOMAIN snaps : /\ s \in Index
                                 /\ \A k \in Keys : snaps[s][k] \in Position
  BY CoreFacts DEF IndexesOK
<1>2. Behind
  BY DEF Core
<1> HIDE DEF Durable
<1>3. 0 <= Durable
  BY <1>1 DEF Position
<1>4. QED
  BY <1>1, <1>2, <1>3 DEF Behind, Position, Index

\* The steps of etcd raft.
LEMMA RaftSteps ==
  ASSUME TypeInv, Core,
         \/ \E i \in Index, entry \in Commands : RaftAppend(i, entry)
         \/ \E i \in Index : RaftCommit(i)
         \/ \E i \in Position : RaftReady(i)
  PROVE  Core'
<1>0. MaxIndex \in Nat /\ IndexesOK /\ Durable \in Position /\ pc = "idle"
  BY CoreFacts DEF RaftAppend, RaftCommit, RaftReady
<1>1. /\ UNCHANGED <<diskVars, memVars>>
      /\ pc' = "idle" \/ (pc' = "state" /\ cur' = stable /\ stable' = stable)
  BY <1>0 DEF RaftAppend, RaftCommit, RaftReady, loopVars, raftVars
<1>2. RaftOrder'
  <2>1. ASSUME NEW i \in Index, NEW entry \in Commands, RaftAppend(i, entry)
        PROVE  RaftOrder'
    BY <1>0, <2>1
       DEF RaftAppend, RaftOrder, Core, Up, AfterWal, Smaller, IndexesOK, Position,
           Index, loopVars, memVars, diskVars, walVars
  <2>2. ASSUME NEW i \in Index, RaftCommit(i) PROVE RaftOrder'
    BY <1>0, <2>2
       DEF RaftCommit, RaftOrder, Core, Up, AfterWal, IndexesOK, Position,
           loopVars, memVars, diskVars, walVars
  <2>3. ASSUME NEW i \in Position, RaftReady(i) PROVE RaftOrder'
    BY <1>0, <2>3
       DEF RaftReady, RaftOrder, Core, Up, AfterWal, IndexesOK, Position,
           raftVars, memVars, diskVars, walVars
  <2>4. QED
    BY <2>1, <2>2, <2>3
<1>3. WalShape'
  <2>1. /\ stable' \in Int /\ stable' <= stable
        /\ \A i \in Index : i <= stable' => log'[i] = log[i]
    <3>1. ASSUME NEW i \in Index, NEW entry \in Commands, RaftAppend(i, entry)
          PROVE  /\ stable' \in Int /\ stable' <= stable
                 /\ \A j \in Index : j <= stable' => log'[j] = log[j]
      <4>1. stable' \in Int /\ stable' <= stable /\ stable' < i
        <5>1. stable' = Smaller(stable, i - 1)
          BY <3>1 DEF RaftAppend
        <5>2. stable \in Int /\ i \in Int
          BY <1>0 DEF IndexesOK, Index, Position
        <5>3. QED
          BY <5>1, <5>2 DEF Smaller
      <4>2. \A j \in Index : j < i => log'[j] = log[j]
        BY <3>1 DEF RaftAppend
      <4>3. QED
        BY <4>1, <4>2 DEF Index
    <3>2. ASSUME UNCHANGED <<log, stable>>
          PROVE  /\ stable' \in Int /\ stable' <= stable
                 /\ \A j \in Index : j <= stable' => log'[j] = log[j]
      BY <1>0, <3>2 DEF IndexesOK, Position
    <3>3. QED
      BY <3>1, <3>2 DEF RaftCommit, RaftReady, raftVars
  <2>2. Persisted = stable /\ Persisted' = stable'
    BY <1>0, <1>1 DEF Persisted
  <2>3. LatestSnapshot' = LatestSnapshot
    BY <1>1 DEF LatestSnapshot, diskVars
  <2>4. QED
    BY <1>0, <1>1, <2>1, <2>2, <2>3
       DEF WalShape, Core, WalEmpty, diskVars, walVars, IndexesOK, Index, Position
<1>4. SnapshotShape'
  BY <1>0, <1>1 DEF SnapshotShape, Core, Up, diskVars, memVars
<1>5. Behind'
  <2>1. Durable' = Durable
    BY <1>0, <1>1 DEF Durable, Smaller, diskVars, walVars
  <2>2. QED
    BY <1>0, <1>1, <2>1, BehindStays DEF diskVars, memVars, Position
<1>6. QED
  BY <1>1, <1>2, <1>3, <1>4, <1>5 DEF Core

\* FileWAL.Append, when it succeeds.
LEMMA WalSteps ==
  ASSUME TypeInv, Core,
         PersistState \/ WalAppendEntry \/ WalRewriteTail \/ WalGapError
  PROVE  Core'
<1>0. /\ MaxIndex \in Nat /\ IndexesOK /\ Durable \in Position
      /\ LatestSnapshot \in Position /\ LatestSnapshot <= Durable
  BY CoreFacts
<1>a. /\ UNCHANGED <<raftVars, hi, memFirst, memSnap, statusApplied, kv, kvApplied,
                     snaps>>
      /\ pc \in {"state", "entries"} /\ pc' \in {"entries", "apply"}
      /\ pc' = "apply" => memCommit' = committed /\ cur' = applying
  BY DEF PersistState, WalAppendEntry, WalRewriteTail, WalGapError, EntriesDone,
         diskVars, walVars
<1>b. LatestSnapshot' = LatestSnapshot
  BY <1>a DEF LatestSnapshot
<1>c. SnapshotShape'
  BY <1>a DEF SnapshotShape, Core, Up
<1>1. ASSUME PersistState PROVE Core'
  <2>1. RaftOrder'
    BY <1>0, <1>1 DEF PersistState, RaftOrder, Core, Up, AfterWal, IndexesOK,
                      Position, raftVars
  <2>2. WalShape'
    <3>1. Persisted' = Persisted
      BY <1>0, <1>1 DEF PersistState, Persisted, Core, RaftOrder, Up, raftVars,
                        IndexesOK, Position
    <3>2. QED
      BY <1>0, <1>1, <1>a, <1>b, <3>1
         DEF PersistState, WalShape, Core, WalEmpty, raftVars
  <2>3. Durable' \in Int /\ Durable <= Durable'
    <3>1. /\ Durable = Smaller(walCommit, walHi)
          /\ Durable' = Smaller(walCommit', IF stable < last THEN stable ELSE walHi)
          /\ walCommit' \in {walCommit, committed}
          /\ walCommit <= stable /\ walCommit <= committed
      BY <1>1 DEF PersistState, Durable, Core, RaftOrder, raftVars
    <3>2. QED
      BY <1>0, <3>1 DEF Smaller, IndexesOK, Position
  <2>4. QED
    BY <1>0, <1>a, <1>c, <2>1, <2>2, <2>3, BehindStays DEF Core
<1>2. ASSUME WalAppendEntry PROVE Core'
  <2>0. cur \in Nat /\ cur + 1 \in Index /\ last \in Nat /\ walHi = cur
        /\ walLo' = walLo /\ walLo \in Nat /\ walHi \in Nat
    BY <1>0, <1>2 DEF WalAppendEntry, Core, WalShape, Persisted, WalEmpty,
                      IndexesOK, Index, Position
  <2>1. RaftOrder'
    BY <1>0, <1>2, <2>0
       DEF WalAppendEntry, EntriesDone, RaftOrder, Core, Up, AfterWal, IndexesOK,
           Position, raftVars
  <2>2. WalShape'
    <3>1. Persisted = cur /\ Persisted' = cur + 1
      BY <1>2 DEF WalAppendEntry, EntriesDone, Persisted, raftVars
    <3>2. walEnt'[cur + 1] = log[cur + 1]
          /\ \A i \in Index : i # cur + 1 => walEnt'[i] = walEnt[i]
      BY <1>2, <2>0 DEF WalAppendEntry, TypeInv, TypeOK
    <3>3. \A i \in Index : walLo' <= i /\ i <= Persisted' => walEnt'[i] = log'[i]
      BY <1>2, <2>0, <3>1, <3>2
         DEF WalAppendEntry, raftVars, Core, WalShape, Index
    <3>4. LatestSnapshot <= walHi /\ walLo <= LatestSnapshot + 1
      BY DEF Core, WalShape
    <3>5. walHi' = cur + 1 /\ ~(walHi' < walLo')
      BY <1>0, <1>2, <2>0, <3>4 DEF WalAppendEntry, Position
    <3>6. QED
      BY <1>0, <1>a, <1>b, <2>0, <3>1, <3>3, <3>4, <3>5 DEF WalShape, WalEmpty, Position
  <2>3. Durable' \in Int /\ Durable <= Durable'
    <3>1. /\ Durable = Smaller(walCommit, cur)
          /\ Durable' = Smaller(walCommit, cur + 1)
      BY <1>2, <2>0 DEF WalAppendEntry, EntriesDone, Durable
    <3>2. QED
      BY <1>0, <2>0, <3>1 DEF Smaller, IndexesOK, Position
  <2>4. QED
    BY <1>0, <1>a, <1>c, <2>1, <2>2, <2>3, BehindStays DEF Core
<1>3. ASSUME WalRewriteTail PROVE Core'
  <2>0. /\ cur \in Nat /\ last \in Nat /\ walLo \in Nat /\ walHi \in Nat
        /\ cur < last /\ Durable <= cur /\ walHi' = last
        /\ walLo' \in {walLo, cur + 1} /\ walLo' <= walLo /\ walLo' <= cur + 1
    BY <1>0, <1>3 DEF WalRewriteTail, Smaller, Core, RaftOrder, Durable, IndexesOK,
                      Position
  <2>1. RaftOrder'
    BY <1>0, <1>3 DEF WalRewriteTail, EntriesDone, RaftOrder, Core, Up, AfterWal,
                      IndexesOK, Position, raftVars
  <2>2. WalShape'
    <3>1. Persisted = cur /\ Persisted' = last
      BY <1>3 DEF WalRewriteTail, EntriesDone, Persisted, raftVars
    <3>2. \A i \in Index : walEnt'[i] = IF i <= cur THEN walEnt[i] ELSE log[i]
      BY <1>3 DEF WalRewriteTail
    <3>3. \A i \in Index : walLo' <= i /\ i <= Persisted' => walEnt'[i] = log'[i]
      BY <1>a, <2>0, <3>1, <3>2 DEF raftVars, Core, WalShape, Index
    <3>4. /\ LatestSnapshot <= walHi' /\ walLo' <= LatestSnapshot + 1
          /\ ~(walHi' < walLo')
      BY <1>0, <2>0 DEF Core, WalShape, Position
    <3>5. QED
      BY <1>0, <1>a, <1>b, <2>0, <3>1, <3>3, <3>4 DEF WalShape, WalEmpty, Position
  <2>3. Durable' \in Int /\ Durable <= Durable'
    BY <1>0, <1>3, <2>0
       DEF WalRewriteTail, EntriesDone, Durable, Smaller, IndexesOK, Position
  <2>4. QED
    BY <1>0, <1>a, <1>c, <2>1, <2>2, <2>3, BehindStays DEF Core
<1>4. ASSUME WalGapError PROVE FALSE
  BY <1>0, <1>4 DEF WalGapError, Core, WalShape, Persisted, IndexesOK, Position
<1>5. QED
  BY <1>1, <1>2, <1>3, <1>4

\* applyCommittedEntries and updateStatus.
LEMMA ApplySteps ==
  ASSUME TypeInv, Core, ApplyEntry \/ FinishApply
  PROVE  Core'
<1>0. /\ MaxIndex \in Nat /\ IndexesOK /\ Durable \in Position
      /\ \A k \in Keys : kv[k] \in Position
  BY CoreFacts
<1>a. /\ pc = "apply" /\ pc' \in {"apply", "snapshot"}
      /\ UNCHANGED <<raftVars, hi, memFirst, memSnap, memCommit, walVars, snaps>>
  BY DEF ApplyEntry, FinishApply, memVars
<1>1. RaftOrder'
  BY <1>0 DEF ApplyEntry, FinishApply, RaftOrder, Core, Up, AfterWal, IndexesOK,
              Position, raftVars, memVars, walVars
<1>2. WalShape'
  <2>1. Persisted' = Persisted
    BY <1>a DEF Persisted, raftVars
  <2>2. LatestSnapshot' = LatestSnapshot
    BY <1>a DEF LatestSnapshot
  <2>3. QED
    BY <1>a, <2>1, <2>2 DEF WalShape, Core, WalEmpty, raftVars, walVars
<1>3. SnapshotShape'
  BY <1>a DEF SnapshotShape, Core, Up
<1>4. Durable' = Durable
  BY <1>a DEF Durable, Smaller, walVars
<1>5. hi <= Durable
  BY <1>0, <1>a DEF Durable, Smaller, Core, RaftOrder, WalShape, Persisted, Up,
                    AfterWal, IndexesOK, Position
<1>6. Behind'
  <2>1. ASSUME ApplyEntry PROVE Behind'
    <3>1. cur + 1 <= Durable
      BY <1>0, <1>5, <2>1 DEF ApplyEntry, IndexesOK, Position
    <3>2. \A k \in Keys : kv'[k] <= Durable
      BY <2>1, <3>1 DEF ApplyEntry, Applied, Core, Behind
    <3>3. QED
      BY <1>4, <2>1, <3>2 DEF ApplyEntry, Core, Behind, memVars
  <2>2. ASSUME FinishApply PROVE Behind'
    BY <1>4, <1>5, <2>2 DEF FinishApply, Core, Behind
  <2>3. QED
    BY <2>1, <2>2
<1>7. QED
  BY <1>a, <1>1, <1>2, <1>3, <1>6 DEF Core

\* maybeTriggerSnapshot and Advance.
LEMMA CompactionSteps ==
  ASSUME TypeInv, Core, TypeInv',
         \/ SkipSnapshot \/ CreateSnapshot \/ CreateSnapshotFails \/ Compact
         \/ CleanupSnapshots \/ Advance
  PROVE  Core'
<1>0. /\ MaxIndex \in Nat /\ IndexesOK /\ Durable \in Position
      /\ LatestSnapshot \in Position /\ LatestSnapshot <= Durable
      /\ Durable <= walHi /\ DOMAIN snaps \subseteq Index /\ HasNewest(snaps)
  BY CoreFacts DEF TypeInv, TypeOK
<1>a. /\ pc \in {"snapshot", "compact", "cleanup", "advance"}
      /\ pc' \in {"compact", "cleanup", "advance", "idle"}
      /\ UNCHANGED <<log, last, committed, memCommit, kv, kvApplied, statusApplied>>
      /\ walCommit' = walCommit
  BY <1>0 DEF SkipSnapshot, CreateSnapshot, CreateSnapshotFails, Compact,
         CleanupSnapshots, Advance, raftVars, memVars, diskVars, walVars, Core,
         RaftOrder, AfterWal
<1>b. Persisted = last /\ Persisted' = last
  BY <1>a DEF Persisted, SkipSnapshot, CreateSnapshot, CreateSnapshotFails, Compact,
         CleanupSnapshots, Advance
<1>1. RaftOrder'
  BY <1>0, <1>a DEF SkipSnapshot, CreateSnapshot, CreateSnapshotFails, Compact,
         CleanupSnapshots, Advance, raftVars, memVars, RaftOrder, Core, Up, AfterWal,
         IndexesOK, Position
\* Only Compact touches the entries of the WAL.
<1>2. ASSUME ~Compact PROVE UNCHANGED walVars
  BY <1>2 DEF SkipSnapshot, CreateSnapshot, CreateSnapshotFails,
              CleanupSnapshots, Advance, diskVars
\* What is durable stays so.
<1>3. Durable' = Durable
  <2>1. CASE Compact
    <3>1. kvApplied <= walHi /\ walHi \in Nat /\ walHi' \in Nat
      BY <1>0 DEF Core, Behind, IndexesOK, Position, TypeInv, TypeOK
    <3>2. CompactIndex <= kvApplied
      BY <1>0, ConstantsAssumption DEF CompactIndex, IndexesOK, Position
    <3>3. CompactIndex \in Int
      BY <1>0, ConstantsAssumption DEF CompactIndex, IndexesOK, Position
    <3>4. walHi' = walHi
      BY <2>1, <1>0, <3>1, <3>2, <3>3 DEF Compact, TruncatedWal, walVars, IndexesOK, Position
    <3>5. QED
      BY <1>a, <3>4 DEF Durable, Smaller
  <2>2. CASE ~Compact
    BY <1>2, <1>a, <2>2 DEF Durable, Smaller, walVars
  <2>3. QED
    BY <2>1, <2>2
\* The newest snapshot.
<1>4. ASSUME CreateSnapshot
      PROVE  /\ LatestSnapshot' = kvApplied /\ kvApplied \in DOMAIN snaps'
             /\ \A s \in DOMAIN snaps' : s <= kvApplied
             /\ \A s \in DOMAIN snaps' :
                  snaps'[s] = IF s = kvApplied THEN kv ELSE snaps[s]
             /\ DOMAIN snaps' \subseteq DOMAIN snaps \cup {kvApplied}
  <2> DEFINE files == [s \in DOMAIN snaps \cup {kvApplied} |->
                         IF s = kvApplied THEN kv ELSE snaps[s]]
  <2>1. /\ kvApplied \in Index /\ kvApplied > memSnap
        /\ \A s \in DOMAIN snaps : s <= memSnap
    BY <1>0, <1>4 DEF CreateSnapshot, SnapshotDue, IndexesOK, Position, Index, Core,
                      SnapshotShape, Up
  <2>2. /\ DOMAIN files \subseteq Index /\ kvApplied \in DOMAIN files
        /\ \A t \in DOMAIN files : t <= kvApplied
    BY <1>0, <2>1 DEF Index, IndexesOK, Position
  <2>3. HasNewest(files)
    BY <2>2 DEF HasNewest
  <2>4. snaps' = Cleaned(files, DefaultKeep)
    BY <1>4 DEF CreateSnapshot
  <2>5. /\ DOMAIN files = DOMAIN snaps \cup {kvApplied}
        /\ \A s \in DOMAIN files :
             files[s] = IF s = kvApplied THEN kv ELSE snaps[s]
    OBVIOUS
  <2> HIDE DEF files
  <2>6. DefaultKeep \in Nat \ {0}
    BY ConstantsAssumption
  <2>7. kvApplied \in DOMAIN Cleaned(files, DefaultKeep)
    BY <2>2, <2>3, <2>6, CleanedKeepsNewest
  <2>8. /\ DOMAIN Cleaned(files, DefaultKeep) \subseteq DOMAIN files
        /\ \A s \in DOMAIN Cleaned(files, DefaultKeep) :
             Cleaned(files, DefaultKeep)[s] = files[s]
    BY DEF Cleaned
  <2>9. LatestSnapshot' = kvApplied
    <3>1. /\ HasNewest(snaps') /\ DOMAIN snaps' \subseteq Index
      BY DEF TypeInv, TypeOK
    <3>2. /\ Newest(snaps') \in DOMAIN snaps'
          /\ kvApplied <= Newest(snaps')
      BY <1>0, <2>4, <2>7, <3>1, NewestIsNewest
    <3>3. Newest(snaps') <= kvApplied
      BY <2>2, <2>4, <2>8, <3>2
    <3>4. QED
      BY <2>1, <3>1, <3>2, <3>3 DEF LatestSnapshot, Index
  <2>10. QED
    BY <2>2, <2>4, <2>5, <2>7, <2>8, <2>9
<1>5. ASSUME CleanupSnapshots
      PROVE  /\ LatestSnapshot' = LatestSnapshot
             /\ DOMAIN snaps' \subseteq DOMAIN snaps
             /\ \A s \in DOMAIN snaps' : snaps'[s] = snaps[s]
  <2>1. /\ DOMAIN snaps' \subseteq DOMAIN snaps
        /\ \A s \in DOMAIN snaps' : snaps'[s] = snaps[s]
    BY <1>5 DEF CleanupSnapshots, Cleaned
  <2>2. /\ HasNewest(snaps') /\ DOMAIN snaps' \subseteq Index
    BY DEF TypeInv, TypeOK
  <2>3. CASE DOMAIN snaps = {}
    BY <2>1, <2>3 DEF LatestSnapshot, Newest
  <2>4. CASE DOMAIN snaps # {}
    <3>1. /\ Newest(snaps) \in DOMAIN snaps
          /\ \A s \in DOMAIN snaps : s <= Newest(snaps)
      BY <1>0, <2>4, NewestIsNewest
    <3>2. Newest(snaps) \in DOMAIN snaps'
      BY <1>0, <1>5, <3>1, CleanedKeepsNewest, ConstantsAssumption
         DEF CleanupSnapshots
    <3>3. Newest(snaps') \in DOMAIN snaps' /\ Newest(snaps) <= Newest(snaps')
      BY <1>0, <2>2, <3>2, NewestIsNewest
    <3>4. QED
      BY <1>0, <2>1, <3>1, <3>3 DEF LatestSnapshot, Index
  <2>5. QED
    BY <2>3, <2>4
<1>6. ASSUME ~CreateSnapshot, ~CleanupSnapshots PROVE UNCHANGED snaps
  BY <1>6 DEF SkipSnapshot, CreateSnapshotFails, Compact, Advance, diskVars
<1>7. SnapshotShape'
  <2>1. CASE CreateSnapshot
    BY <1>4, <1>a, <2>1 DEF CreateSnapshot, SnapshotShape
  <2>2. CASE CleanupSnapshots
    BY <1>5, <1>a, <2>2 DEF CleanupSnapshots, SnapshotShape, Core, Up, memVars
  <2>3. CASE CreateSnapshotFails
    <3>1. /\ \A s \in DOMAIN snaps : s <= memSnap
          /\ kvApplied > memSnap /\ memSnap' = kvApplied /\ snaps' = snaps
      BY <2>3 DEF CreateSnapshotFails, SnapshotDue, SnapshotShape, Core, Up, diskVars
    <3>2. \A s \in DOMAIN snaps' : s <= memSnap'
      BY <1>0, <3>1 DEF IndexesOK, Index, Position
    <3>3. QED
      BY <2>3, <3>2 DEF CreateSnapshotFails, SnapshotShape
  <2>4. CASE SkipSnapshot \/ Compact \/ Advance
    BY <1>a, <2>4 DEF SkipSnapshot, Compact, Advance, SnapshotShape, Core, Up,
                      memVars, diskVars
  <2>5. QED
    BY <2>1, <2>2, <2>3, <2>4
<1>8. WalShape'
  <2>1. CASE Compact
    <3>1. /\ CompactIndex \in Int /\ CompactIndex <= kvApplied
          /\ kvApplied <= LatestSnapshot /\ LatestSnapshot' = LatestSnapshot
      <4>1. CompactIndex \in Int /\ CompactIndex <= kvApplied
        BY <1>0, ConstantsAssumption DEF CompactIndex, IndexesOK, Position
      <4>2. kvApplied \in DOMAIN snaps
        BY <2>1 DEF Compact, Core, SnapshotShape
      <4>3. kvApplied <= LatestSnapshot
        BY <1>0, <4>2, NewestIsNewest DEF LatestSnapshot
      <4>4. LatestSnapshot' = LatestSnapshot
        BY <2>1 DEF Compact, LatestSnapshot
      <4>5. QED
        BY <4>1, <4>3, <4>4
    <3>2. kvApplied <= walHi
      BY <1>0 DEF Core, Behind, IndexesOK, Position
    <3>3. \/ UNCHANGED <<walLo, walHi, walEnt>>
          \/ /\ walLo' = CompactIndex /\ walHi' = walHi
             /\ walLo <= CompactIndex /\ CompactIndex <= walHi
             /\ \A i \in Index : i >= CompactIndex => walEnt'[i] = walEnt[i]
      <4>1. CASE UNCHANGED <<walLo, walHi, walEnt>>
        BY <4>1
      <4>2. CASE ~UNCHANGED <<walLo, walHi, walEnt>>
        <5>1. /\ ~WalEmpty /\ ~(CompactIndex <= walLo)
              /\ walEnt' = [i \in Index |-> IF i < CompactIndex THEN {} ELSE walEnt[i]]
              /\ IF CompactIndex > walHi
                 THEN walLo' = 1 /\ walHi' = 0
                 ELSE walLo' = CompactIndex /\ UNCHANGED walHi
          BY <2>1, <4>2 DEF Compact, TruncatedWal, walVars
        <5>2. \A i \in Index : i >= CompactIndex => walEnt'[i] = walEnt[i]
          BY <3>1, <5>1 DEF Index
        <5>3. QED
          BY <1>0, <3>1, <3>2, <5>1, <5>2 DEF IndexesOK, Position
      <4>3. QED
        BY <4>1, <4>2
    <3>4. walLo \in Nat /\ walHi \in Nat
      BY <1>0 DEF IndexesOK, Position
    <3>5. pc' = "cleanup" /\ last' = last /\ log' = log
      BY <1>a, <2>1 DEF Compact
    <3>6. CASE UNCHANGED <<walLo, walHi, walEnt>>
      BY <1>b, <3>1, <3>5, <3>6 DEF WalShape, WalEmpty, Core
    <3>7. CASE /\ walLo' = CompactIndex /\ walHi' = walHi
               /\ walLo <= CompactIndex /\ CompactIndex <= walHi
               /\ \A i \in Index : i >= CompactIndex => walEnt'[i] = walEnt[i]
      <4>1. \A i \in Index : walLo' <= i /\ i <= Persisted' => walEnt'[i] = log'[i]
        BY <1>b, <3>1, <3>4, <3>5, <3>7 DEF WalShape, Core, Index
      <4>2. ~WalEmpty' /\ walLo' <= LatestSnapshot' + 1
        BY <1>0, <3>1, <3>4, <3>7 DEF WalEmpty, IndexesOK, Position
      <4>3. LatestSnapshot' <= walHi' /\ Persisted' <= walHi'
        BY <1>b, <3>1, <3>7 DEF WalShape, Core
      <4>4. QED
        BY <3>5, <4>1, <4>2, <4>3 DEF WalShape
    <3>8. QED
      BY <3>3, <3>6, <3>7
  <2>2. CASE ~Compact
    <3>1. /\ LatestSnapshot' \in Position /\ LatestSnapshot' >= LatestSnapshot
          /\ LatestSnapshot' <= walHi
      <4>1. CASE CreateSnapshot
        <5>1. kvApplied <= walHi
          BY <1>0 DEF Core, Behind, IndexesOK, Position
        <5>2. LatestSnapshot <= kvApplied
          <6>1. kvApplied > memSnap /\ \A s \in DOMAIN snaps : s <= memSnap
            BY <4>1 DEF CreateSnapshot, SnapshotDue, Core, SnapshotShape, Up
          <6>2. LatestSnapshot = 0 \/ LatestSnapshot \in DOMAIN snaps
            BY <1>0, NewestIsNewest DEF LatestSnapshot
          <6>3. QED
            BY <1>0, <6>1, <6>2 DEF IndexesOK, Position, Index
        <5>3. QED
          BY <1>0, <1>4, <4>1, <5>1, <5>2 DEF IndexesOK
      <4>2. CASE ~CreateSnapshot
        <5>1. LatestSnapshot' = LatestSnapshot
          BY <1>5, <1>6, <4>2 DEF LatestSnapshot
        <5>2. QED
          BY <1>0, <5>1 DEF Core, WalShape, Position
      <4>3. QED
        BY <4>1, <4>2
    <3>2. UNCHANGED walVars
      BY <1>2, <2>2
    <3>3. \A i \in Index : walLo' <= i /\ i <= Persisted' => walEnt'[i] = log'[i]
      BY <1>a, <1>b, <3>2 DEF WalShape, Core, walVars
    <3>4. walLo' <= LatestSnapshot' + 1 /\ (WalEmpty' => walLo' = 1 /\ walHi' = 0)
      <4>1. walLo \in Int /\ walLo <= LatestSnapshot + 1
        BY <1>0 DEF WalShape, Core, IndexesOK
      <4>2. WalEmpty => walLo = 1 /\ walHi = 0
        BY DEF WalShape, Core
      <4>3. walLo' = walLo /\ walHi' = walHi /\ WalEmpty' = WalEmpty
        BY <3>2 DEF WalEmpty, walVars
      <4>4. walLo <= LatestSnapshot' + 1
        <5>1. LatestSnapshot \in Int /\ LatestSnapshot' \in Int
          BY <1>0, <3>1 DEF Position
        <5>2. LatestSnapshot <= LatestSnapshot'
          BY <3>1, <5>1
        <5>3. \A m, n \in Int : walLo <= m + 1 /\ m <= n => walLo <= n + 1
          BY <4>1
        <5>4. QED
          BY <4>1, <5>1, <5>2, <5>3
      <4>5. QED
        BY <4>2, <4>3, <4>4
    <3>5. QED
      BY <1>a, <1>b, <3>1, <3>2, <3>3, <3>4 DEF WalShape, Core, walVars
  <2>3. QED
    BY <2>1, <2>2
<1>9. Behind'
  <2>1. CASE UNCHANGED snaps
    BY <1>0, <1>3, <1>a, <2>1, BehindStays DEF Position
  <2>2. CASE CreateSnapshot
    <3>2. \A s \in DOMAIN snaps' :
            s <= Durable /\ \A k \in Keys : snaps'[s][k] <= Durable
      BY <1>4, <2>2 DEF Core, Behind
    <3>3. QED
      BY <1>a, <1>3, <3>2 DEF Core, Behind
  <2>3. CASE CleanupSnapshots
    <3>2. \A s \in DOMAIN snaps' :
            s <= Durable /\ \A k \in Keys : snaps'[s][k] <= Durable
      BY <1>5, <2>3 DEF Core, Behind
    <3>3. QED
      BY <1>a, <1>3, <3>2 DEF Core, Behind
  <2>4. QED
    BY <1>6, <2>1, <2>2, <2>3
<1>10. QED
  BY <1>a, <1>1, <1>7, <1>8, <1>9 DEF Core

\* A crash anywhere but inside FileWAL.Append, and the restart.
LEMMA CrashSteps ==
  ASSUME TypeInv, Core, TypeInv',
         Crash \/ BootRestore \/ BootReplay \/ BootFinish
  PROVE  Core'
<1>0. /\ MaxIndex \in Nat /\ IndexesOK /\ Durable \in Position
      /\ LatestSnapshot \in Position /\ LatestSnapshot <= Durable
      /\ Durable <= Persisted /\ Durable <= walHi
      /\ DOMAIN snaps \subseteq Index /\ HasNewest(snaps)
      /\ RecoveredLast = walHi
  BY CoreFacts DEF TypeInv, TypeOK
<1>a. /\ LatestSnapshot = 0 \/ LatestSnapshot \in DOMAIN snaps
      /\ \A s \in DOMAIN snaps : s <= LatestSnapshot
  BY <1>0, NewestIsNewest DEF LatestSnapshot
<1>b. LatestSnapshot' = LatestSnapshot /\ UNCHANGED <<walVars, snaps>>
  BY DEF Crash, LoseMemory, BootRestore, BootReplay, BootFinish, diskVars,
         LatestSnapshot
<1>1. ASSUME Crash PROVE Core'
  <2>1. pc' = "down" /\ UNCHANGED <<log, diskVars>> /\ statusApplied' = 0
    BY <1>1 DEF Crash, LoseMemory
  <2>2. RaftOrder' /\ SnapshotShape'
    BY <2>1 DEF RaftOrder, SnapshotShape, Up, AfterWal
  <2>3. walCommit <= Persisted
    BY <1>0, <1>1 DEF Crash, CommitAheadOfEntries, Core, RaftOrder, WalShape,
                      Persisted, Up, AfterWal, Smaller, TypeInv, TypeOK, Steps,
                      IndexesOK, Position
  <2>4. /\ Persisted \in Int /\ Persisted <= walHi
        /\ walCommit \in Int /\ walHi \in Int
    BY <1>0 DEF Persisted, Smaller, Core, WalShape, IndexesOK, Position
  <2>5. Persisted' = walCommit
    BY <2>1, <2>3, <2>4 DEF Persisted, Smaller, diskVars, walVars
  <2>6. WalShape'
    <3>1. \A i \in Index : walLo' <= i /\ i <= Persisted' => walEnt'[i] = log'[i]
      BY <2>1, <2>3, <2>4, <2>5 DEF WalShape, Core, diskVars, walVars, Index
    <3>2. QED
      BY <1>b, <2>1, <2>3, <2>4, <2>5, <3>1
         DEF WalShape, Core, WalEmpty, diskVars, walVars
  <2>7. Durable' \in Int /\ Durable <= Durable'
    <3>1. Durable' = walCommit
      BY <1>b, <2>1, <2>3, <2>4 DEF Durable, Smaller, walVars
    <3>2. QED
      BY <1>0, <2>4, <3>1 DEF Durable, Smaller, IndexesOK, Position
  <2>8. Behind'
    BY <2>1, <2>7, BehindStays DEF diskVars
  <2>9. QED
    BY <2>1, <2>2, <2>6, <2>8 DEF Core
<1>2. ASSUME BootRestore PROVE Core'
  <2>1. /\ pc = "down" /\ pc' = "replay" /\ cur' = LatestSnapshot
        /\ memSnap' = LatestSnapshot /\ memCommit' = walCommit
        /\ UNCHANGED <<raftVars, statusApplied, walVars, snaps>>
    BY <1>2 DEF BootRestore, WalReachesSnapshot, Core, WalShape
  <2>2. RaftOrder'
    BY <2>1 DEF RaftOrder, Up, AfterWal, walVars
  <2>3. SnapshotShape'
    BY <1>0, <1>a, <1>b, <2>1 DEF SnapshotShape, Position
  <2>4. WalShape'
    <3>1. Persisted' = Persisted
      BY <2>1 DEF Persisted, Smaller, walVars
    <3>2. QED
      BY <1>b, <2>1, <3>1 DEF WalShape, Core, WalEmpty, walVars, raftVars
  <2>5. Durable' = Durable
    BY <2>1 DEF Durable, Smaller, walVars
  <2>6. Behind'
    <3>1. \A k \in Keys : kv'[k] <= Durable
      BY <1>2, <1>a DEF BootRestore, Core, Behind
    <3>2. kvApplied' <= Durable
      BY <1>2, <1>0 DEF BootRestore, Core, Behind
    <3>3. QED
      BY <2>1, <2>5, <3>1, <3>2 DEF Core, Behind
  <2>7. QED
    BY <2>1, <2>2, <2>3, <2>4, <2>6 DEF Core
<1>3. ASSUME BootReplay PROVE Core'
  <2>1. /\ pc = "replay" /\ pc' = "replay" /\ cur' = cur + 1
        /\ kvApplied' = cur + 1
        /\ UNCHANGED <<raftVars, memVars, walVars, snaps>>
    BY <1>3 DEF BootReplay
  <2>2. cur + 1 <= Durable
    BY <1>0, <1>3 DEF BootReplay, ReplayLast, Durable, Smaller, IndexesOK, Position
  <2>3. RaftOrder'
    BY <2>1 DEF RaftOrder, Core, Up, AfterWal, walVars, memVars
  <2>4. SnapshotShape'
    BY <1>0, <1>b, <2>1 DEF SnapshotShape, Core, memVars, IndexesOK, Position
  <2>5. WalShape'
    <3>1. Persisted' = Persisted
      BY <2>1 DEF Persisted, Smaller, walVars
    <3>2. QED
      BY <1>b, <2>1, <3>1 DEF WalShape, Core, WalEmpty, walVars, raftVars
  <2>6. Durable' = Durable
    BY <2>1 DEF Durable, Smaller, walVars
  <2>7. Behind'
    <3>1. \A k \in Keys : kv'[k] <= Durable
      BY <1>3, <2>2 DEF BootReplay, Applied, Core, Behind
    <3>2. QED
      BY <2>1, <2>2, <2>6, <3>1 DEF Core, Behind, memVars
  <2>8. QED
    BY <2>1, <2>3, <2>4, <2>5, <2>7 DEF Core
<1>4. ASSUME BootFinish PROVE Core'
  <2>1. /\ walCommit \in Int /\ walHi \in Int /\ walCommit <= walHi
        /\ Durable = walCommit
    BY <1>0, <1>4 DEF BootFinish, Core, WalShape, Durable, Smaller, IndexesOK, Position
  <2>2. walCommit \in LatestSnapshot .. RecoveredLast
    BY <1>0, <2>1 DEF Position
  <2>3. /\ pc = "replay" /\ pc' = "idle"
        /\ last' = walHi /\ stable' = walHi /\ committed' = walCommit
        /\ applying' = LatestSnapshot /\ statusApplied' = walCommit
        /\ UNCHANGED <<memFirst, memSnap, memCommit, kv, kvApplied>>
        /\ log' = [i \in Index |->
                     IF i > walHi THEN {}
                     ELSE IF ~WalEmpty /\ i >= walLo /\ i > LatestSnapshot
                          THEN walEnt[i] ELSE log[i]]
    BY <1>0, <1>4, <2>2 DEF BootFinish, diskVars
  <2>4. RaftOrder'
    BY <1>0, <1>b, <2>1, <2>3
       DEF RaftOrder, Core, Up, AfterWal, walVars, IndexesOK, Position
  <2>5. SnapshotShape'
    BY <1>b, <2>3 DEF SnapshotShape, Core
  <2>6. WalShape'
    <3>1. Persisted = walCommit /\ Persisted' = walHi
      BY <2>1, <2>3 DEF Persisted, Smaller
    <3>2. \A i \in Index : walLo <= i /\ i <= walHi => walEnt[i] = log'[i]
      <4>1. ASSUME NEW i \in Index, walLo <= i, i <= walHi, i <= LatestSnapshot
            PROVE  walEnt[i] = log'[i]
        <5>1. log'[i] = log[i]
          BY <1>0, <2>1, <2>3, <4>1 DEF Index, Position
        <5>2. i <= Persisted
          BY <1>0, <2>1, <3>1, <4>1 DEF Index, Position
        <5>3. QED
          BY <4>1, <5>1, <5>2 DEF Core, WalShape
      <4>2. ASSUME NEW i \in Index, walLo <= i, i <= walHi, ~(i <= LatestSnapshot)
            PROVE  walEnt[i] = log'[i]
        BY <1>0, <2>1, <2>3, <4>2 DEF Index, Position, WalEmpty, IndexesOK
      <4>3. QED
        BY <4>1, <4>2
    <3>3. QED
      BY <1>b, <2>1, <2>3, <3>1, <3>2 DEF WalShape, Core, WalEmpty, walVars
  <2>7. Durable' = walCommit
    BY <1>b, <2>1, <2>3 DEF Durable, Smaller, walVars
  <2>8. Behind'
    BY <1>b, <2>1, <2>3, <2>7 DEF Core, Behind
  <2>9. QED
    BY <2>3, <2>4, <2>5, <2>6, <2>8 DEF Core
<1>5. QED
  BY <1>1, <1>2, <1>3, <1>4

-----------------------------------------------------------------------------

LEMMA InitIInv == Init => IInv
<1> SUFFICES ASSUME Init PROVE IInv
  OBVIOUS
<1>1. TypeInv
  BY ConstantsAssumption
     DEF Init, TypeInv, TypeOK, HasNewest, Index, Position, Steps, Images
<1>2. LatestSnapshot = 0
  BY DEF Init, LatestSnapshot, Newest
<1>3. Persisted = 0 /\ Durable = 0
  BY DEF Init, Persisted, Durable, Smaller
<1>4. WalShape
  BY <1>2, <1>3 DEF Init, WalShape, WalEmpty, Index
<1>5. Core
  BY <1>2, <1>3, <1>4
     DEF Init, Core, RaftOrder, SnapshotShape, Behind, Up, AfterWal
<1>6. QED
  BY <1>1, <1>5 DEF IInv

LEMMA NextIInv == IInv /\ [Next]_vars => IInv'
<1> SUFFICES ASSUME IInv, [Next]_vars PROVE IInv'
  OBVIOUS
<1>1. TypeInv /\ TypeInv'
  BY StepTypeOK, StepHasNewest DEF IInv, TypeInv
<1>2. SUFFICES ASSUME Trusted' PROVE Core'
  BY <1>1 DEF IInv
\* An ignored WAL error or a crash inside FileWAL.Append is not forgotten.
<1>3. walFaults \in Nat /\ tornCrashes \in Nat
  BY <1>1, ConstantsAssumption DEF TypeInv, TypeOK
<1>4. ~WalFails /\ ~TornCrash
  BY <1>2, <1>3 DEF WalFails, TornCrash, Trusted
<1>5. UNCHANGED <<walFaults, tornCrashes>>
  BY <1>4 DEF Next, LoopStep, RaftAppend, RaftCommit, RaftReady, PersistState,
         WalAppendEntry, WalRewriteTail, WalGapError, ApplyEntry, FinishApply,
         SkipSnapshot, CreateSnapshot, CreateSnapshotFails, Compact,
         CleanupSnapshots, Advance, Crash, LoseMemory, BootRestore, BootReplay,
         BootFinish, vars, boundVars
<1>6. Core
  BY <1>2, <1>5 DEF Trusted, IInv
<1>7. CASE UNCHANGED vars
  <2>1. /\ UNCHANGED <<raftVars, loopVars, memVars, diskVars>>
        /\ LatestSnapshot' = LatestSnapshot
    BY <1>7 DEF vars, LatestSnapshot, diskVars
  <2>2. Durable' = Durable /\ Persisted' = Persisted
    BY <2>1 DEF Durable, Persisted, Smaller, raftVars, loopVars, diskVars, walVars
  <2>3. Behind'
    BY <1>6, <2>1, <2>2 DEF Core, Behind, memVars, diskVars
  <2>4. WalShape'
    BY <1>6, <2>1, <2>2
       DEF Core, WalShape, WalEmpty, raftVars, loopVars, diskVars, walVars
  <2>5. QED
    BY <1>6, <2>1, <2>3, <2>4
       DEF Core, RaftOrder, SnapshotShape, Up, AfterWal, raftVars, loopVars,
           memVars, diskVars, walVars
<1>8. QED
  BY <1>1, <1>4, <1>6, <1>7, RaftSteps, WalSteps, ApplySteps, CompactionSteps,
     CrashSteps DEF Next, LoopStep

LEMMA SpecIInv == Spec => []IInv
BY InitIInv, NextIInv, PTL DEF Spec

\* Whatever the log, the snapshot interval, the retained entries and the number
\* of crashes: nothing in Pebble, in a snapshot file or in Status().AppliedIndex
\* is ahead of what a restart would replay, as handleReady's order (persist, then
\* apply, then export) is meant to ensure.
THEOREM AppliedIsDurableAlways == Spec => []AppliedIsDurable
<1>1. IInv => AppliedIsDurable
  BY CoreFacts DEF IInv, AppliedIsDurable, Core, Behind
<1>2. QED
  BY <1>1, SpecIInv, PTL

\* Compaction (CreateSnapshot, Compact, CleanupSnapshots) never opens a hole
\* between the newest snapshot file and the WAL, and the WAL agrees with raft's
\* log there.
THEOREM RecoveryHasNoHoleAlways == Spec => []RecoveryHasNoHole
<1>1. IInv => RecoveryHasNoHole
  <2> SUFFICES ASSUME TypeInv, Core, NEW i \in Index,
                      LatestSnapshot < i, i <= DurableIndex
               PROVE  walLo <= i /\ i <= walHi /\ walEnt[i] = log[i]
    BY DEF IInv, RecoveryHasNoHole
  <2>1. /\ IndexesOK /\ LatestSnapshot \in Position /\ Durable \in Position
        /\ i <= Durable /\ Durable <= Persisted /\ Durable <= walHi
    BY CoreFacts
  <2>2. Persisted \in Int
    BY <2>1 DEF Persisted, Smaller, IndexesOK, Position
  <2>3. walLo <= i /\ i <= walHi /\ i <= Persisted
    BY <2>1, <2>2 DEF Core, WalShape, IndexesOK, Index, Position
  <2>4. QED
    BY <2>3 DEF Core, WalShape
<1>2. QED
  BY <1>1, SpecIInv, PTL

\* A restart never meets a WAL or a HardState that etcd raft refuses.
THEOREM RestartNeverPanicsAlways == Spec => []RestartNeverPanics
<1>1. IInv => RestartNeverPanics
  BY DEF IInv, Core, RestartNeverPanics
<1>2. QED
  BY <1>1, SpecIInv, PTL

-----------------------------------------------------------------------------
\* What the data say: the inductive invariant for Pebble and the snapshot files.

\* Reflects, with the log it is about as an argument.
Shows(image, n, entries) ==
  \A k \in Keys :
    /\ image[k] # 0 => k \in entries[image[k]]
    /\ \A i \in Index : image[k] < i /\ i <= n => k \notin entries[i]

Exporting == pc \in {"snapshot", "compact", "cleanup", "advance"}

\* The last entry of the batches that are applied.
Handed == IF Exporting THEN hi ELSE applying

\* Only a crash stops the process.
Fallen == Up \/ crashes > 0 \/ tornCrashes > 0

\* Batches are handed out in order, up to the commit index, and reported as they
\* are; the first one after a restart may be reported already.
ApplyOrder ==
  /\ Up => /\ applying <= committed /\ committed <= last
           /\ applying <= kvApplied /\ kvApplied <= committed
           /\ statusApplied = kvApplied
  /\ Up /\ pc # "idle" => /\ applying <= hi /\ hi <= committed
                          /\ applying < committed => applying < hi
  /\ pc = "apply" => applying <= cur /\ cur <= hi
  /\ Exporting => kvApplied = hi
  /\ pc = "replay" => cur <= kvApplied

\* Up to where Pebble has every write.
Reached == IF pc \in {"apply", "replay"} THEN cur ELSE kvApplied

\* Every snapshot file shows its index.  Pebble shows what it has reached, and
\* after a crash, when it may be anywhere, at least only what the log says.
Faithful ==
  /\ \A s \in DOMAIN snaps : Shows(snaps[s], s, log)
  /\ Shows(kv, 0, log)
  /\ Up \/ pc = "replay" => Shows(kv, Reached, log)

\* What raft may still overwrite has not been applied.
Uncommitted ==
  Up => /\ \A k \in Keys : kv[k] <= committed
        /\ \A s \in DOMAIN snaps : /\ s <= committed
                                   /\ \A k \in Keys : snaps[s][k] <= committed

\* MemoryStorage is compacted up to its snapshot and up to what is applied.
Retained ==
  /\ Up => memFirst <= memSnap + 1 /\ memFirst <= Handed + 1
  /\ pc = "compact" => /\ memSnap = kvApplied
                       /\ memFirst + SnapshotEntries <= kvApplied + 1
  /\ pc = "replay" => memFirst = LatestSnapshot + 1 /\ memSnap = LatestSnapshot

DataCore == ApplyOrder /\ Faithful /\ Uncommitted /\ Retained

\* Ignored WAL errors do no harm before a crash, so that this part needs Core
\* only where the process restarts.
DataInv == Fallen /\ (Unharmed => DataCore)

LEMMA ShowsLess ==
  ASSUME NEW image, NEW n \in Int, NEW m \in Int, m <= n, NEW entries,
         Shows(image, n, entries)
  PROVE  Shows(image, m, entries)
BY DEF Shows, Index

\* One more entry of the log, applied in order, is one more entry shown.
LEMMA ShowsApplied ==
  ASSUME NEW image \in Images, NEW n \in Int, n + 1 \in Index, NEW entries,
         NEW ents, ents[n + 1] = entries[n + 1], Shows(image, n, entries)
  PROVE  Shows(Applied(image, ents, n + 1), n + 1, entries)
<1> DEFINE new == Applied(image, ents, n + 1)
<1> SUFFICES ASSUME NEW k \in Keys
             PROVE  /\ new[k] # 0 => k \in entries[new[k]]
                    /\ \A i \in Index : new[k] < i /\ i <= n + 1 => k \notin entries[i]
  BY DEF Shows
<1>1. CASE k \in entries[n + 1]
  <2>1. new[k] = n + 1
    BY <1>1 DEF Applied
  <2> HIDE DEF new
  <2>2. QED
    BY <1>1, <2>1 DEF Index
<1>2. CASE k \notin entries[n + 1]
  <2>1. new[k] = image[k]
    BY <1>2 DEF Applied
  <2>2. /\ image[k] # 0 => k \in entries[image[k]]
        /\ \A i \in Index : image[k] < i /\ i <= n => k \notin entries[i]
    BY DEF Shows
  <2> HIDE DEF new
  <2>3. \A i \in Index : i <= n + 1 => i <= n \/ i = n + 1
    BY DEF Index
  <2>4. QED
    BY <1>2, <2>1, <2>2, <2>3
<1>3. QED
  BY <1>1, <1>2

\* A log that agrees up to all that the image is about shows the same image.
LEMMA ShowsKept ==
  ASSUME NEW image \in Images, NEW n \in Int, NEW b \in Int, n <= b,
         \A k \in Keys : image[k] <= b,
         NEW old, NEW new, \A i \in Index : i <= b => new[i] = old[i],
         Shows(image, n, old), MaxIndex \in Nat
  PROVE  Shows(image, n, new)
<1> SUFFICES ASSUME NEW k \in Keys
             PROVE  /\ image[k] # 0 => k \in new[image[k]]
                    /\ \A i \in Index : image[k] < i /\ i <= n => k \notin new[i]
  BY DEF Shows
<1>1. /\ image[k] # 0 => k \in old[image[k]]
      /\ \A i \in Index : image[k] < i /\ i <= n => k \notin old[i]
  BY DEF Shows
<1>2. image[k] # 0 => image[k] \in Index
  BY DEF Images, Position, Index
<1>3. \A i \in Index : i <= n => i <= b
  BY DEF Index
<1>4. QED
  BY <1>1, <1>2, <1>3

-----------------------------------------------------------------------------
\* The induction for the data, again by groups of steps.

\* What the steps on the data start from.
LEMMA DataFacts ==
  ASSUME TypeInv
  PROVE  /\ MaxIndex \in Nat /\ IndexesOK /\ Index \subseteq Position
         /\ DOMAIN snaps \subseteq Index
         /\ kv \in Images /\ \A s \in DOMAIN snaps : snaps[s] \in Images
         /\ \A k \in Keys : kv[k] \in Position
         /\ Reached \in Position /\ 0 \in Position
<1>1. IndexesOK
  BY DEF TypeInv, TypeOK, IndexesOK
<1>2. MaxIndex \in Nat /\ Index \subseteq Position /\ 0 \in Position
  BY ConstantsAssumption DEF Index, Position
<1>3. /\ DOMAIN snaps \subseteq Index /\ kv \in Images
      /\ \A s \in DOMAIN snaps : snaps[s] \in Images
  BY DEF TypeInv, TypeOK
<1>4. \A k \in Keys : kv[k] \in Position
  BY <1>3 DEF Images
<1>5. Reached \in Position
  BY <1>1 DEF Reached, IndexesOK
<1>6. QED
  BY <1>1, <1>2, <1>3, <1>4, <1>5

\* A step that leaves the images alone, and the log up to the commit index.
LEMMA FaithfulStays ==
  ASSUME TypeInv, TypeInv', ApplyOrder, Faithful, Uncommitted, Up, Up',
         UNCHANGED <<kv, snaps>>, committed <= committed',
         \A i \in Index : i <= committed => log'[i] = log[i],
         Reached' <= Reached
  PROVE  Faithful' /\ Uncommitted'
<1>0. /\ MaxIndex \in Nat /\ committed \in Int /\ committed' \in Int
      /\ DOMAIN snaps \subseteq Index /\ Index \subseteq Int
      /\ kv \in Images /\ \A s \in DOMAIN snaps : snaps[s] \in Images
      /\ Reached \in Int /\ Reached' \in Int
      /\ \A k \in Keys : kv[k] \in Int
      /\ \A s \in DOMAIN snaps, k \in Keys : snaps[s][k] \in Int
  <2>1. /\ MaxIndex \in Nat /\ IndexesOK /\ DOMAIN snaps \subseteq Index
        /\ kv \in Images /\ \A s \in DOMAIN snaps : snaps[s] \in Images
        /\ Reached \in Position
    BY DataFacts
  <2>2. IndexesOK' /\ Reached' \in Position
    BY DEF TypeInv, TypeOK, IndexesOK, Reached
  <2>3. QED
    BY <2>1, <2>2 DEF IndexesOK, Position, Index, Images
<1>1. Reached <= committed
  BY <1>0 DEF Reached, ApplyOrder, Up, TypeInv, TypeOK, Position
<1>2. /\ \A k \in Keys : kv[k] <= committed
      /\ \A s \in DOMAIN snaps : /\ s <= committed
                                 /\ \A k \in Keys : snaps[s][k] <= committed
  BY DEF Uncommitted
<1>3. Uncommitted'
  <2>1. \A k \in Keys : kv'[k] <= committed'
    BY <1>0, <1>2
  <2>2. ASSUME NEW s \in DOMAIN snaps
        PROVE  s <= committed' /\ \A k \in Keys : snaps[s][k] <= committed'
    <3>1. s \in Int /\ s <= committed
      BY <1>0, <1>2, <2>2
    <3>2. ASSUME NEW k \in Keys PROVE snaps[s][k] <= committed'
      <4>1. snaps[s][k] \in Int /\ snaps[s][k] <= committed
        BY <1>0, <1>2, <2>2
      <4>2. QED
        BY <1>0, <4>1
    <3>3. QED
      BY <1>0, <3>1, <3>2
  <2>3. QED
    BY <2>1, <2>2 DEF Uncommitted
<1>4. \A s \in DOMAIN snaps : Shows(snaps[s], s, log')
  <2>1. SUFFICES ASSUME NEW s \in DOMAIN snaps PROVE Shows(snaps[s], s, log')
    OBVIOUS
  <2>2. Shows(snaps[s], s, log)
    BY DEF Faithful
  <2>3. QED
    BY <1>0, <1>2, <2>2, ShowsKept
<1>5. Shows(kv, Reached', log')
  <2>1. Shows(kv, Reached, log)
    BY DEF Faithful
  <2>2. Shows(kv, Reached', log)
    BY <1>0, <2>1, ShowsLess
  <2>3. Reached' <= committed
    BY <1>0, <1>1
  <2> HIDE DEF Reached
  <2>4. QED
    BY <1>0, <1>2, <2>2, <2>3, ShowsKept
<1>6. Shows(kv, 0, log')
  <2>1. Shows(kv, 0, log)
    BY DEF Faithful
  <2>2. 0 <= committed
    BY DEF TypeInv, TypeOK, Position
  <2>3. QED
    BY <1>0, <1>2, <2>1, <2>2, ShowsKept
<1>7. QED
  BY <1>3, <1>4, <1>5, <1>6 DEF Faithful

\* The steps of etcd raft.
LEMMA DataRaftSteps ==
  ASSUME TypeInv, TypeInv', DataCore,
         \/ \E i \in Index, entry \in Commands : RaftAppend(i, entry)
         \/ \E i \in Index : RaftCommit(i)
         \/ \E i \in Position : RaftReady(i)
  PROVE  DataCore'
<1>0. MaxIndex \in Nat /\ IndexesOK /\ pc = "idle"
  BY DataFacts DEF RaftAppend, RaftCommit, RaftReady
<1>1. /\ UNCHANGED <<diskVars, memVars, applying>>
      /\ pc' = "idle" \/ pc' = "state"
  BY <1>0 DEF RaftAppend, RaftCommit, RaftReady, loopVars, raftVars
<1>2. /\ ApplyOrder'
      /\ committed <= committed'
      /\ \A i \in Index : i <= committed => log'[i] = log[i]
  <2>1. ASSUME NEW i \in Index, NEW entry \in Commands, RaftAppend(i, entry)
        PROVE  /\ ApplyOrder' /\ committed <= committed'
               /\ \A j \in Index : j <= committed => log'[j] = log[j]
    <3>1. /\ i >= committed + 1 /\ last' = i
          /\ UNCHANGED <<committed, applying, loopVars, memVars, diskVars>>
          /\ \A j \in Index : j < i => log'[j] = log[j]
      BY <2>1 DEF RaftAppend
    <3>2. \A j \in Index : j <= committed => log'[j] = log[j]
      BY <1>0, <3>1 DEF IndexesOK, Index, Position
    <3>3. ApplyOrder'
      BY <1>0, <3>1 DEF ApplyOrder, DataCore, Up, Exporting, IndexesOK, Position, Index,
                        loopVars, memVars, diskVars
    <3>4. QED
      BY <1>0, <3>1, <3>2, <3>3 DEF IndexesOK, Position
  <2>2. ASSUME NEW i \in Index, RaftCommit(i)
        PROVE  /\ ApplyOrder' /\ committed <= committed'
               /\ log' = log
    BY <1>0, <2>2 DEF RaftCommit, ApplyOrder, DataCore, Up, Exporting, IndexesOK, Position,
                      Index, loopVars, memVars, diskVars
  <2>3. ASSUME NEW i \in Position, RaftReady(i)
        PROVE  /\ ApplyOrder' /\ committed <= committed'
               /\ log' = log
    BY <1>0, <2>3 DEF RaftReady, ApplyOrder, DataCore, Up, Exporting, IndexesOK, Position,
                      raftVars, memVars, diskVars
  <2>4. QED
    BY <2>1, <2>2, <2>3
<1>3. Reached' <= Reached
  BY <1>0, <1>1 DEF Reached, diskVars, IndexesOK, Position
<1>4. Faithful' /\ Uncommitted'
  <2>1. Up /\ Up' /\ UNCHANGED <<kv, snaps>>
    BY <1>0, <1>1 DEF Up, diskVars
  <2>2. QED
    BY <1>2, <1>3, <2>1, FaithfulStays DEF DataCore
<1>5. Retained'
  BY <1>0, <1>1 DEF Retained, DataCore, Up, Handed, Exporting, memVars
<1>6. QED
  BY <1>2, <1>4, <1>5 DEF DataCore

\* FileWAL.Append, whether it succeeds or its error is ignored.
LEMMA DataWalSteps ==
  ASSUME TypeInv, TypeInv', DataCore,
         \/ PersistState \/ WalAppendEntry \/ WalRewriteTail \/ WalGapError
         \/ WalFails
  PROVE  DataCore'
<1>0. MaxIndex \in Nat /\ IndexesOK
  BY DataFacts
<1>1. /\ UNCHANGED <<raftVars, hi, memFirst, memSnap, statusApplied, kv, kvApplied,
                     snaps>>
      /\ pc \in {"state", "entries"} /\ pc' \in {"entries", "apply"}
      /\ pc' = "apply" => cur' = applying
  BY DEF PersistState, WalAppendEntry, WalRewriteTail, WalGapError, WalFails,
         EntriesDone, diskVars, walVars
<1>2. ApplyOrder'
  BY <1>0, <1>1 DEF ApplyOrder, DataCore, Up, Exporting, raftVars, IndexesOK, Position
<1>3. Faithful' /\ Uncommitted'
  <2>1. /\ Up /\ Up' /\ committed <= committed'
        /\ \A i \in Index : i <= committed => log'[i] = log[i]
    BY <1>0, <1>1 DEF Up, raftVars, IndexesOK, Position
  <2>2. Reached' <= Reached
    BY <1>0, <1>1, <2>1 DEF Reached, DataCore, ApplyOrder, raftVars, IndexesOK, Position
  <2>3. QED
    BY <1>1, <2>1, <2>2, FaithfulStays DEF DataCore
<1>4. Retained'
  BY <1>1 DEF Retained, DataCore, Up, Handed, Exporting, raftVars
<1>5. QED
  BY <1>2, <1>3, <1>4 DEF DataCore

\* applyCommittedEntries and updateStatus.
LEMMA DataApplySteps ==
  ASSUME TypeInv, TypeInv', DataCore, ApplyEntry \/ FinishApply
  PROVE  DataCore'
<1>0. MaxIndex \in Nat /\ IndexesOK /\ kv \in Images
  BY DataFacts
<1>1. /\ pc = "apply" /\ pc' \in {"apply", "snapshot"}
      /\ UNCHANGED <<raftVars, hi, memFirst, memSnap, snaps>>
  BY DEF ApplyEntry, FinishApply, memVars
<1>2. ApplyOrder'
  BY <1>0, <1>1 DEF ApplyEntry, FinishApply, ApplyOrder, DataCore, Up, Exporting,
                    raftVars, memVars, IndexesOK, Position
<1>3. Retained'
  BY <1>0, <1>1 DEF Retained, DataCore, ApplyOrder, Up, Handed, Exporting, raftVars,
                    IndexesOK, Position
<1>4. ASSUME ApplyEntry PROVE Faithful' /\ Uncommitted'
  <2>1. /\ pc' = "apply" /\ cur' = cur + 1 /\ cur + 1 <= committed
        /\ kv' = Applied(kv, log, cur + 1) /\ cur \in Int /\ cur + 1 \in Index
    BY <1>0, <1>4 DEF ApplyEntry, DataCore, ApplyOrder, Up, IndexesOK, Position, Index
  <2>2. Shows(kv, cur, log)
    BY <1>1 DEF DataCore, Faithful, Up, Reached
  <2>3. Shows(kv', cur + 1, log)
    BY <1>0, <2>1, <2>2, ShowsApplied
  <2>4. Shows(kv', 0, log)
    BY <1>0, <2>1, <2>3, ShowsLess DEF IndexesOK, Position
  <2>5. Reached' = cur + 1 /\ log' = log
    BY <1>1, <2>1 DEF Reached, raftVars
  <2>6. Faithful'
    BY <1>1, <2>3, <2>4, <2>5 DEF Faithful, DataCore
  <2>7. \A k \in Keys : kv'[k] <= committed
    BY <1>1, <2>1 DEF Applied, DataCore, Uncommitted, Up
  <2>8. QED
    BY <1>1, <2>6, <2>7 DEF Uncommitted, DataCore, Up, raftVars
<1>5. ASSUME FinishApply PROVE Faithful' /\ Uncommitted'
  <2>1. /\ Up /\ Up' /\ committed <= committed' /\ UNCHANGED <<kv, snaps>>
        /\ \A i \in Index : i <= committed => log'[i] = log[i]
    BY <1>0, <1>1, <1>5 DEF FinishApply, Up, raftVars, IndexesOK, Position
  <2>2. Reached' <= Reached
    BY <1>0, <1>5, <2>1 DEF FinishApply, Reached, DataCore, ApplyOrder, IndexesOK, Position
  <2>3. QED
    BY <2>1, <2>2, FaithfulStays DEF DataCore
<1>6. QED
  BY <1>2, <1>3, <1>4, <1>5 DEF DataCore

\* maybeTriggerSnapshot and Advance.
LEMMA DataCompactionSteps ==
  ASSUME TypeInv, TypeInv', DataCore,
         \/ SkipSnapshot \/ CreateSnapshot \/ CreateSnapshotFails \/ Compact
         \/ CleanupSnapshots \/ Advance
  PROVE  DataCore'
<1>0. /\ MaxIndex \in Nat /\ IndexesOK /\ DOMAIN snaps \subseteq Index
      /\ SnapshotEntries \in Nat \ {0} /\ CompactRetain \in Nat
  BY DataFacts, ConstantsAssumption
<1>1. /\ Exporting /\ pc' \in {"compact", "cleanup", "advance", "idle"}
      /\ UNCHANGED <<log, last, committed, kv, kvApplied, statusApplied>>
      /\ pc' # "idle" => UNCHANGED <<applying, hi>>
      /\ pc' = "idle" => applying' = hi
  BY DEF SkipSnapshot, CreateSnapshot, CreateSnapshotFails, Compact,
         CleanupSnapshots, Advance, Exporting, raftVars, memVars, diskVars
<1>2. ApplyOrder'
  BY <1>0, <1>1 DEF ApplyOrder, DataCore, Up, Exporting, IndexesOK, Position
<1>3. Retained'
  <2>1. Up /\ Handed = kvApplied /\ Handed' = kvApplied /\ pc' # "replay"
    BY <1>1 DEF Up, Handed, Exporting, DataCore, ApplyOrder
  <2>2. memFirst <= memSnap + 1 /\ memFirst <= kvApplied + 1
    BY <2>1 DEF DataCore, Retained
  <2>3. CASE CreateSnapshot \/ CreateSnapshotFails
    <3>1. /\ memSnap' = kvApplied /\ memFirst' = memFirst
          /\ kvApplied - memSnap >= SnapshotEntries
      BY <2>3 DEF CreateSnapshot, CreateSnapshotFails, SnapshotDue
    <3>2. QED
      BY <1>0, <1>1, <2>1, <2>2, <3>1 DEF Retained, IndexesOK, Position
  <2>4. CASE Compact
    <3>1. /\ memSnap' = memSnap /\ memSnap = kvApplied /\ pc' = "cleanup"
          /\ memFirst' \in {memFirst, CompactIndex + 1}
      BY <2>4 DEF Compact, DataCore, Retained
    <3>2. CompactIndex <= kvApplied /\ CompactIndex \in Int
      BY <1>0 DEF CompactIndex, IndexesOK, Position
    <3>3. QED
      BY <1>0, <1>1, <2>1, <2>2, <3>1, <3>2 DEF Retained, IndexesOK, Position
  <2>5. CASE SkipSnapshot \/ CleanupSnapshots \/ Advance
    <3>1. UNCHANGED <<memFirst, memSnap>> /\ pc' # "compact"
      BY <2>5 DEF SkipSnapshot, CleanupSnapshots, Advance, memVars
    <3>2. QED
      BY <1>1, <2>1, <2>2, <3>1 DEF Retained
  <2>6. QED
    BY <2>3, <2>4, <2>5
<1>4. Faithful' /\ Uncommitted'
  <2>1. /\ Up /\ Up' /\ Shows(kv, kvApplied, log) /\ Shows(kv, 0, log)
        /\ Reached' = kvApplied /\ Reached = kvApplied
        /\ \A k \in Keys : kv[k] <= committed
        /\ \A s \in DOMAIN snaps : /\ Shows(snaps[s], s, log) /\ s <= committed
                                   /\ \A k \in Keys : snaps[s][k] <= committed
    BY <1>1 DEF Up, Exporting, DataCore, Faithful, Uncommitted, Reached
  <2>2. \A s \in DOMAIN snaps' :
          \/ s \in DOMAIN snaps /\ snaps'[s] = snaps[s]
          \/ s = kvApplied /\ snaps'[s] = kv
    <3>1. CASE CreateSnapshot
      <4> DEFINE files == [s \in DOMAIN snaps \cup {kvApplied} |->
                             IF s = kvApplied THEN kv ELSE snaps[s]]
      <4>1. snaps' = Cleaned(files, DefaultKeep)
        BY <3>1 DEF CreateSnapshot
      <4>2. \A s \in DOMAIN files :
              \/ s \in DOMAIN snaps /\ files[s] = snaps[s]
              \/ s = kvApplied /\ files[s] = kv
        OBVIOUS
      <4> HIDE DEF files
      <4>3. /\ DOMAIN snaps' \subseteq DOMAIN files
            /\ \A s \in DOMAIN snaps' : snaps'[s] = files[s]
        BY <4>1 DEF Cleaned
      <4>4. QED
        BY <4>2, <4>3
    <3>2. CASE CleanupSnapshots
      BY <3>2 DEF CleanupSnapshots, Cleaned
    <3>3. CASE UNCHANGED snaps
      BY <3>3
    <3>4. QED
      BY <3>1, <3>2, <3>3 DEF SkipSnapshot, CreateSnapshotFails, Compact, Advance,
                              diskVars
  <2>3. kvApplied <= committed
    BY <2>1 DEF DataCore, ApplyOrder
  <2>4. Faithful'
    BY <1>1, <2>1, <2>2 DEF Faithful
  <2>5. Uncommitted'
    BY <1>1, <2>1, <2>2, <2>3 DEF Uncommitted
  <2>6. QED
    BY <2>4, <2>5
<1>5. QED
  BY <1>2, <1>3, <1>4 DEF DataCore

\* A crash anywhere but inside FileWAL.Append, and the restart: the WAL agrees
\* with the log on what bootstrapStorage applies and on what raft then knows.
LEMMA DataCrashSteps ==
  ASSUME TypeInv, TypeInv', Core, DataCore,
         Crash \/ BootRestore \/ BootReplay \/ BootFinish
  PROVE  DataCore'
<1>0. /\ MaxIndex \in Nat /\ IndexesOK /\ Durable \in Position
      /\ LatestSnapshot \in Position /\ LatestSnapshot <= Durable
      /\ Durable <= Persisted /\ Durable <= walHi
      /\ DOMAIN snaps \subseteq Index /\ HasNewest(snaps)
      /\ RecoveredLast = walHi
      /\ kv \in Images /\ \A s \in DOMAIN snaps : snaps[s] \in Images
  BY CoreFacts, DataFacts DEF TypeInv, TypeOK
<1>a. /\ LatestSnapshot = 0 \/ LatestSnapshot \in DOMAIN snaps
      /\ LatestSnapshot' = LatestSnapshot /\ UNCHANGED <<walVars, snaps>>
  BY <1>0, NewestIsNewest
     DEF Crash, LoseMemory, BootRestore, BootReplay, BootFinish, diskVars,
         LatestSnapshot
<1>b. /\ \A s \in DOMAIN snaps : Shows(snaps[s], s, log)
      /\ Shows(kv, 0, log)
  BY DEF DataCore, Faithful
<1>1. ASSUME Crash PROVE DataCore'
  <2>1. pc' = "down" /\ UNCHANGED <<log, kv, snaps>>
    BY <1>1 DEF Crash, LoseMemory, diskVars
  <2>2. Faithful'
    BY <1>b, <2>1 DEF Faithful, Up
  <2>3. ApplyOrder' /\ Uncommitted' /\ Retained'
    BY <2>1 DEF ApplyOrder, Uncommitted, Retained, Up, Exporting
  <2>4. QED
    BY <2>2, <2>3 DEF DataCore
<1>2. ASSUME BootRestore PROVE DataCore'
  <2>1. /\ pc' = "replay" /\ cur' = LatestSnapshot /\ log' = log
        /\ memFirst' = LatestSnapshot + 1 /\ memSnap' = LatestSnapshot
        /\ LatestSnapshot = 0 => UNCHANGED <<kv, kvApplied>>
        /\ LatestSnapshot # 0 => /\ kv' = snaps[LatestSnapshot]
                                 /\ kvApplied' = LatestSnapshot
    BY <1>2 DEF BootRestore, WalReachesSnapshot, Core, WalShape, raftVars
  <2>2. Shows(kv', LatestSnapshot, log)
    BY <1>a, <1>b, <2>1
  <2>3. Shows(kv', 0, log)
    BY <1>0, <2>2, ShowsLess DEF Position
  <2>4. Faithful'
    BY <1>a, <1>b, <2>1, <2>2, <2>3 DEF Faithful, Reached
  <2>5. ApplyOrder'
    BY <1>0, <2>1 DEF ApplyOrder, Up, Exporting, IndexesOK, Position
  <2>6. Uncommitted' /\ Retained'
    BY <1>a, <2>1 DEF Uncommitted, Retained, Up
  <2>7. QED
    BY <2>4, <2>5, <2>6 DEF DataCore
<1>3. ASSUME BootReplay PROVE DataCore'
  <2>1. /\ pc = "replay" /\ pc' = "replay" /\ cur' = cur + 1
        /\ kvApplied' = cur + 1 /\ kv' = Applied(kv, walEnt, cur + 1)
        /\ UNCHANGED <<raftVars, memVars>>
    BY <1>3 DEF BootReplay
  <2>2. cur + 1 <= Durable
    BY <1>0, <1>3 DEF BootReplay, ReplayLast, Durable, Smaller, IndexesOK, Position
  <2>3. cur \in Int /\ cur + 1 \in Index /\ cur >= LatestSnapshot
    BY <1>0, <2>1, <2>2 DEF IndexesOK, Position, Index, Core, SnapshotShape
  <2>4. walEnt[cur + 1] = log[cur + 1]
    <3>1. Persisted \in Int
      BY <1>0 DEF Persisted, Smaller, IndexesOK, Position
    <3>2. walLo <= cur + 1 /\ cur + 1 <= Persisted
      BY <1>0, <2>2, <2>3, <3>1 DEF Core, WalShape, IndexesOK, Position
    <3>3. QED
      BY <2>3, <3>2 DEF Core, WalShape
  <2>5. Shows(kv, cur, log)
    BY <2>1 DEF DataCore, Faithful, Reached
  <2>6. Shows(kv', cur + 1, log)
    BY <1>0, <2>1, <2>3, <2>4, <2>5, ShowsApplied
  <2>7. Shows(kv', 0, log)
    BY <1>0, <2>3, <2>6, ShowsLess DEF IndexesOK, Position
  <2>8. Faithful'
    BY <1>a, <1>b, <2>1, <2>6, <2>7 DEF Faithful, Reached, raftVars
  <2>9. ApplyOrder' /\ Uncommitted' /\ Retained'
    BY <1>a, <2>1, <2>3 DEF ApplyOrder, Uncommitted, Retained, DataCore, Up, Exporting, memVars
  <2>10. QED
    BY <2>8, <2>9 DEF DataCore
<1>4. ASSUME BootFinish PROVE DataCore'
  <2>1. /\ walCommit \in Int /\ walHi \in Int /\ walCommit <= walHi
        /\ Durable = walCommit /\ Persisted = walCommit
    BY <1>0, <1>4 DEF BootFinish, Core, WalShape, Durable, Persisted, Smaller,
                      IndexesOK, Position
  <2>2. walCommit \in LatestSnapshot .. RecoveredLast
    BY <1>0, <2>1 DEF Position
  <2>3. /\ pc = "replay" /\ pc' = "idle"
        /\ last' = walHi /\ committed' = walCommit
        /\ applying' = LatestSnapshot /\ statusApplied' = walCommit
        /\ UNCHANGED <<memFirst, memSnap, kv, kvApplied>>
        /\ log' = [i \in Index |->
                     IF i > walHi THEN {}
                     ELSE IF ~WalEmpty /\ i >= walLo /\ i > LatestSnapshot
                          THEN walEnt[i] ELSE log[i]]
    BY <1>0, <1>4, <2>2 DEF BootFinish, diskVars
  <2>4. cur >= walCommit
    BY <1>0, <1>4, <2>1 DEF BootFinish, ReplayLast, Smaller
  <2>5. /\ kvApplied = walCommit /\ kvApplied \in Int /\ cur \in Int
        /\ LatestSnapshot <= walCommit
    BY <1>0, <2>1, <2>3, <2>4 DEF DataCore, ApplyOrder, Core, Behind, IndexesOK, Position
  <2>6. \A i \in Index : i <= walCommit => log'[i] = log[i]
    <3>1. SUFFICES ASSUME NEW i \in Index, i <= walCommit PROVE log'[i] = log[i]
      OBVIOUS
    <3>2. i <= walHi
      BY <2>1, <3>1 DEF Index
    <3>3. walLo <= i => walEnt[i] = log[i]
      BY <2>1, <3>1 DEF Core, WalShape
    <3>4. QED
      BY <1>0, <2>1, <2>3, <3>2, <3>3 DEF Index, IndexesOK, Position
  <2>7. /\ \A k \in Keys : kv[k] <= walCommit
        /\ \A s \in DOMAIN snaps : /\ s <= walCommit
                                   /\ \A k \in Keys : snaps[s][k] <= walCommit
    BY <2>1 DEF Core, Behind
  <2>8. Shows(kv, walCommit, log)
    <3>1. Shows(kv, cur, log)
      BY <2>3 DEF DataCore, Faithful, Reached
    <3>2. QED
      BY <2>1, <2>4, <2>5, <3>1, ShowsLess
  <2>9. Shows(kv, walCommit, log') /\ Shows(kv, 0, log')
    <3>1. 0 <= walCommit
      BY <1>0 DEF IndexesOK, Position
    <3>2. QED
      BY <1>0, <1>b, <2>1, <2>6, <2>7, <2>8, <3>1, ShowsKept
  <2>10. \A s \in DOMAIN snaps : Shows(snaps[s], s, log')
    <3>1. SUFFICES ASSUME NEW s \in DOMAIN snaps PROVE Shows(snaps[s], s, log')
      OBVIOUS
    <3>2. s \in Int /\ snaps[s] \in Images
      BY <1>0 DEF Index
    <3>3. QED
      BY <1>0, <1>b, <2>1, <2>6, <2>7, <3>2, ShowsKept
  <2>11. Faithful'
    BY <1>a, <2>3, <2>5, <2>9, <2>10 DEF Faithful, Reached
  <2>12. ApplyOrder'
    BY <1>0, <2>1, <2>3, <2>5 DEF ApplyOrder, Up, Exporting, Position
  <2>13. Uncommitted'
    BY <1>a, <2>3, <2>7 DEF Uncommitted
  <2>14. Retained'
    BY <1>0, <2>3 DEF Retained, DataCore, Up, Handed, Exporting, Position
  <2>15. QED
    BY <2>11, <2>12, <2>13, <2>14 DEF DataCore
<1>5. QED
  BY <1>1, <1>2, <1>3, <1>4

-----------------------------------------------------------------------------

LEMMA InitDataInv == Init => DataInv
<1> SUFFICES ASSUME Init PROVE DataInv
  OBVIOUS
<1>1. Up /\ DOMAIN snaps = {} /\ Reached = 0 /\ Handed = 0
  BY DEF Init, Up, Reached, Handed, Exporting
<1>2. Shows(kv, 0, log)
  BY DEF Init, Shows, Index
<1>3. DataCore
  BY <1>1, <1>2
     DEF Init, DataCore, ApplyOrder, Faithful, Uncommitted, Retained, Up, Exporting
<1>4. QED
  BY <1>1, <1>3 DEF DataInv, Fallen

\* How the counters of mishaps move.
LEMMA Counters ==
  ASSUME TypeInv, [Next]_vars
  PROVE  /\ crashes \in Nat /\ tornCrashes \in Nat /\ walFaults \in Nat
         /\ crashes' = crashes \/ (Crash /\ crashes' = crashes + 1)
         /\ tornCrashes' = tornCrashes \/ (TornCrash /\ tornCrashes' = tornCrashes + 1)
         /\ walFaults' = walFaults \/ (WalFails /\ walFaults' = walFaults + 1)
<1>1. crashes \in Nat /\ tornCrashes \in Nat /\ walFaults \in Nat
  BY ConstantsAssumption DEF TypeInv, TypeOK
<1>2. CASE Crash
  BY <1>1, <1>2 DEF Crash, LoseMemory
<1>3. CASE TornCrash
  BY <1>1, <1>3 DEF TornCrash, LoseMemory
<1>4. CASE WalFails
  BY <1>1, <1>4 DEF WalFails
<1>5. CASE UNCHANGED <<crashes, tornCrashes, walFaults>>
  BY <1>1, <1>5
<1>6. QED
  BY <1>2, <1>3, <1>4, <1>5
     DEF Next, LoopStep, RaftAppend, RaftCommit, RaftReady, PersistState,
         WalAppendEntry, WalRewriteTail, WalGapError, ApplyEntry, FinishApply,
         SkipSnapshot, CreateSnapshot, CreateSnapshotFails, Compact,
         CleanupSnapshots, Advance, BootRestore, BootReplay, BootFinish, vars,
         boundVars

LEMMA NextDataInv == IInv /\ DataInv /\ [Next]_vars => DataInv'
<1> SUFFICES ASSUME IInv, DataInv, [Next]_vars PROVE DataInv'
  OBVIOUS
<1>1. TypeInv /\ TypeInv'
  BY StepTypeOK, StepHasNewest DEF IInv, TypeInv
<1>2. /\ crashes \in Nat /\ tornCrashes \in Nat /\ walFaults \in Nat
      /\ crashes' = crashes \/ (Crash /\ crashes' = crashes + 1)
      /\ tornCrashes' = tornCrashes \/ (TornCrash /\ tornCrashes' = tornCrashes + 1)
      /\ walFaults' = walFaults \/ (WalFails /\ walFaults' = walFaults + 1)
  BY <1>1, Counters
<1>3. Fallen'
  <2>1. CASE Crash \/ TornCrash
    BY <1>2, <2>1 DEF Crash, TornCrash, Fallen
  <2>2. CASE Up \/ ~Up'
    <3>1. ~Up' /\ Up => Crash \/ TornCrash
      BY DEF Next, LoopStep, RaftAppend, RaftCommit, RaftReady, PersistState,
         WalAppendEntry, WalRewriteTail, WalGapError, WalFails, EntriesDone, ApplyEntry,
         FinishApply, SkipSnapshot, CreateSnapshot, CreateSnapshotFails, Compact,
         CleanupSnapshots, Advance, BootRestore, BootReplay, BootFinish, vars,
         loopVars, Up
    <3>2. QED
      BY <1>2, <2>1, <2>2, <3>1 DEF DataInv, Fallen
  <2>3. CASE ~Up /\ Up'
    BY <2>3 DEF Fallen
  <2>4. QED
    BY <2>1, <2>2, <2>3
<1>4. SUFFICES ASSUME Unharmed' PROVE DataCore'
  BY <1>3 DEF DataInv
<1>5. Unharmed /\ DataCore /\ ~TornCrash
  <2>1. ~TornCrash
    BY <1>2, <1>4 DEF TornCrash, Unharmed
  <2>2. Unharmed
    BY <1>2, <1>4, <2>1 DEF Unharmed
  <2>3. QED
    BY <2>1, <2>2 DEF DataInv
\* The process restarts only where no WAL error was ignored.
<1>6. Crash \/ BootRestore \/ BootReplay \/ BootFinish => Core
  <2>1. SUFFICES ASSUME Crash \/ BootRestore \/ BootReplay \/ BootFinish
                 PROVE  Trusted
    BY DEF IInv
  <2>2. CASE Crash
    BY <1>2, <1>4, <2>2 DEF Crash, Unharmed, Trusted, LoseMemory
  <2>3. CASE ~Up
    BY <1>2, <1>5, <2>3 DEF DataInv, Fallen, Unharmed, Trusted
  <2>4. QED
    BY <2>1, <2>2, <2>3 DEF BootRestore, BootReplay, BootFinish, Up
<1>7. CASE UNCHANGED vars
  <2>1. UNCHANGED <<raftVars, loopVars, memVars, diskVars>> /\ LatestSnapshot' = LatestSnapshot
    BY <1>7 DEF vars, LatestSnapshot, diskVars
  <2>2. Up' = Up /\ Exporting' = Exporting /\ Handed' = Handed /\ Reached' = Reached
    BY <2>1 DEF Up, Exporting, Handed, Reached, raftVars, loopVars, diskVars
  <2>3. ApplyOrder' /\ Retained'
    BY <1>5, <2>1, <2>2 DEF DataCore, ApplyOrder, Retained, raftVars, loopVars, memVars, diskVars
  <2>4. Faithful' /\ Uncommitted'
    BY <1>5, <2>1, <2>2 DEF DataCore, Faithful, Uncommitted, raftVars, loopVars, diskVars
  <2>5. QED
    BY <2>3, <2>4 DEF DataCore
<1>8. QED
  BY <1>1, <1>5, <1>6, <1>7, DataRaftSteps, DataWalSteps, DataApplySteps,
     DataCompactionSteps, DataCrashSteps DEF Next, LoopStep

LEMMA SpecDataInv == Spec => [](IInv /\ DataInv)
<1>1. Init => IInv /\ DataInv
  BY InitIInv, InitDataInv
<1>2. IInv /\ DataInv /\ [Next]_vars => (IInv /\ DataInv)'
  BY NextIInv, NextDataInv
<1>3. QED
  BY <1>1, <1>2, PTL DEF Spec

\* A snapshot file has every write up to the index it is named after: the ones
\* that maybeTriggerSnapshot exports while entries are handed out again after a
\* restart too.
THEOREM SnapshotsReflectTheirIndexAlways == Spec => []SnapshotsReflectTheirIndex
<1>1. DataInv => SnapshotsReflectTheirIndex
  BY DEF DataInv, DataCore, Faithful, Shows, SnapshotsReflectTheirIndex, Reflects
<1>2. QED
  BY <1>1, SpecDataInv, PTL

\* When raft has nothing left to hand out, Pebble is exactly the committed log,
\* however often its end was applied by bootstrapStorage and by the Ready loop.
THEOREM CaughtUpIsExactAlways == Spec => []CaughtUpIsExact
<1>1. IInv /\ DataInv => CaughtUpIsExact
  <2> SUFFICES ASSUME TypeInv, DataCore, pc = "idle", applying = committed
               PROVE  Reflects(kv, committed) /\ \A k \in Keys : kv[k] <= committed
    BY DEF IInv, DataInv, CaughtUpIsExact
  <2>1. Reached = committed
    BY DataFacts DEF DataCore, ApplyOrder, Reached, Up, IndexesOK, Position
  <2>2. Shows(kv, committed, log) /\ \A k \in Keys : kv[k] <= committed
    BY <2>1 DEF DataCore, Faithful, Uncommitted, Up
  <2>3. QED
    BY <2>2 DEF Shows, Reflects
<1>2. QED
  BY <1>1, SpecDataInv, PTL

\* Status().AppliedIndex never promises LinearizableRead more than Pebble has.
THEOREM StatusIsHonestAlways == Spec => []StatusIsHonest
<1>1. IInv /\ DataInv => StatusIsHonest
  <2> SUFFICES ASSUME TypeInv, DataCore, Up, ~(pc = "apply" /\ applying < statusApplied)
               PROVE  Reflects(kv, statusApplied)
    BY DEF IInv, DataInv, StatusIsHonest
  <2>1. IndexesOK /\ Reached \in Int /\ statusApplied \in Int
    BY DataFacts DEF IndexesOK, Position
  <2>2. statusApplied <= Reached
    BY <2>1 DEF DataCore, ApplyOrder, Reached, Up, IndexesOK, Position
  <2>3. Shows(kv, Reached, log)
    BY DEF DataCore, Faithful
  <2>4. Shows(kv, statusApplied, log)
    BY <2>1, <2>2, <2>3, ShowsLess
  <2>5. QED
    BY <2>4 DEF Shows, Reflects
<1>2. QED
  BY <1>1, SpecDataInv, PTL

\* MemoryStorage can serve what it compacted as a snapshot, and still has what
\* raft will hand out.
THEOREM CompactedIsServedAlways == Spec => []CompactedIsServed
<1>1. DataInv => CompactedIsServed
  BY DEF DataInv, DataCore, Retained, Handed, Exporting, CompactedIsServed
<1>2. QED
  BY <1>1, SpecDataInv, PTL

\* With fewer retained entries than a snapshot interval, no more than the retained
\* entries stay in the WAL behind a snapshot, whatever crashes and restarts did
\* to the earlier truncations.
THEOREM CompactionReclaimsAlways == Spec => []CompactionReclaims
<1>1. Init => CompactionReclaims
  BY DEF Init, CompactionReclaims
<1>2. ASSUME IInv, DataInv, [Next]_vars, CompactionReclaims
      PROVE  CompactionReclaims'
  <2>1. SUFFICES ASSUME Trusted', pc' = "cleanup", CompactRetain < SnapshotEntries
                 PROVE  kvApplied' - walLo' <= CompactRetain
    BY DEF CompactionReclaims
  <2>2. Trusted /\ Unharmed
    BY <1>2, <2>1, Counters DEF IInv, Trusted, Unharmed
  <2>3. TypeInv /\ Core /\ DataCore
    BY <1>2, <2>2 DEF IInv, DataInv
  <2>4. CASE UNCHANGED vars
    BY <1>2, <2>1, <2>2, <2>4
       DEF CompactionReclaims, vars, loopVars, diskVars, walVars
  <2>5. CASE Compact
    <3>1. /\ IndexesOK /\ Durable <= walHi /\ Durable \in Position
          /\ SnapshotEntries \in Nat /\ CompactRetain \in Nat
      BY <2>3, CoreFacts, ConstantsAssumption
    <3>2. memFirst + SnapshotEntries <= kvApplied + 1
      BY <2>3, <2>5 DEF Compact, DataCore, Retained
    <3>3. /\ CompactIndex \in Int /\ CompactIndex <= kvApplied
          /\ kvApplied - CompactIndex <= CompactRetain
          /\ CompactIndex = kvApplied => kvApplied <= CompactRetain \/ CompactRetain = 0
      BY <3>1 DEF CompactIndex, IndexesOK, Position
    <3>4. CompactIndex >= memFirst
      BY <2>1, <3>1, <3>2, <3>3 DEF IndexesOK, Position
    <3>5. TruncatedWal(CompactIndex) /\ kvApplied' = kvApplied
      BY <2>5, <3>4 DEF Compact
    <3>6. kvApplied <= walHi
      BY <2>3, <3>1 DEF Core, Behind, IndexesOK, Position
    <3>7. CASE WalEmpty \/ CompactIndex <= walLo
      <4>1. walLo' = walLo /\ (WalEmpty => walLo = 1 /\ walHi = 0)
        BY <2>3, <3>5, <3>7 DEF TruncatedWal, Core, WalShape
      <4>2. QED
        BY <3>1, <3>3, <3>5, <3>6, <3>7, <4>1 DEF IndexesOK, Position
    <3>8. CASE ~(WalEmpty \/ CompactIndex <= walLo)
      <4>1. walLo' = CompactIndex
        BY <3>1, <3>3, <3>5, <3>6, <3>8 DEF TruncatedWal, IndexesOK, Position
      <4>2. QED
        BY <3>3, <3>5, <4>1
    <3>9. QED
      BY <3>7, <3>8
  <2>6. ~UNCHANGED vars => Compact
    BY <1>2, <2>1
       DEF Next, LoopStep, RaftAppend, RaftCommit, RaftReady, PersistState,
           WalAppendEntry, WalRewriteTail, WalGapError, WalFails, EntriesDone,
           ApplyEntry, FinishApply, SkipSnapshot, CreateSnapshot, CreateSnapshotFails,
           CleanupSnapshots, Advance, Crash, TornCrash, LoseMemory, BootRestore,
           BootReplay, BootFinish, loopVars
  <2>7. QED
    BY <2>4, <2>5, <2>6
<1>3. QED
  BY <1>1, <1>2, SpecDataInv, PTL DEF Spec

-----------------------------------------------------------------------------
\* The refinement: what a restart would rebuild only gains newer writes.

LEMMA HasGreatest ==
  ASSUME NEW m \in Nat, NEW S \in SUBSET (0 .. m), S # {}
  PROVE  \E e \in S : \A s \in S : s <= e
<1> DEFINE T == {m - s : s \in S}
<1>1. T \subseteq Nat /\ T # {}
  <2>1. \A s \in S : m - s \in Nat
    OBVIOUS
  <2>2. PICK s \in S : TRUE
    OBVIOUS
  <2>3. m - s \in T
    BY <2>2
  <2>4. QED
    BY <2>1, <2>3
<1>2. \E n \in T : \A l \in T : ~(<<l, n>> \in OpToRel(<, Nat))
  <2> HIDE DEF T
  <2>1. QED
    BY <1>1, NatLessThanWellFounded, WFMin
<1>3. PICK n \in T : \A l \in T : ~(l < n)
  <2> HIDE DEF T
  <2>1. QED
    BY <1>1, <1>2 DEF OpToRel
<1>4. PICK e \in S : n = m - e
  BY <1>3
<1>5. ASSUME NEW s \in S PROVE s <= e
  <2>1. m - s \in T
    OBVIOUS
  <2>2. ~(m - s < m - e)
    <3> HIDE DEF T
    <3>1. QED
      BY <1>3, <1>4, <2>1
  <2>3. m \in Int /\ e \in Int /\ s \in Int
    OBVIOUS
  <2> HIDE DEF T
  <2>4. QED
    BY <2>2, <2>3
<1> HIDE DEF T
<1>6. QED
  BY <1>5

\* What bootstrapStorage starts from, and the WAL entries that it applies to key k.
Base == IF LatestSnapshot = 0 THEN kv ELSE snaps[LatestSnapshot]
Writers(k) == {i \in LatestSnapshot + 1 .. DurableIndex : k \in walEnt[i]}

\* The recovered data are exactly the durable log.
Exact ==
  /\ DurableIndex = Durable /\ Durable \in Position
  /\ RecoveredImage \in Images
  /\ \A k \in Keys : RecoveredImage[k] <= Durable
  /\ Shows(RecoveredImage, Durable, log)

LEMMA RecoveredIsExact == TypeInv /\ Core /\ DataCore => Exact
<1> SUFFICES ASSUME TypeInv, Core, DataCore PROVE Exact
  OBVIOUS
<1>0. /\ MaxIndex \in Nat /\ IndexesOK
      /\ LatestSnapshot \in Position /\ Durable \in Position
      /\ Durable <= Persisted /\ DurableIndex = Durable
      /\ LatestSnapshot = 0 \/ LatestSnapshot \in DOMAIN snaps
  BY CoreFacts, NewestIsNewest DEF TypeInv, TypeOK, LatestSnapshot
<1>1. /\ Base \in Images /\ \A k \in Keys : Base[k] <= Durable
      /\ Shows(Base, LatestSnapshot, log)
  BY <1>0, DataFacts DEF Base, DataCore, Faithful, Core, Behind
<1>2. \A i \in LatestSnapshot + 1 .. Durable : i \in Index /\ walEnt[i] = log[i]
  <2>1. Persisted \in Int
    BY <1>0 DEF Persisted, Smaller, IndexesOK, Position
  <2>2. SUFFICES ASSUME NEW i \in LatestSnapshot + 1 .. Durable
                 PROVE  i \in Index /\ walEnt[i] = log[i]
    OBVIOUS
  <2>3. i \in Index /\ walLo <= i /\ i <= Persisted
    BY <1>0, <2>1, <2>2 DEF Core, WalShape, IndexesOK, Index, Position
  <2>4. QED
    BY <2>3 DEF Core, WalShape
<1>3. RecoveredImage =
        [k \in Keys |-> IF Writers(k) = {} THEN Base[k]
                        ELSE CHOOSE i \in Writers(k) : \A j \in Writers(k) : j <= i]
  BY DEF RecoveredImage, Base, Writers
<1>4. ASSUME NEW k \in Keys
      PROVE  /\ RecoveredImage[k] \in Position /\ RecoveredImage[k] <= Durable
             /\ RecoveredImage[k] # 0 => k \in log[RecoveredImage[k]]
             /\ \A i \in Index : RecoveredImage[k] < i /\ i <= Durable => k \notin log[i]
  <2>1. \A i \in Index : i \in Writers(k) <=>
                           LatestSnapshot < i /\ i <= Durable /\ k \in log[i]
    BY <1>0, <1>2 DEF Writers, Index, Position
  <2>2. Writers(k) \subseteq Index
    BY <1>0, <1>2 DEF Writers
  <2>3. /\ Base[k] \in Position /\ Base[k] <= Durable
        /\ Base[k] # 0 => k \in log[Base[k]]
        /\ \A i \in Index : Base[k] < i /\ i <= LatestSnapshot => k \notin log[i]
    BY <1>1 DEF Shows, Images
  <2>4. CASE Writers(k) = {}
    <3>1. RecoveredImage[k] = Base[k]
      BY <1>3, <2>4
    <3>2. \A i \in Index : LatestSnapshot < i /\ i <= Durable => k \notin log[i]
      BY <2>1, <2>4
    <3>3. \A i \in Index : i <= LatestSnapshot \/ LatestSnapshot < i
      BY <1>0 DEF Index, Position
    <3>4. QED
      BY <2>3, <3>1, <3>2, <3>3
  <2>5. CASE Writers(k) # {}
    <3>1. RecoveredImage[k] = CHOOSE i \in Writers(k) : \A j \in Writers(k) : j <= i
      BY <1>3, <2>5
    <3>2. \E i \in Writers(k) : \A j \in Writers(k) : j <= i
      <4>1. Writers(k) \in SUBSET (0 .. MaxIndex)
        BY <2>2 DEF Index
      <4>2. QED
        BY <1>0, <2>5, <4>1, HasGreatest
    <3>3. /\ RecoveredImage[k] \in Writers(k)
          /\ \A j \in Writers(k) : j <= RecoveredImage[k]
      BY <3>1, <3>2
    <3>4. /\ RecoveredImage[k] \in Index /\ RecoveredImage[k] <= Durable
          /\ LatestSnapshot < RecoveredImage[k] /\ k \in log[RecoveredImage[k]]
      BY <2>1, <2>2, <3>3
    <3>5. ASSUME NEW i \in Index, RecoveredImage[k] < i, i <= Durable
          PROVE  k \notin log[i]
      <4>1. i \notin Writers(k)
        BY <3>3, <3>4, <3>5 DEF Index
      <4>2. LatestSnapshot < i
        BY <1>0, <3>4, <3>5 DEF Index, Position
      <4>3. QED
        BY <2>1, <3>5, <4>1, <4>2
    <3>6. RecoveredImage[k] \in Position
      BY <3>4 DEF Index, Position
    <3>7. QED
      BY <3>4, <3>5, <3>6
  <2>6. QED
    BY <2>4, <2>5
<1>5. RecoveredImage \in Images
  BY <1>3, <1>4 DEF Images
<1>6. QED
  BY <1>0, <1>4, <1>5 DEF Exact, Shows

LEMMA RecoveredIsExactNext == TypeInv' /\ Core' /\ DataCore' => Exact'
BY RecoveredIsExact, PTL

\* Two images that are exact for two logs, one the continuation of the other.
LEMMA ExactExtends ==
  ASSUME NEW n \in Position, NEW m \in Position, n <= m, MaxIndex \in Nat,
         NEW old, NEW new, \A i \in Index : i <= n => new[i] = old[i],
         NEW image \in Images, \A k \in Keys : image[k] <= n, Shows(image, n, old),
         NEW image2 \in Images, \A k \in Keys : image2[k] <= m, Shows(image2, m, new)
  PROVE  \A k \in Keys : image2[k] = image[k] \/ image2[k] \in n + 1 .. m
<1> SUFFICES ASSUME NEW k \in Keys, ~(image2[k] \in n + 1 .. m)
             PROVE  image2[k] = image[k]
  OBVIOUS
<1>1. /\ n \in Int /\ m \in Int /\ image[k] \in Position /\ image2[k] \in Position
      /\ image[k] <= n /\ image2[k] <= m
  BY DEF Images, Position
<1>2. image2[k] <= n
  BY <1>1 DEF Position
<1>3. ~(image2[k] < image[k])
  <2>1. SUFFICES ASSUME image2[k] < image[k] PROVE FALSE
    OBVIOUS
  <2>2. image[k] \in Index /\ image[k] <= m /\ image[k] # 0
    BY <1>1, <2>1 DEF Position, Index
  <2>3. k \in old[image[k]]
    BY <2>2 DEF Shows
  <2>4. k \notin new[image[k]]
    BY <2>1, <2>2 DEF Shows
  <2>5. QED
    BY <1>1, <2>2, <2>3, <2>4
<1>4. ~(image[k] < image2[k])
  <2>1. SUFFICES ASSUME image[k] < image2[k] PROVE FALSE
    OBVIOUS
  <2>2. image2[k] \in Index /\ image2[k] # 0
    BY <1>1, <2>1 DEF Position, Index
  <2>3. k \in new[image2[k]]
    BY <2>2 DEF Shows
  <2>4. k \notin old[image2[k]]
    BY <1>2, <2>1, <2>2 DEF Shows
  <2>5. QED
    BY <1>2, <2>2, <2>3, <2>4
<1>5. QED
  BY <1>1, <1>3, <1>4 DEF Position

\* No step takes back what is durable, or rewrites it.
LEMMA DurableGrows ==
  ASSUME TypeInv, TypeInv', Core, Core', [Next]_vars, ~WalFails, ~TornCrash
  PROVE  Durable <= Durable' /\ \A i \in Index : i <= Durable => log'[i] = log[i]
<1>0. /\ MaxIndex \in Nat /\ IndexesOK /\ Durable \in Position
      /\ LatestSnapshot \in Position
      /\ Durable <= Persisted /\ Durable <= walHi /\ RecoveredLast = walHi
  BY CoreFacts
<1>1. CASE \/ \E i \in Index, entry \in Commands : RaftAppend(i, entry)
           \/ \E i \in Index : RaftCommit(i)
           \/ \E i \in Position : RaftReady(i)
  <2>1. UNCHANGED <<walCommit, walHi>> /\ pc = "idle" /\ pc' \in {"idle", "state"}
    BY <1>1 DEF RaftAppend, RaftCommit, RaftReady, diskVars, walVars, loopVars
  <2>2. Durable' = Durable
    BY <2>1 DEF Durable, Smaller
  <2>3. Durable <= committed
    BY <1>0, <2>1 DEF Durable, Smaller, Core, RaftOrder, IndexesOK, Position
  <2>4. \A i \in Index : i <= committed => log'[i] = log[i]
    <3>1. ASSUME NEW i \in Index, NEW entry \in Commands, RaftAppend(i, entry),
                 NEW j \in Index, j <= committed
          PROVE  log'[j] = log[j]
      <4>1. j < i
        BY <1>0, <3>1 DEF RaftAppend, IndexesOK, Position, Index
      <4>2. QED
        BY <3>1, <4>1 DEF RaftAppend
    <3>2. CASE log' = log
      BY <3>2
    <3>3. QED
      BY <1>1, <3>1, <3>2 DEF RaftCommit, RaftReady, raftVars
  <2>5. QED
    BY <1>0, <2>2, <2>3, <2>4 DEF IndexesOK, Index, Position
<1>2. CASE PersistState \/ WalAppendEntry \/ WalRewriteTail \/ WalGapError
  <2>1. log' = log
    BY <1>2 DEF PersistState, WalAppendEntry, WalRewriteTail, WalGapError, raftVars
  <2>2. CASE PersistState
    <3>1. /\ Durable = Smaller(walCommit, walHi)
          /\ Durable' = Smaller(walCommit', IF stable < last THEN stable ELSE walHi)
          /\ walCommit' \in {walCommit, committed}
          /\ walCommit <= stable /\ walCommit <= committed
      BY <2>2 DEF PersistState, Durable, Core, RaftOrder, raftVars
    <3>2. QED
      BY <1>0, <2>1, <3>1 DEF Smaller, IndexesOK, Position
  <2>3. CASE WalAppendEntry
    <3>1. walHi = cur
      BY <1>0, <2>3 DEF WalAppendEntry, Core, WalShape, Persisted, WalEmpty,
                        IndexesOK, Position
    <3>2. /\ Durable = Smaller(walCommit, cur)
          /\ Durable' = Smaller(walCommit, cur + 1)
      BY <2>3, <3>1 DEF WalAppendEntry, EntriesDone, Durable
    <3>3. QED
      BY <1>0, <2>1, <3>2 DEF Smaller, IndexesOK, Position
  <2>4. CASE WalRewriteTail
    <3>1. cur < last /\ Durable = Smaller(walCommit, cur) /\ Durable' = Smaller(walCommit, last)
      BY <2>4 DEF WalRewriteTail, EntriesDone, Durable, Core, RaftOrder
    <3>2. QED
      BY <1>0, <2>1, <3>1 DEF Smaller, IndexesOK, Position
  <2>5. CASE WalGapError
    BY <1>0, <2>5 DEF WalGapError, Core, WalShape, Persisted, IndexesOK, Position
  <2>6. QED
    BY <1>2, <2>2, <2>3, <2>4, <2>5
<1>3. CASE \/ ApplyEntry \/ FinishApply
           \/ SkipSnapshot \/ CreateSnapshot \/ CreateSnapshotFails
           \/ CleanupSnapshots \/ Advance
  <2>1. /\ UNCHANGED <<log, walCommit, walHi>>
        /\ pc # "entries" /\ pc' # "entries"
    BY <1>3 DEF ApplyEntry, FinishApply, SkipSnapshot, CreateSnapshot,
                CreateSnapshotFails, CleanupSnapshots, Advance, raftVars, diskVars, walVars
  <2>2. Durable' = Durable
    BY <2>1 DEF Durable, Smaller
  <2>3. QED
    BY <1>0, <2>1, <2>2 DEF Position
<1>4. CASE Compact
  <2>1. kvApplied <= walHi /\ CompactIndex \in Int /\ CompactIndex <= kvApplied
    BY <1>0, ConstantsAssumption
       DEF CompactIndex, Core, Behind, IndexesOK, Position
  <2>2. walHi' = walHi /\ walCommit' = walCommit
    BY <1>0, <1>4, <2>1 DEF Compact, TruncatedWal, walVars, IndexesOK, Position, Core,
                            RaftOrder, AfterWal
  <2>3. Durable' = Durable /\ log' = log
    BY <1>4, <2>2 DEF Compact, Durable, Smaller, raftVars
  <2>4. QED
    BY <1>0, <2>3 DEF Position
<1>5. CASE Crash \/ BootRestore \/ BootReplay
  <2>1. UNCHANGED <<log, walCommit, walHi>> /\ pc' # "entries"
    BY <1>5 DEF Crash, LoseMemory, BootRestore, BootReplay, raftVars, diskVars, walVars
  <2>2. Durable' = Smaller(walCommit, walHi)
    BY <2>1 DEF Durable, Smaller
  <2>3. Durable <= Durable'
    <3>1. CASE pc # "entries"
      BY <1>0, <2>2, <3>1 DEF Durable, Position
    <3>2. CASE pc = "entries"
      BY <1>0, <2>2, <3>2 DEF Durable, Smaller, Core, WalShape, Persisted, IndexesOK,
                              Position
    <3>3. QED
      BY <3>1, <3>2
  <2>4. QED
    BY <2>1, <2>3
<1>6. CASE BootFinish
  <2>1. /\ walCommit \in Int /\ walHi \in Int /\ walCommit <= walHi
        /\ Durable = walCommit /\ Persisted = walCommit
    BY <1>0, <1>6 DEF BootFinish, Core, WalShape, Durable, Persisted, Smaller,
                      IndexesOK, Position
  <2>2. UNCHANGED <<walCommit, walHi>> /\ pc' # "entries"
    BY <1>6 DEF BootFinish, diskVars, walVars
  <2>3. Durable' = Durable
    BY <2>1, <2>2 DEF Durable, Smaller
  <2>4. \A i \in Index : i <= walCommit => log'[i] = log[i]
    <3>1. SUFFICES ASSUME NEW i \in Index, i <= walCommit PROVE log'[i] = log[i]
      OBVIOUS
    <3>2. i <= walHi
      BY <2>1, <3>1 DEF Index
    <3>3. walLo <= i => walEnt[i] = log[i]
      BY <2>1, <3>1 DEF Core, WalShape
    <3>4. CASE log' = log
      BY <3>4
    <3>5. CASE log' = [j \in Index |->
                         IF j > RecoveredLast THEN {}
                         ELSE IF ~WalEmpty /\ j >= walLo /\ j > LatestSnapshot
                              THEN walEnt[j] ELSE log[j]]
      BY <1>0, <2>1, <3>2, <3>3, <3>5 DEF Index, IndexesOK, Position
    <3>6. QED
      BY <1>6, <3>4, <3>5 DEF BootFinish, raftVars
  <2>5. QED
    BY <1>0, <2>1, <2>3, <2>4 DEF Position
<1>7. CASE UNCHANGED vars
  <2>1. Durable' = Durable /\ log' = log
    BY <1>7 DEF vars, raftVars, loopVars, diskVars, walVars, Durable, Smaller
  <2>2. QED
    BY <1>0, <2>1 DEF Position
<1>8. QED
  BY <1>1, <1>2, <1>3, <1>4, <1>5, <1>6, <1>7 DEF Next, LoopStep

LEMMA InitRefines == Init => Recoverable!Init
<1> SUFFICES ASSUME Init PROVE Recoverable!Init
  OBVIOUS
<1>1. TypeInv /\ Core /\ DataCore
  BY InitIInv, InitDataInv DEF IInv, DataInv, Init, Trusted, Unharmed
<1>2. Durable = 0
  BY DEF Init, Durable, Smaller
<1>3. /\ DurableIndex = 0 /\ RecoveredImage \in Images
      /\ \A k \in Keys : RecoveredImage[k] <= 0
  BY <1>1, <1>2, RecoveredIsExact DEF Exact
<1>4. RecoveredImage = [k \in Keys |-> 0]
  <2>1. \A k \in Keys : RecoveredImage[k] = 0
    BY <1>3 DEF Images, Position
  <2>2. DOMAIN RecoveredImage = Keys /\ RecoveredImage = [k \in Keys |-> RecoveredImage[k]]
    BY <1>3 DEF Images
  <2>3. QED
    BY <2>1, <2>2
<1>5. QED
  BY <1>3, <1>4 DEF Recoverable!Init

\* Every step extends the recovered prefix or leaves it as it is.
LEMMA StepRefines ==
  IInv /\ DataInv /\ Trusted' /\ [Next]_vars => [Recoverable!Next]_(Recoverable!vars)
<1> SUFFICES ASSUME IInv, DataInv, Trusted', [Next]_vars
             PROVE  [Recoverable!Next]_(Recoverable!vars)
  OBVIOUS
<1>1. TypeInv /\ TypeInv' /\ IInv' /\ DataInv'
  BY NextIInv, NextDataInv DEF IInv
<1>2. ~WalFails /\ ~TornCrash /\ Trusted
  BY <1>1, Counters DEF WalFails, TornCrash, Trusted
<1>3. Core /\ DataCore /\ Core' /\ DataCore'
  BY <1>1, <1>2 DEF IInv, DataInv, Trusted, Unharmed
<1>4. Exact /\ Exact'
  BY <1>1, <1>3, RecoveredIsExact, RecoveredIsExactNext
<1>5. /\ Durable <= Durable'
      /\ \A i \in Index : i <= Durable => log'[i] = log[i]
  BY <1>1, <1>2, <1>3, DurableGrows
<1>6. /\ Durable \in Position /\ Durable' \in Position /\ MaxIndex \in Nat
      /\ DurableIndex = Durable /\ DurableIndex' = Durable'
      /\ RecoveredImage \in Images /\ RecoveredImage' \in Images
  BY <1>4, ConstantsAssumption DEF Exact
<1>7. \A k \in Keys : \/ RecoveredImage'[k] = RecoveredImage[k]
                      \/ RecoveredImage'[k] \in Durable + 1 .. Durable'
  <2> HIDE DEF Durable, RecoveredImage
  <2>1. /\ \A k \in Keys : RecoveredImage[k] <= Durable
        /\ \A k \in Keys : RecoveredImage'[k] <= Durable'
        /\ Shows(RecoveredImage, Durable, log) /\ Shows(RecoveredImage', Durable', log')
    BY <1>4 DEF Exact
  <2>2. QED
    BY <1>5, <1>6, <2>1, ExactExtends
<1>8. CASE Durable' = Durable
  <2>1. \A k \in Keys : RecoveredImage'[k] = RecoveredImage[k]
    BY <1>6, <1>7, <1>8 DEF Position
  <2>2. RecoveredImage' = RecoveredImage
    BY <1>6, <2>1 DEF Images
  <2>3. QED
    BY <1>6, <1>8, <2>2 DEF Recoverable!vars
<1>9. CASE Durable < Durable'
  <2>1. Durable' \in 1 .. MaxIndex
    BY <1>6, <1>9 DEF Position
  <2>2. DOMAIN RecoveredImage' = Keys
    BY <1>6 DEF Images
  <2>3. Recoverable!Extend(Durable')
    BY <1>6, <1>7, <1>9, <2>2 DEF Recoverable!Extend
  <2>4. QED
    BY <2>1, <2>3 DEF Recoverable!Next
<1>10. QED
  BY <1>5, <1>6, <1>8, <1>9 DEF Position

\* A node in which no walStore.Append error was ignored and no crash hit the
\* window inside FileWAL.Append implements RecoverableState: whatever crashes and
\* restarts come between, what bootstrapStorage would rebuild keeps every write it
\* had and only takes newer ones.
THEOREM RecoverableWhileTrusted == Spec /\ []Trusted => RecoverableSpec
<1>1. IInv /\ DataInv /\ Trusted' /\ [Next]_vars => [Recoverable!Next]_(Recoverable!vars)
  BY StepRefines
<1>2. QED
  BY <1>1, InitRefines, SpecDataInv, PTL DEF Spec, RecoverableSpec, Recoverable!Spec

\* The same where neither mishap can happen, which is the instance TLC checks.
THEOREM RecoverableWithoutMishaps ==
  ASSUME MaxTornCrashes = 0, MaxWalFaults = 0
  PROVE  Spec => RecoverableSpec
<1>1. TypeOK => Trusted
  BY DEF TypeOK, Trusted
<1>2. QED
  BY <1>1, TypeCorrect, RecoverableWhileTrusted, PTL

=============================================================================
