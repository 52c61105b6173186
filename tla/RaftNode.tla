------------------------------ MODULE RaftNode ------------------------------
(***************************************************************************)
(* One stellmapd node: the loop that drains etcd raft's Ready batches      *)
(* (internal/raftnode/node.go, handleReady), the four pieces of storage it *)
(* writes (FileWAL, raft.MemoryStorage, PebbleStore, snapshot.FileStore),  *)
(* its log compaction (maybeTriggerSnapshot) and its restart               *)
(* (bootstrapStorage).                                                     *)
(*                                                                         *)
(* A log entry is the set of keys its command touches: a put or a delete   *)
(* touches one key, a delete_prefix several, and an election's empty entry *)
(* or a membership change none.  The business data of Pebble is the index  *)
(* of the entry that last touched each key (0: never touched), which is    *)
(* all that telling one state of the key space from another needs.         *)
(*                                                                         *)
(* etcd raft is external: it appends, overwrites the uncommitted tail,     *)
(* commits, and hands out at each Ready its unstable entries and a batch   *)
(* of committed ones.  What it does between a Ready and Advance only       *)
(* shows in the next Ready, so its steps are taken while the loop is idle. *)
(***************************************************************************)
EXTENDS Integers, FiniteSets

CONSTANTS
  Keys,             \* the business keys
  Commands,         \* the key sets that commands may touch
  MaxIndex,         \* bound: the longest log
  SnapshotEntries,  \* cfg.SnapshotEntries
  CompactRetain,    \* cfg.CompactRetainEntries
  KeepSnapshots,    \* cfg.KeepSnapshots
  DefaultKeep,      \* snapshot.defaultKeepSnapshots
  MaxCrashes,       \* bound: process crashes
  MaxTornCrashes,   \* bound: crashes between hardstate.bin and the entries
                    \* that it calls committed
  MaxWalFaults,     \* bound: walStore.Append calls that return an error
  MaxSnapFaults     \* bound: snapStore.Create calls that return an error

Index == 1 .. MaxIndex
Position == 0 .. MaxIndex

\* Config.Validate and Config.WithDefaults keep SnapshotEntries and
\* KeepSnapshots positive.
ASSUME ConstantsAssumption ==
  /\ Commands \subseteq SUBSET Keys
  /\ MaxIndex \in Nat
  /\ SnapshotEntries \in Nat \ {0}
  /\ CompactRetain \in Nat
  /\ KeepSnapshots \in Nat \ {0}
  /\ DefaultKeep \in Nat \ {0}
  /\ MaxCrashes \in Nat
  /\ MaxTornCrashes \in Nat
  /\ MaxWalFaults \in Nat
  /\ MaxSnapFaults \in Nat

-----------------------------------------------------------------------------
\* etcd raft's view of this node's log.

VARIABLES
  log,        \* entry at each index; {} beyond last.  Compacted entries are
              \* kept, as the history the properties compare with
  last,       \* last index of the raft log
  stable,     \* last index raft knows to be in MemoryStorage and the WAL
  committed,  \* raft's commit index
  applying    \* last committed index handed out and acknowledged by Advance

raftVars == <<log, last, stable, committed, applying>>

\* The Ready loop of this node.

VARIABLES
  pc,         \* what the loop does next
  cur,        \* last entry persisted ("entries") or applied ("apply", "replay")
  hi          \* last committed entry of the Ready in hand

loopVars == <<pc, cur, hi>>

\* Runtime storage and status: lost by a crash.

VARIABLES
  memFirst,      \* raft.MemoryStorage FirstIndex
  memSnap,       \* index of the snapshot MemoryStorage serves
  memCommit,     \* Commit of the HardState MemoryStorage holds
  statusApplied, \* Status.AppliedIndex
  statusCommit   \* Status.CommitIndex

memVars == <<memFirst, memSnap, memCommit, statusApplied, statusCommit>>

\* Durable state.

VARIABLES
  walCommit,  \* Commit of hardstate.bin
  walLo,      \* first index in the WAL segments
  walHi,      \* last index in the WAL segments; the WAL is empty when < walLo
  walEnt,     \* the entries of the WAL segments, {} outside walLo..walHi
  kv,         \* Pebble business data: key -> index of its last writer
  kvApplied,  \* Pebble __meta__ applied index
  snaps       \* published snapshot files: index -> exported business data

walVars == <<walCommit, walLo, walHi, walEnt>>
diskVars == <<walVars, kv, kvApplied, snaps>>

\* How often each kind of mishap has struck.

VARIABLES crashes, tornCrashes, walFaults, snapFaults

boundVars == <<crashes, tornCrashes, walFaults, snapFaults>>

vars == <<raftVars, loopVars, memVars, diskVars, boundVars>>

Steps == {"idle", "state", "entries", "apply", "snapshot", "compact",
          "cleanup", "advance", "down", "replay", "panicked"}

Images == [Keys -> Position]

TypeOK ==
  /\ log \in [Index -> SUBSET Keys]
  /\ last \in Position /\ stable \in Position
  /\ committed \in Position /\ applying \in Position
  /\ pc \in Steps /\ cur \in Position /\ hi \in Position
  /\ memFirst \in 1 .. MaxIndex + 1 /\ memSnap \in Position
  /\ memCommit \in Position
  /\ statusApplied \in Position /\ statusCommit \in Position
  /\ walCommit \in Position
  /\ walLo \in 1 .. MaxIndex + 1 /\ walHi \in Position
  /\ walEnt \in [Index -> SUBSET Keys]
  /\ kv \in Images /\ kvApplied \in Position
  /\ DOMAIN snaps \subseteq Index
  /\ snaps \in [DOMAIN snaps -> Images]
  /\ crashes \in 0 .. MaxCrashes
  /\ tornCrashes \in 0 .. MaxTornCrashes
  /\ walFaults \in 0 .. MaxWalFaults
  /\ snapFaults \in 0 .. MaxSnapFaults

-----------------------------------------------------------------------------
\* Helpers.

Smaller(a, b) == IF a <= b THEN a ELSE b

\* kvStore.Apply: the batch of one command rewrites the keys it touches.
Applied(image, ents, i) ==
  [k \in Keys |-> IF k \in ents[i] THEN i ELSE image[k]]

\* The newest .meta of the snapshot directory, 0 when there is none.
Newest(files) ==
  IF DOMAIN files = {} THEN 0
  ELSE CHOOSE s \in DOMAIN files : \A t \in DOMAIN files : t <= s

LatestSnapshot == Newest(snaps)

\* FileStore.Cleanup: only the newest "keep" snapshots stay.
Cleaned(files, keep) ==
  [s \in {t \in DOMAIN files :
            Cardinality({u \in DOMAIN files : u > t}) < keep} |-> files[s]]

WalEmpty == walHi < walLo

\* Mutant of TruncatedWal: the entry before "first" is kept too.
TruncatedWalOneLess(first) ==
  IF WalEmpty \/ first <= walLo
  THEN UNCHANGED <<walLo, walHi, walEnt>>
  ELSE /\ walEnt' = [i \in Index |-> IF i < first - 1 THEN {} ELSE walEnt[i]]
       /\ walLo' = first - 1 /\ UNCHANGED walHi

\* FileWAL.TruncatePrefix: entries from "first" on stay.
TruncatedWal(first) ==
  IF WalEmpty \/ first <= walLo
  THEN UNCHANGED <<walLo, walHi, walEnt>>
  ELSE /\ walEnt' = [i \in Index |-> IF i < first THEN {} ELSE walEnt[i]]
       /\ IF first > walHi
          THEN walLo' = 1 /\ walHi' = 0
          ELSE walLo' = first /\ UNCHANGED walHi

-----------------------------------------------------------------------------

Init ==
  /\ log = [i \in Index |-> {}]
  /\ last = 0 /\ stable = 0 /\ committed = 0 /\ applying = 0
  /\ pc = "idle" /\ cur = 0 /\ hi = 0
  /\ memFirst = 1 /\ memSnap = 0 /\ memCommit = 0
  /\ statusApplied = 0 /\ statusCommit = 0
  /\ walCommit = 0 /\ walLo = 1 /\ walHi = 0
  /\ walEnt = [i \in Index |-> {}]
  /\ kv = [k \in Keys |-> 0] /\ kvApplied = 0
  /\ snaps = [s \in {} |-> [k \in Keys |-> 0]]
  /\ crashes = 0 /\ tornCrashes = 0 /\ walFaults = 0 /\ snapFaults = 0

-----------------------------------------------------------------------------
\* etcd raft (external).

\* A new entry at the end of the log, or one of a newer leader that replaces
\* the uncommitted tail from index i on.
RaftAppend(i, entry) ==
  /\ pc = "idle"
  /\ i \in committed + 1 .. last + 1
  /\ i \in Index
  /\ log' = [j \in Index |-> IF j < i THEN log[j] ELSE IF j = i THEN entry ELSE {}]
  /\ last' = i
  /\ stable' = Smaller(stable, i - 1)
  /\ UNCHANGED <<committed, applying, loopVars, memVars, diskVars, boundVars>>

\* The commit index moves; on a follower it may cover entries that this node
\* has not persisted yet.
RaftCommit(i) ==
  /\ pc = "idle"
  /\ i \in committed + 1 .. last
  /\ committed' = i
  /\ UNCHANGED <<log, last, stable, applying, loopVars, memVars, diskVars,
                 boundVars>>

\* A Ready: the unstable entries, the HardState when its Commit moved, and the
\* committed entries up to i, a batch that MaxSizePerMsg may cut short.
RaftReady(i) ==
  /\ pc = "idle"
  /\ stable < last \/ memCommit # committed \/ applying < committed
  /\ i \in applying .. committed
  /\ applying < committed => applying < i
  /\ pc' = "state" /\ cur' = stable /\ hi' = i
  /\ UNCHANGED <<raftVars, memVars, diskVars, boundVars>>

-----------------------------------------------------------------------------
\* handleReady: walStore.Append.

\* Mutant of PersistState: hardstate.bin is left alone when there are no entries.
PersistStateWithEntries ==
  /\ pc = "state"
  /\ walCommit' = IF stable < last THEN committed ELSE walCommit
  /\ IF stable < last THEN pc' = "entries" /\ UNCHANGED cur
                      ELSE pc' = "apply" /\ cur' = applying
  /\ memCommit' = IF stable < last THEN memCommit ELSE committed
  /\ UNCHANGED <<raftVars, hi, memFirst, memSnap, statusApplied, statusCommit,
                 walLo, walHi, walEnt, kv, kvApplied, snaps, boundVars>>

\* hardstate.bin is replaced before any entry is written.
PersistState ==
  /\ pc = "state"
  /\ walCommit' = IF memCommit # committed \/ stable < last
                  THEN committed ELSE walCommit
  /\ IF stable < last THEN pc' = "entries" /\ UNCHANGED cur
                      ELSE pc' = "apply" /\ cur' = applying
  /\ memCommit' = IF stable < last THEN memCommit ELSE committed
  /\ UNCHANGED <<raftVars, hi, memFirst, memSnap, statusApplied, statusCommit,
                 walLo, walHi, walEnt, kv, kvApplied, snaps, boundVars>>

\* storage.Append and SetHardState, after the call whatever it returned.
EntriesDone ==
  /\ pc' = "apply" /\ cur' = applying
  /\ memCommit' = committed

\* appendEntriesIncremental: one fsynced record after the other.
WalAppendEntry ==
  /\ pc = "entries" /\ cur < last
  /\ WalEmpty \/ walHi = cur
  /\ walEnt' = [walEnt EXCEPT ![cur + 1] = log[cur + 1]]
  /\ walHi' = cur + 1
  /\ walLo' = IF WalEmpty THEN cur + 1 ELSE walLo
  /\ IF cur + 1 = last THEN EntriesDone
                       ELSE cur' = cur + 1 /\ UNCHANGED <<pc, memCommit>>
  /\ UNCHANGED <<raftVars, hi, memFirst, memSnap, statusApplied, statusCommit,
                 walCommit, kv, kvApplied, snaps, boundVars>>

\* Mutant of WalRewriteTail: only the first entry of the batch is merged.
WalRewriteTailShort ==
  /\ pc = "entries"
  /\ ~WalEmpty /\ cur < walHi
  /\ walEnt' = [i \in Index |-> IF i <= cur THEN walEnt[i]
                                ELSE IF i = cur + 1 THEN log[i] ELSE {}]
  /\ walHi' = cur + 1
  /\ walLo' = Smaller(walLo, cur + 1)
  /\ EntriesDone
  /\ UNCHANGED <<raftVars, hi, memFirst, memSnap, statusApplied, statusCommit,
                 walCommit, kv, kvApplied, snaps, boundVars>>

\* mergeEntries and rewriteTail: entries that overlap the tail replace it, and what
\* lies before the first segment they touch stays (wal.go:579-584).  It is one step
\* here: a crash between the files that rewriteTail removes and writes again is the
\* matter of FileWAL.
WalRewriteTail ==
  /\ pc = "entries"
  /\ ~WalEmpty /\ cur < walHi
  /\ walEnt' = [i \in Index |-> IF i <= cur THEN walEnt[i] ELSE log[i]]
  /\ walHi' = last
  /\ walLo' = Smaller(walLo, cur + 1)
  /\ EntriesDone
  /\ UNCHANGED <<raftVars, hi, memFirst, memSnap, statusApplied, statusCommit,
                 walCommit, kv, kvApplied, snaps, boundVars>>

\* Append refuses entries that leave a gap; handleReady ignores the error.
WalGapError ==
  /\ pc = "entries"
  /\ ~WalEmpty /\ walHi < cur
  /\ EntriesDone
  /\ UNCHANGED <<raftVars, hi, memFirst, memSnap, statusApplied, statusCommit,
                 diskVars, boundVars>>

\* An I/O error before hardstate.bin is replaced or before the first record is
\* written; handleReady ignores it too.  A record half written is the matter of
\* FileWAL.
WalFails ==
  /\ pc = "state" \/ (pc = "entries" /\ cur = stable)
  /\ memCommit # committed \/ stable < last
  /\ walFaults < MaxWalFaults
  /\ walFaults' = walFaults + 1
  /\ EntriesDone
  /\ UNCHANGED <<raftVars, hi, memFirst, memSnap, statusApplied, statusCommit,
                 diskVars, crashes, tornCrashes, snapFaults>>

-----------------------------------------------------------------------------
\* handleReady: applyCommittedEntries and updateStatus.

\* One committed entry; the command is one synced Pebble batch.
ApplyEntry ==
  /\ pc = "apply" /\ cur < hi
  /\ kv' = Applied(kv, log, cur + 1)
  /\ cur' = cur + 1
  /\ UNCHANGED <<raftVars, pc, hi, memVars, walVars, kvApplied, snaps, boundVars>>

\* Mutant of FinishApply: the commit index is reported as applied.
FinishApplyAtCommit ==
  /\ pc = "apply" /\ cur = hi
  /\ kvApplied' = IF applying < hi THEN hi ELSE kvApplied
  /\ statusApplied' = committed
  /\ statusCommit' = committed
  /\ pc' = "snapshot"
  /\ UNCHANGED <<raftVars, cur, hi, memFirst, memSnap, memCommit, walVars, kv,
                 snaps, boundVars>>

\* After the loop: the applied index of the batch, and the status.
FinishApply ==
  /\ pc = "apply" /\ cur = hi
  /\ kvApplied' = IF applying < hi THEN hi ELSE kvApplied
  /\ statusApplied' = IF applying < hi THEN hi ELSE statusApplied
  /\ statusCommit' = committed
  /\ pc' = "snapshot"
  /\ UNCHANGED <<raftVars, cur, hi, memFirst, memSnap, memCommit, walVars, kv,
                 snaps, boundVars>>

-----------------------------------------------------------------------------
\* handleReady: maybeTriggerSnapshot.

SnapshotDue == kvApplied > memSnap /\ kvApplied - memSnap >= SnapshotEntries

SkipSnapshot ==
  /\ pc = "snapshot" /\ ~SnapshotDue
  /\ pc' = "advance"
  /\ UNCHANGED <<raftVars, cur, hi, memVars, diskVars, boundVars>>

\* Mutants of CreateSnapshot: the file is named after the commit index;
\* MemoryStorage is not told of the snapshot.
CreateSnapshotAtCommit ==
  /\ pc = "snapshot" /\ SnapshotDue
  /\ memSnap' = kvApplied
  /\ snaps' = Cleaned([s \in DOMAIN snaps \cup {committed} |->
                         IF s = committed THEN kv ELSE snaps[s]], DefaultKeep)
  /\ pc' = "compact"
  /\ UNCHANGED <<raftVars, cur, hi, memFirst, memCommit, statusApplied,
                 statusCommit, walVars, kv, kvApplied, boundVars>>

CreateSnapshotFileOnly ==
  /\ pc = "snapshot" /\ SnapshotDue
  /\ snaps' = Cleaned([s \in DOMAIN snaps \cup {kvApplied} |->
                         IF s = kvApplied THEN kv ELSE snaps[s]], DefaultKeep)
  /\ pc' = "compact"
  /\ UNCHANGED <<raftVars, cur, hi, memFirst, memSnap, memCommit, statusApplied,
                 statusCommit, walVars, kv, kvApplied, boundVars>>

\* storage.CreateSnapshot, then snapStore.Create, whose last effect before its
\* own Cleanup is the rename that publishes the .meta file.
CreateSnapshot ==
  /\ pc = "snapshot" /\ SnapshotDue
  /\ memSnap' = kvApplied
  /\ snaps' = Cleaned([s \in DOMAIN snaps \cup {kvApplied} |->
                         IF s = kvApplied THEN kv ELSE snaps[s]], DefaultKeep)
  /\ pc' = "compact"
  /\ UNCHANGED <<raftVars, cur, hi, memFirst, memCommit, statusApplied,
                 statusCommit, walVars, kv, kvApplied, boundVars>>

\* Mutant of CreateSnapshotFails: the log is compacted all the same.
CreateSnapshotFailsOn ==
  /\ pc = "snapshot" /\ SnapshotDue
  /\ snapFaults < MaxSnapFaults
  /\ snapFaults' = snapFaults + 1
  /\ memSnap' = kvApplied
  /\ pc' = "compact"
  /\ UNCHANGED <<raftVars, cur, hi, memFirst, memCommit, statusApplied,
                 statusCommit, diskVars, crashes, tornCrashes, walFaults>>

\* snapStore.Create fails after storage.CreateSnapshot succeeded.
CreateSnapshotFails ==
  /\ pc = "snapshot" /\ SnapshotDue
  /\ snapFaults < MaxSnapFaults
  /\ snapFaults' = snapFaults + 1
  /\ memSnap' = kvApplied
  /\ pc' = "advance"
  /\ UNCHANGED <<raftVars, cur, hi, memFirst, memCommit, statusApplied,
                 statusCommit, diskVars, crashes, tornCrashes, walFaults>>

CompactIndex == IF CompactRetain > 0 /\ kvApplied > CompactRetain
                THEN kvApplied - CompactRetain ELSE kvApplied

\* storage.Compact and walStore.TruncatePrefix, unless MemoryStorage is
\* already compacted that far.
Compact ==
  /\ pc = "compact"
  /\ IF CompactIndex >= memFirst
     THEN /\ memFirst' = CompactIndex + 1
          /\ TruncatedWal(CompactIndex)
          /\ walCommit' = memCommit
     ELSE UNCHANGED <<memFirst, walVars>>
  /\ pc' = "cleanup"
  /\ UNCHANGED <<raftVars, cur, hi, memSnap, memCommit, statusApplied,
                 statusCommit, kv, kvApplied, snaps, boundVars>>

CleanupSnapshots ==
  /\ pc = "cleanup"
  /\ snaps' = Cleaned(snaps, KeepSnapshots)
  /\ pc' = "advance"
  /\ UNCHANGED <<raftVars, cur, hi, memVars, walVars, kv, kvApplied, boundVars>>

\* Mutant of Advance: the batch is not marked as applied.
AdvanceEntriesOnly ==
  /\ pc = "advance"
  /\ stable' = last
  /\ pc' = "idle" /\ cur' = 0 /\ hi' = 0
  /\ UNCHANGED <<log, last, committed, applying, memVars, diskVars, boundVars>>

\* raftNode.Advance: the entries are stable and the batch is applied.
Advance ==
  /\ pc = "advance"
  /\ stable' = last /\ applying' = hi
  /\ pc' = "idle" /\ cur' = 0 /\ hi' = 0
  /\ UNCHANGED <<log, last, committed, memVars, diskVars, boundVars>>

-----------------------------------------------------------------------------
\* Crash and restart.

\* hardstate.bin already calls entries committed that Append has yet to write.
CommitAheadOfEntries == pc = "entries" /\ cur < walCommit

\* Everything in memory is lost.
LoseMemory ==
  /\ pc' = "down" /\ cur' = 0 /\ hi' = 0
  /\ last' = 0 /\ stable' = 0 /\ committed' = 0 /\ applying' = 0
  /\ memFirst' = 1 /\ memSnap' = 0 /\ memCommit' = 0
  /\ statusApplied' = 0 /\ statusCommit' = 0
  /\ UNCHANGED <<log, diskVars, walFaults, snapFaults>>

\* The process dies between any two writes, those inside FileWAL.Append apart.
Crash ==
  /\ pc \notin {"down", "panicked"}
  /\ ~CommitAheadOfEntries
  /\ crashes < MaxCrashes
  /\ crashes' = crashes + 1
  /\ UNCHANGED tornCrashes
  /\ LoseMemory

\* The process dies inside FileWAL.Append, after persistState and before the
\* entries that the new Commit covers are written.
TornCrash ==
  /\ CommitAheadOfEntries
  /\ tornCrashes < MaxTornCrashes
  /\ tornCrashes' = tornCrashes + 1
  /\ UNCHANGED crashes
  /\ LoseMemory

\* The last index MemoryStorage holds once snapshot and WAL are loaded.
RecoveredLast == IF WalEmpty \/ walHi < LatestSnapshot
                 THEN LatestSnapshot ELSE walHi

\* MemoryStorage.Append panics when the WAL does not reach down to the snapshot.
WalReachesSnapshot == WalEmpty \/ walLo <= LatestSnapshot + 1

\* bootstrapStorage: the newest snapshot replaces the business data, and
\* snapshot and WAL are loaded into MemoryStorage.
BootRestore ==
  /\ pc = "down"
  /\ IF LatestSnapshot = 0 THEN UNCHANGED <<kv, kvApplied>>
     ELSE kv' = snaps[LatestSnapshot] /\ kvApplied' = LatestSnapshot
  /\ IF WalReachesSnapshot
     THEN /\ pc' = "replay" /\ cur' = LatestSnapshot
          /\ memFirst' = LatestSnapshot + 1
          /\ memSnap' = LatestSnapshot /\ memCommit' = walCommit
     ELSE pc' = "panicked" /\ UNCHANGED <<cur, memFirst, memSnap, memCommit>>
  /\ UNCHANGED <<raftVars, hi, statusApplied, statusCommit, walVars, snaps,
                 boundVars>>

\* Mutant of ReplayLast: uncommitted entries are applied too.
ReplayUncommitted == RecoveredLast

\* The last WAL entry that bootstrapStorage applies.
ReplayLast == Smaller(walCommit, RecoveredLast)

\* bootstrapStorage: a committed WAL entry after the snapshot is applied.
BootReplay ==
  /\ pc = "replay" /\ cur < ReplayLast
  /\ kv' = Applied(kv, walEnt, cur + 1)
  /\ kvApplied' = cur + 1 /\ cur' = cur + 1
  /\ UNCHANGED <<raftVars, pc, hi, memVars, walVars, snaps, boundVars>>

\* raft.RestartNode, told nothing of what is applied: committed entries are
\* handed out again from the snapshot on.  raft's loadState panics when the
\* persisted Commit is outside the log that was recovered.
BootFinish ==
  /\ pc = "replay" /\ cur >= ReplayLast
  /\ IF walCommit \in LatestSnapshot .. RecoveredLast
     THEN /\ log' = [i \in Index |->
                       IF i > RecoveredLast THEN {}
                       ELSE IF ~WalEmpty /\ i >= walLo /\ i > LatestSnapshot
                            THEN walEnt[i] ELSE log[i]]
          /\ last' = RecoveredLast /\ stable' = RecoveredLast
          /\ committed' = walCommit /\ applying' = LatestSnapshot
          /\ statusApplied' = walCommit /\ statusCommit' = walCommit
          /\ pc' = "idle"
     ELSE pc' = "panicked" /\ UNCHANGED <<raftVars, statusApplied, statusCommit>>
  /\ cur' = 0
  /\ UNCHANGED <<hi, memFirst, memSnap, memCommit, diskVars, boundVars>>

-----------------------------------------------------------------------------

\* The steps of the loop and of the restart, which the process takes by itself.
LoopStep ==
  \/ PersistState \/ WalAppendEntry \/ WalRewriteTail \/ WalGapError
  \/ ApplyEntry \/ FinishApply
  \/ SkipSnapshot \/ CreateSnapshot \/ Compact \/ CleanupSnapshots
  \/ Advance
  \/ BootReplay \/ BootFinish

Next ==
  \/ \E i \in Index, entry \in Commands : RaftAppend(i, entry)
  \/ \E i \in Index : RaftCommit(i)
  \/ \E i \in Position : RaftReady(i)
  \/ LoopStep
  \/ WalFails \/ CreateSnapshotFails
  \/ Crash \/ TornCrash \/ BootRestore

Spec == Init /\ [][Next]_vars

\* The run goroutine keeps receiving from raftNode.Ready() and finishes what it
\* receives; when the process is started again is up to its operator.
Fairness ==
  /\ WF_vars(\E i \in Position : RaftReady(i))
  /\ WF_vars(LoopStep)

FairSpec == Spec /\ Fairness

-----------------------------------------------------------------------------
\* Properties.

\* The image has, for every key, the last entry up to index n that touched it or
\* one that came later: replaying the log after n over it gives the same data as
\* replaying the whole log.
Reflects(image, n) ==
  \A k \in Keys :
    /\ image[k] # 0 => k \in log[image[k]]
    /\ \A i \in Index : image[k] < i /\ i <= n => k \notin log[i]

\* The entries that the WAL holds and that hardstate.bin calls committed.  Inside
\* FileWAL.Append those not yet written do not count.
DurableIndex == IF pc = "entries" THEN Smaller(walCommit, cur) ELSE ReplayLast

Up == pc \notin {"down", "replay", "panicked"}

\* No error of walStore.Append was ignored and no crash hit FileWAL.Append where
\* it is not safe.
Trusted == walFaults = 0 /\ tornCrashes = 0

\* An ignored error does no harm to the data before the next crash.
Unharmed == tornCrashes = 0 /\ (walFaults = 0 \/ crashes = 0)

\* Nothing is applied, exported or reported that a crash could take back: until
\* an error of walStore.Append is ignored, every write in Pebble, in a snapshot
\* file and in Status().AppliedIndex is covered by the log that a restart
\* replays (handleReady persists before it applies, node.go:613-623).
AppliedIsDurable ==
  Trusted =>
    /\ \A k \in Keys : kv[k] <= DurableIndex
    /\ \A s \in DOMAIN snaps, k \in Keys : snaps[s][k] <= DurableIndex
    /\ kvApplied <= DurableIndex /\ statusApplied <= DurableIndex

\* Compaction and snapshot cleanup never leave a hole: every durable entry after
\* the newest snapshot file is in the WAL, as raft agreed on it
\* (maybeTriggerSnapshot publishes the snapshot before it truncates,
\* node.go:1020-1050).
RecoveryHasNoHole ==
  Trusted =>
    \A i \in Index :
      LatestSnapshot < i /\ i <= DurableIndex =>
        walLo <= i /\ i <= walHi /\ walEnt[i] = log[i]

\* A snapshot taken at any moment, the redelivery after a restart included, has
\* every write up to its index (maybeTriggerSnapshot exports Pebble at the
\* applied index it read, node.go:989-1012).
SnapshotsReflectTheirIndex ==
  Unharmed => \A s \in DOMAIN snaps : Reflects(snaps[s], s)

\* When raft has nothing left to hand out, Pebble is exactly the committed log:
\* the entries that a restart applies twice, once in bootstrapStorage and once
\* when raft hands them out again, leave no trace (node.go:946-960, 664-708).
CaughtUpIsExact ==
  Unharmed /\ pc = "idle" /\ applying = committed =>
    Reflects(kv, committed) /\ \A k \in Keys : kv[k] <= committed

\* Status().AppliedIndex, which LinearizableRead trusts, never runs ahead of the
\* data, except while the first batch after a restart is handed out again.  No
\* ReadState can have been delivered by then.
StatusIsHonest ==
  Unharmed /\ Up /\ ~(pc = "apply" /\ applying < statusApplied) =>
    Reflects(kv, statusApplied)

\* What raft.MemoryStorage no longer holds can be sent as a snapshot, and raft
\* still finds there every entry it has yet to hand out (node.go:1034-1046).
CompactedIsServed ==
  Unharmed /\ Up =>
    /\ memFirst <= memSnap + 1
    /\ memFirst <= (IF pc \in {"snapshot", "compact", "cleanup", "advance"}
                    THEN hi ELSE applying) + 1

\* A snapshot reclaims the log: with fewer retained entries than a snapshot
\* interval, no more than the retained entries stay behind the applied index, also
\* when the first index of MemoryStorage was reset by a restart and earlier
\* truncations were lost to crashes (maybeTriggerSnapshot, node.go:1034-1050).
CompactionReclaims ==
  Trusted /\ pc = "cleanup" /\ CompactRetain < SnapshotEntries =>
    kvApplied - walLo <= CompactRetain

\* A node that crashes starts again (wal.go:34-35, the WAL can "recover after a
\* crash").
RestartNeverPanics == Trusted => pc # "panicked"

\* Every entry that raft calls committed is handed out and applied, unless the
\* node goes down (run and handleReady, node.go:549-560, 601-628).
CommittedIsApplied ==
  \A i \in Index : committed >= i ~> (applying >= i \/ ~Up)

-----------------------------------------------------------------------------
\* What the node promises about a restart, as RecoverableState states it.

\* The data that bootstrapStorage would rebuild from the disk as it is.
RecoveredImage ==
  LET base == IF LatestSnapshot = 0 THEN kv ELSE snaps[LatestSnapshot]
      writers(k) == {i \in LatestSnapshot + 1 .. DurableIndex : k \in walEnt[i]}
  IN [k \in Keys |->
        IF writers(k) = {} THEN base[k]
        ELSE CHOOSE i \in writers(k) : \A j \in writers(k) : j <= i]

Recoverable == INSTANCE RecoverableState
                 WITH durable <- DurableIndex, image <- RecoveredImage

\* The node implements the abstract specification: crash where it may, what a
\* restart rebuilds only ever gains the writes of newer entries.
RecoverableSpec == Recoverable!Spec

=============================================================================
