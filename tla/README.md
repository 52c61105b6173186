# stellmap in TLA+

stellmap is a service registry. Each node keeps the instances of services in a
Pebble store that etcd raft replicates, serves linearizable reads, streams changes
to watchers, removes instances whose lease has expired, and copies services from
other regions. This directory holds TLA+ specifications of that code, the TLC
configurations that check them on small instances, and proofs that TLAPS checks
for every value of the constants. Paths are relative to the repository.

    tlc -workers 2 -config MCRaftNode_crash.cfg MCRaftNode
    tlapm RaftNodeProofs.tla

`PROJECT.json` lists the components, the runs, a mutant of the code for every
property, the source lines behind every definition, the hazards and the findings.

## The system

### Components, their state and what they do

**Raft node** (`internal/raftnode/node.go`, `config.go`). One goroutine (`run`)
receives Ready batches from etcd raft and calls `handleReady`: persist HardState and
entries in the WAL, append them to `raft.MemoryStorage`, apply the committed entries
to Pebble, publish the status, perhaps take a snapshot and compact, `Advance`, emit
the batch on `readyCh`. `bootstrapStorage` rebuilds all of it at a start. State:
`MemoryStorage`, the status, the waiters of ReadIndex in memory; WAL, Pebble and
snapshot files on disk. Hard: a crash between any two writes, four stores that must
stay consistent, redelivery after a restart, ignored errors. Correct when: nothing
is applied or exported that a restart could take back, compaction loses no entry, a
node that crashed starts again with the same data.

**Read barrier** (`node.go` `ReadIndex`, `handleReadStates`, `removeWaiter`;
`service.go` `LinearizableRead`, `Get`, `Scan`). Each call registers a channel under
its request context, asks raft for a read index and polls the status until that
index is applied. State: the map of waiters, one channel per call. Hard: calls that
share a context, timeouts, `Stop`, a run loop that sends under the lock. Correct
when: a read returns nothing older than its start, every call returns, and the run
loop never blocks.

**Write-ahead log** (`internal/wal`). `hardstate.bin` and segment files of records,
with the entries mirrored in memory. `Append`, `rewriteTail` on conflict,
`TruncatePrefix` on compaction, `Open`. Hard: crashes between file operations, a
record half written, I/O errors after which memory and disk differ. Correct when:
what `Append` acknowledged is read back, and `Open` succeeds after every crash.

**Snapshot store** (`internal/snapshot`). A data file and a `.meta` file per
snapshot, published by rename; `Create`, `OpenLatest`, `Install`, `Cleanup`. Correct
when: the newest `.meta` always has a whole data file.

**State machine** (`internal/storage/pebble.go`). Business keys, member addresses
and `__meta__` (applied index and term). One synced batch per command, a snapshot
export and a restore. Correct when: a snapshot has exactly what was applied.

**Snapshot installation** (`service.go` `InstallSnapshot`,
`internal/runtime/transport_service.go`, `peer_transport.go`). A leader sends a
snapshot in chunks over gRPC; the receiver gathers them in a session and installs
the result in the gRPC goroutine, beside the run loop. Hard: installation while
entries are applied, transfers that break off, retries, failure reports that raft
waits for. Correct when: the state after installation is that of the snapshot or
newer, and a follower that lags always catches up.

**Watch hub and watch streams** (`internal/registry/watch.go`,
`internal/app/app.go` `forwardReadyLoop` and `publishRegistryEvents`,
`internal/transport/http/handlers_impl.go` `WatchInstances`, `WatchReplication`).
The hub keeps a window of events and a channel per watcher; a stream starts from a
snapshot or from replayed history and goes on with live events. Hard: publishing
outside the lock, slow watchers, the moment between subscription, snapshot and live
events, a full `readyCh`. Correct when: a stream that is told revision r was told
every event it is owed up to r, or it is ended.

**Registry handlers and lease cleanup** (`handlers_impl.go` `Register`, `Heartbeat`,
`Deregister`; `app.go` `CleanupExpiredRegistry`; `internal/registry/cleanup.go`).
Writes are proposed on the leader; `Heartbeat` is a read, a change and a proposal of
the whole value; the cleanup scans a page, then proposes deletes. State: the
instance values and the cleanup cursor. Queries, watch snapshots and Prometheus
discovery read the same values. Hard: all of them interleave on one key, and a write is
answered before it is committed. Correct when: the cleanup removes no live instance on
a right judgement of it, passes over none, and what a query shows is what was asked.

**Cross-region replication** (`internal/app/replication.go`,
`internal/registry/replication.go`, `internal/replication/tracker.go`). The leader
follows the replication watch of another region and proposes what it sees, with a
checkpoint after each event. Hard: a snapshot that takes several commands, a former
leader whose stream goes on. Correct when: the copy at checkpoint r is the source at
r.

**Membership and address book** (`app.go` `applyConfChangeContext`,
`restorePersistedMemberAddresses`, `persistCurrentAddressBook`;
`internal/runtime/address_book.go`). Correct when: book and Pebble agree, and a
restart restores what was committed.

**Query matching** (`internal/registry/model.go`, `selector.go`). Pure functions from
the parameters of a request to a predicate on instances. Hard: a service has a name and
five dimensions that must agree, a scan that is narrowed by one reading of the query
and filtered by another. Correct when: both forms name the same instances.

**Peer transport, lifecycle, metrics, logging, configuration, CLI, generated code.**
No state on which the properties above rest, or lossy by design.

### How they interact

    HTTP handlers --propose--> etcd raft --Ready--> handleReady --> WAL, MemoryStorage, Pebble
         |                        ^                     |-- snapshots, compaction
         | Get/Scan/Watch         | Step                |-- readyCh --> forwardReadyLoop
         v                        |                                        |-- PeerTransport.Forward
    read barrier <--ReadStates----+                                        |-- WatchHub --> streams
         |                                                                 |-- membership
    status.AppliedIndex, Pebble                 gRPC --> InstallSnapshot --> all four stores

The run goroutine, the forward goroutine, one goroutine per request or stream, the
cleanup, the replication and the gRPC goroutines run concurrently. They share the
status (`mu`), the waiters (`waitersMu`), the hub (`mu`) and the stores.

## The modules

| module | what it is |
|---|---|
| `RaftNode` | the Ready loop, the stores, compaction and restart of one node |
| `RecoverableState` | abstract: what a node promises of the data a restart rebuilds |
| `ReadBarrier` | ReadIndex, its waiters and LinearizableRead |
| `FileWAL` | segment files and `hardstate.bin`, write by write |
| `SnapshotInstall` | chunk streams, the snapshot store's files, InstallSnapshot beside the run loop |
| `WatchHub` | readyCh, the hub and the watch streams |
| `RegistryLease` | Register, Heartbeat, Deregister and the lease cleanup over raft |
| `ServiceMatch` | names, endpoints, queries and selectors as operators; no state |
| `RegistryView` | what queries, a watcher and Prometheus see; extends `ServiceMatch` |
| `Replication` | the replication of one remote service, command by command |
| `Membership` | address book, clients and persisted addresses under member changes |
| `*Proofs` | theorems about `RaftNode`, `FileWAL`, `SnapshotInstall`, `WatchHub`, `RegistryLease`, `Replication`, `Membership`; `RegistryReadProofs` about `ReadBarrier` and `RegistryView`, the barrier of a read and what is read behind it |
| `MC*` | model values and definitions for TLC |

Modules meet at what one promises and the next assumes. `RaftNode` takes an `Append` of
the WAL as the writes that `FileWAL` splits into files; `SnapshotInstall` takes the run
loop at the grain its interleaving with an installation needs and leaves the rest to
`RaftNode`. `RegistryLease` and `Replication` read the committed store at once, which is
what `ReadBarrier` shows of a linearizable read. `RegistryView` gives its watcher every
event, which is what `WatchHub` shows of a stream that is not ended.

### RaftNode

`pc` is the place of the run goroutine inside `handleReady`, and every write to a
store is an action of its own, so a crash may come between any two.

| code | model |
|---|---|
| etcd raft's log, commit index, Advance state | `log`, `last`, `stable`, `committed`, `applying`; `RaftAppend`, `RaftCommit`, `RaftReady` (external) |
| `walStore.Append`: `persistState`, then records, or `rewriteTail`, or the gap error | `PersistState`, `WalAppendEntry`, `WalRewriteTail`, `WalGapError`; `WalFails` for an I/O error, which `handleReady` ignores |
| `applyCommittedEntries`, `updateStatus` | `ApplyEntry` per command, `FinishApply` |
| `maybeTriggerSnapshot` | `SkipSnapshot`, `CreateSnapshot`, `CreateSnapshotFails`, `Compact`, `CleanupSnapshots` |
| `Advance` | `Advance` |
| crash | `Crash`; `TornCrash` between `hardstate.bin` and the entries that it calls committed |
| `bootstrapStorage`, `raft.RestartNode` | `BootRestore`, `BootReplay`, `BootFinish`, which panic where raft does |

An entry is the set of keys that its command touches (a put one, a `delete_prefix`
several, an election's entry none) and Pebble is the index of the last writer of each
key: two states of the business data differ only if these do. The crash inside
`FileWAL.Append` is an action apart because the properties that hold without it and
those that fail with it are different statements: `Trusted` names the difference.

The refinement `RecoverableSpec` maps the node to `RecoverableState`: `durable` is
the last index a restart would replay to, `image` the data it would rebuild. Every
step, a crash included, leaves the image alone or extends it by newer entries.

### ReadBarrier

A reader is a call; `CtxOf` says which calls share a context, as two `Get`s of one key
do. `Register`, `Ask`, `Receive` and `GiveUp` are the steps of `ReadIndex`,
`HandleReadState` is `handleReadStates`, `Served` and `GiveUpPolling` end
`LinearizableRead`. A channel is its buffer and whether it is open; a receive from a
closed, empty one gives 0, as in Go. Raft notes one commit index per context until a
quorum confirms it, and may lose requests (`Drop`).

### FileWAL

`files` maps a segment's number to the whole records written to it, `state` is
`hardstate.bin`, of which only the Term counts; `term`, `entries` and `segments` are the
fields of `FileWAL`. A file is a sequence, the order in which its records are read back;
the slices in memory are sets, since their order is that of the indices and numbers they
hold. An operation holds the lock, so only its writes are actions: `AppendBegin` replaces
the state and chooses between `AppendNext`, `AppendGap` and `AppendOverlap`;
`CreateSegment` and `AppendRecord` are the loop of `appendEntriesIncremental`; `RemoveFile`
is one `os.Remove` of `rewriteTail` or of `TruncatePrefix`, `RewriteTail` and
`TruncateFinish` are what follows.

Any call of the file system may return an error: `PersistState` in each operation (`ok`),
`WriteFails` in `createSegment`, `fileSize` and `appendRecord`, `ReplaceFails` in
`os.Remove` and `rewriteSegmentFile`. What was written stays, and the memory does not
know. `Crash` may come anywhere. Either leaves a record whole, cut short in its payload
(`half`) or cut short in its length (`stub`), which nobody takes back: `readSegment`
refuses the first, so that `Open` fails (`Readable`), and breaks off at the second. The
next record is written behind what is there, into the file that the memory takes for the
last; behind a stub it turns the file into one that cannot be read.

`raftLast` keeps the inputs to those etcd raft would give. `mirror` and `mirrorState` are
what `MemoryWAL` holds after the same calls. `exposed` and `lost` are history: the first
index that `rewriteTail` has removed and not written, and the indices of segments that
were gone when the removal of another one failed.

### SnapshotInstall

| code | model |
|---|---|
| `sendSnapshot`, `Server.Install`, `InstallSnapshotChunk` | `OpenStream`, `ReceiveChunk`, `RefuseChunk` (wrong offset), `BreakStream`; `session` is the map `install` |
| `FileStore.Create`, which `Install` and `maybeTriggerSnapshot` call | `OpenTmp`, `WriteTmp`, `RenameTmp` or `RenameFails`, `WriteMeta`, then `Sweep` and `Unlink` of `Cleanup`, per writer, without a lock |
| `InstallSnapshot` | `RestoreData`, `ApplyToStorage`, `SetIndex`, `TruncateWal` |
| `handleReady`, `maybeTriggerSnapshot` | `Advance`, `SkipExport`, `Export`, `CompactWal` |
| crash, `bootstrapStorage` | `Crash`, `Restart` |

Data are the set of entries whose effects are in them and the one applied last, so what an
older snapshot takes away stays away until raft hands it out again, and an export under an
index may lack entries before it. `setBack` is history: Pebble lacks entries that raft
will not hand out again; `hollow` are the keys exported from such data. A snapshot's bytes
are chunks marked with their sender, the data and their place, so a mixture of two
senders, or a cut one, is a value of its own. Two writers of
one snapshot share `*.snap.tmp` and a descriptor follows its file through the rename
(`fd`), as on a file system.

### WatchHub

An event is its revision. `Apply` is the apply loop with `emitReady`, which drops a
batch when `readyCh` is full; `PublishBegin`, `PublishSend`, `PublishSent` and
`PublishClose` are `Publish` with its two critical sections and the sends between
them; `Subscribe`, `SnapshotRevision`, `SnapshotScan`, `Receive`, `Drained` and
`Unsubscribe` are a stream. `Subscribe` is one action because everything that
`WatchInstances` does between `SubscribeSince` and the read barrier is local to the
stream. `base` and `got` are history variables: what the client is owed and what it
was told.

### RegistryLease

`store` is what is committed and applied, `tail` what raft accepted and has not
committed; `ChangeLeader` cuts `tail` anywhere and `believes` holds the nodes that have
not heard of it. A handler answers when its command is in `tail`. `Register` and
`Deregister` are one action each, `Heartbeat` is `HeartbeatRead` and `HeartbeatWrite`,
with everything possible in between. A round of `CleanupExpiredRegistry` is
`CleanupScan`, which moves the cursor, and one `CleanupItem` per scanned value;
`CleanupEnds` when the node no longer leads or a proposal fails. A command carries what
its author had read (`base`), so that a removal can be compared with the judgement behind
it. `behind` and `present` are histories of the cursor.

### ServiceMatch and RegistryView

`ServiceMatch` is a sequence of operators, each for a function of `model.go` or
`selector.go`: a name is the sequence of its parts, a selector the sequence of its
tokens. `RegistryView` holds the store, a replicated store, a clock and one watcher; its
actions are the handlers without raft, and `QueryInstances`, `Targets`, `Told` and
`Forgotten` are what the readers get. The reference of the properties is `Wanted`, which
says from the raw request what an instance must be, without the parser's detours, and
takes a prefix as the repository's documentation does: the name itself, or what begins
with it and a dot (`IsPrefix`). The code goes by the text (`HasPrefix`);
`PrefixesAreWhole` says that no name is there on which the two differ. What was replicated
comes without dimensions.

### Replication

The source is the sequence of its events and the first revision its hub still holds;
the value of an instance is the revision that wrote it. `Check` is the test of the
leadership, `OpenStream` reads the checkpoint, `ReceiveSnapshot` and `ReceiveEvent` turn
what arrives into `todo`, the commands to propose, and `Send` proposes one. Between any
two the leader may change, losing the end of `tail`, the stream may fail or the process
restart; the source may restart with an empty window. The loop never checks its
leadership again, so two streams may feed one log. `excused` records that what follows is
beyond what the code promises, in the words of the comment at `CheckpointIsCovered`.

### Membership

One node, with the committed member changes as a sequence. `LoopBook`, `LoopReset` and
`LoopPersist` are the three writes of `applyConfChangeContext`; `AddLearner`,
`AddLearnerReset` and `AddLearnerPropose` the handler beside them; `SkipChange` a batch
dropped by `emitReady`; `Connect` the creation of a client. A request may come without an
address, which is what the flags of `stellmapctl` default to: `AddressBook.Set` then keeps
what it has, and Pebble gets an empty address.

`image` is the set of addresses in the node's newest snapshot. `Compact` takes it from
Pebble in the run loop, before `forwardReadyLoop` sees the batch, so it may lack changes
that the snapshot covers; `InstallSnapshot` brings a peer's, which may lack some too.
`Start` first puts the image in the place of what is in Pebble (`Restored`), as
`bootstrapStorage` does, then fills the book from it (`Started`); raft hands out the
changes after the snapshot. `StopBegin`, `StopList`, `StopWrite` and `StopEnd` are `Stop`
with `persistCurrentAddressBook` while the loop still runs. `strayBook`, `strayDisk` and
`strayImage` are histories of the members whose address in the book, in Pebble or in the
snapshot need not be what the log says.

## What the runs check

| run | distinct states | properties |
|---|---|---|
| `node_crash` | 894k | `AppliedIsDurable`, `CaughtUpIsExact`, `StatusIsHonest`, `CompactionReclaims`, `RestartNeverPanics`, `RecoverableSpec` |
| `node_faults` | 1.07M | `RecoveryHasNoHole`, `SnapshotsReflectTheirIndex`, `CompactedIsServed`, `CommittedIsApplied` |
| `read_calls` | 270k | `WaitersAreLive`, `ReadsAreFresh`, `IndexIsAnswered`, `CallsReturn` |
| `read_same_stale` | violation | `AnsweredReadsAreFresh` |
| `wal_files` | 2.51M | `TypeOK`, `AckedSurvive`, `LoadIsContiguous`, `StateCoversEntries`, `SegmentsMatchFiles`, `MirrorsMemoryWAL` |
| `install_transfer` | 1.76M | `OneSenderPerSnapshot`, `LatestIsWhole`, `RecoveryHasNoHole`, `NewestOnlyAdvances` |
| `watch_stream` | 130k | `TypeOK`, `NoGap`, `OwedIsOnItsWay`, `EventsReachStreams` |
| `lease_cleanup` | 765k | `PassSkipsNothing`, `RemovalIsJustified`, `ExpiredIsRemoved` |
| `replication_stream` | 784k | `TypeOK`, `CheckpointIsCovered`, `ReplicaConverges` |
| `registry_query` | 6k | `QueryAnswersRequest`, `WatchFollowsQuery`, `EitherFormReaches`, `ScrapedIsQueried` |
| `query_names` | violation | `EveryNameIsAnswered` |
| `membership_book` | 5.66M | `ClientMatchesBook`, `BookFollowsLog` |

* `node_crash`: what is applied, exported or reported is durable, redelivery after a
  restart is harmless, compaction keeps up and the node always starts again.
* `node_faults`: with writes that fail and crashes inside `Append`, compaction loses no
  entry, what was compacted is in a snapshot that can be served, and every committed entry
  is applied unless the node goes down.
* `read_calls`: shared contexts, lost requests, timeouts and a stopping node never make
  the run loop block or close a channel twice, and a read with a context of its own is
  fresh and returns. `read_same_stale` is the finding below.
* `wal_files`: acknowledged entries stay readable wherever the files do, a restart finds
  one log, and between calls memory, files and `MemoryWAL` agree, but for a HardState that
  `MemoryWAL` forgets.
* `install_transfer`: what is installed is one peer's snapshot, the newest one never gets
  older and is whole, with the data of its index, and recovery has no hole, beside the run
  loop's own exports; of a snapshot exported from data that a peer's older one had set
  back nothing is claimed.
* `watch_stream`: no stream has a gap, what it is owed is on its way, and arrives or the
  stream is ended.
* `lease_cleanup`: the cursor passes over no instance, a live one is not removed on a right
  judgement of it, and what expires is removed, across a change of leader.
* `replication_stream`: a checkpoint skips nothing and the replica ends up equal to the
  source, as long as one stream has the log to itself.
* `registry_query`: every answer, watch view and scrape target is what the request asked
  for, whichever way the service is named, where no name begins with the text of a prefix
  alone. `query_names` is the second finding below.
* `membership_book`: no client dials an address that the book has dropped, and a node that
  has heard every change knows the address of every member that did not go astray.

### Bounds

* `node_crash`: four entries, two keys, commands that touch one key or both, a
  snapshot every two entries with one retained behind it, one snapshot kept, one
  crash. Four entries give two snapshots, hence one that is superseded, and a
  truncation after a truncation; two keys separate a `delete_prefix` from a put. A
  property of a restart needs one crash: the state after it is an ordinary state.
* `node_faults`: three entries, a snapshot after every entry and nothing retained
  behind it, so every compaction is at its tightest; one fault of each kind and one
  crash of each kind. Commands touch one key or none, which keeps the liveness check
  small; the run above has the commands that tell keys apart.
* `read_calls`: three calls, two with the same context, which is the least that shows
  one call disturbed by two others that disturb each other. Two commits tell a fresh
  index from a stale one. `read_same_stale` needs two calls.
* `watch_stream`: two streams, three revisions, a window of one, channels of one: each
  buffer overflows, the window is cut, and a request may ask for a revision whose
  successor has left it. `ReadyBuffer` equals the length of the log, so no batch is
  dropped. The constraint `S2AsksForNothing` lets the first request be any and makes the
  second a plain live watcher, there to be published to beside it: streams meet in
  `Publish` alone. It cuts off no action under fairness. The two invariants are proved
  for any requests and any bounds.
* `wal_files`: five entries in segments of two records, batches of up to two, three
  terms: three segments, a batch that crosses a boundary, a tail overwritten in the
  first, a middle or the last segment, a truncation inside one. One failed
  call and one record cut short, two crashes, in any order and place: a write that fails,
  further ones behind what it left, then a restart, and one after it.
* `install_transfer`: two streams of two chunks from two peers that open twice, a log
  of four with a snapshot every two: an older and a newer snapshot, a stream that finds
  the remains of another, two writers of one snapshot; one snapshot kept.
* `lease_cleanup`: two nodes, two instances, a scan of one at a time, so that the cursor
  stops between them and a full pass takes three rounds; three seconds and leases of one;
  two commands under way, one change of leader, one failure.
* `replication_stream`: two nodes, two instances, two revisions with a window of one, two
  commands under way, one change, one failure, one restart of the source: a snapshot and
  an event, a window that no longer reaches back, two streams at a time. The constraint
  `NotAstray` leaves out what follows after `excused`, of which no property speaks.
* `registry_query`: service names of two dimensions, one part that begins another's text
  (so that `PrefixesAreWhole` fails in some states), seven registrations, of which three are refused and two meet in one key, and nineteen
  requests that between them use every filter, every selector operator and the refusals
  of the parser. `query_names` asks for two names at once.
* `membership_book`: two members, one of them in the configuration, two addresses,
  requests with an address and without, two changes, one request for a learner, two
  dropped batches or installed snapshots, one end of the process, a crash or a stop, and
  the start after it.
  Two changes are the least of which one can be in a snapshot and the other not, or one
  told and the other without an address.

The bounds on crashes, faults, failures and changes (`MaxCrashes`, `MaxTornCrashes`,
`MaxWalFaults`, `MaxSnapFaults`, `MaxFaults`, `MaxHalf`, `MaxFailures`, `MaxChanges`,
`MaxDrops`, `MaxGaps`, `MaxEnds`, `MaxRestarts`), on logs (`MaxIndex`, `MaxRevision`,
`MaxRev`, `MaxLog`, `MaxTail`, `MaxCommit`), on requests (`MaxCalls`, `MaxRequests`,
`MaxOpens`) and on the clock (`MaxTime`) are guards of the actions. The runs do not
check for deadlock: at the end of a bounded log all calls have returned, and a panicked
process stands still.

### Fairness

* `RaftNode`: weak fairness of receiving a Ready and of the steps of the loop. The
  run goroutine does nothing else (`node.go:541-561`), and the loop's steps wait for
  no one. No crash, fault or step of raft is fair, and the start of a process that is
  down is not either.
* `ReadBarrier`: the apply loop, raft's quorum, the run loop and the goroutine of each
  call. A caller is never assumed to give up, for a request need not have a deadline;
  a call whose node has stopped does see `stopCh`. `CallsReturn` is stated for runs in
  which raft loses no request: nothing in the code asks again, so a lost request
  leaves a call without a deadline waiting. Of calls with a shared context it says
  nothing, since the later one replaces the earlier one's waiter.
* `WatchHub`: `forwardReadyLoop`, which assumes that `Forward` returns, and the
  goroutine of each stream. No stream is assumed to be fast.
* `RegistryLease`: the leader's log is committed, a former leader hears of the new one,
  and the ticker of `cleanupExpiredRegistryLoop` fires. No request, no tick of the clock
  and no change of leader is fair.
* `Replication`: the same of raft; `replicateServiceLoop` begins again after every end of
  a stream (`replication.go:97-128`), and a stream's events arrive while it is open.

`FileWAL`, `SnapshotInstall`, `RegistryView` and `Membership` state safety only: the
calls come from outside, and a broken transfer makes no progress in the code either.

### Findings

`read_same_stale`: `Get` uses the key as the ReadIndex context, so reads of one key share
it; the later one may be answered with the earlier one's index, which is older than its
own start. The repository's `README.md:100` demands that all reads be linearizable.

`query_names`: of several `service` parameters only the first is answered.
`MatchServiceQuery` (`model.go:531`) wants the service to be `query.Service`, which
`ParseQuery` takes from the first parameter, before it looks into `query.Services`; the
repository's `README.md:798` says that `service` may be repeated. The other properties of
queries therefore speak of requests of at most one name.

### Known disagreements

Seen while modelling, where the code does not do what its documents say. The properties
above are stated so that they hold beside them; each exception is in a property's
comment.

* `wal.go:153`: `FileWAL.Append` replaces `hardstate.bin` before it writes the entries
  that the new Commit covers. A crash in between leaves a Commit beyond the log, on
  which raft panics at every start, or has an entry applied that was never committed.
* `wal.go:396-411`: a record cut short in its payload makes `Open` fail; nothing cuts it
  off. One cut short in its length is read over, and not cut off either: the next record
  goes behind it (`wal.go:518`), and the next `Open` takes its first bytes for the rest of
  the length.
* `wal.go:488-520`: after a write that failed in the middle of a batch, the file holds
  records that memory does not, and the next `Append` writes them again behind. If the
  write left half a record, the next ones, acknowledged, become its payload: they cannot be
  read back.
* `wal.go:568`: when the removal of a segment fails in `rewriteTail`, those before it are
  gone, while memory, and the caller, still have their entries.
* `memory.go:58`: `MemoryWAL` takes over an empty HardState, which raft hands out when its
  state has not changed, and so forgets the last one, where `wal.go:150-152` keeps it;
  `memory.go:11-20` says that the two are aligned so that one can stand in for the other.
* `wal.go:566`: `rewriteTail` removes segments before it writes them again; a crash in
  between loses acknowledged entries before the overlap too.
* `node.go:614`: the error of `walStore.Append` is discarded and the batch applied.
* `node.go:946`: after a restart `AppliedIndex` names entries while the data are taken
  through older states again. It is harmless to linearizable reads, because no ReadState
  can arrive before the first batch is through (`StatusIsHonest`).
* `node.go:726`: a timeout of a read closes the channel of another read of the same key,
  which then goes on with index 0.
* `node.go:635`: a batch dropped by `emitReady` is missing from the streams and from a
  history window that is still called exact; its member changes reach no address book.
* `watch.go:95`: a stream that unsubscribes during `Publish` makes it send on a closed
  channel, which ends the process.
* `service.go:213`, `service.go:222`: an installation overwrites Pebble before
  `ErrSnapOutOfDate` says that the snapshot is old, and leaves HardState.Commit behind
  the snapshot it truncates the WAL to, which raft refuses at the next start.
* `service.go:200` beside `node.go:989-1050`: when that older snapshot is restored while
  the run loop goes on, the next export is labelled with the loop's applied index, and
  lacks the entries between; the WAL is then cut on that label, and those entries are
  nowhere.
* `transport_service.go:65`: a transfer that broke off leaves its bytes, so every retry
  of that snapshot is refused until the process restarts; `peer_transport.go:47` reports
  the failure to no one.
* `snapshot.go:57`: `FileStore.mu` is declared and never taken: an installation and an
  export of one snapshot may mix their files.
* `handlers_impl.go:150`: an accepted write is answered 200 before it is committed, while
  the repository's `README.md:372` asks that a read after a successful write see it.
* `handlers_impl.go:277`, `app.go:335`: a heartbeat writes back an instance that was
  deregistered meanwhile; the cleanup deletes one that was renewed meanwhile.
* `replication.go:334`: a put that raft accepted may be lost with the leader while the
  checkpoint after it is committed; `CROSS_REGION_DIRECTORY_SYNC_DESIGN.md:540-548`
  excludes that an event be skipped.
* `app.go:461`: a change without addresses, which is how `cmd/stellmapctl/main.go:186-213`
  sends a promotion, overwrites the persisted address with an empty one, while
  `AddressBook.Set` keeps the old: after a restart it is gone.
* `pebble.go:299-326`: a restart restores the newest snapshot and with it the member
  addresses of that moment, over those persisted since (`node.go:900-928`, before
  `app.go:235`). A change that the run loop had applied, and the other loop not yet
  written, when the snapshot was taken (`node.go:625-626`) is not handed out again: its
  address is lost, or a removed member comes back. What `persistCurrentAddressBook` writes
  at `Stop` is overwritten whenever there is a snapshot. `confchange.go:50-51` says that
  every node updates its address book from the committed changes.
* `model.go:550`: a prefix matches by its text, so `a` finds `ab` too, where
  `internal/registry/README.md:92-95` says that it matches the name itself or what begins
  with it and a dot. `Wanted` follows the document, and `QueryAnswersRequest` speaks of
  requests on which the two agree (`PrefixesAreWhole`). `model.go:363`: names that contain
  `/` collide as keys.

## What is proved

For every value of the constants that meets the module's `ConstantsAssumption`, whose
conjuncts are what `Config.Validate` and `WithDefaults` ensure and the types of the
bounds:

| theorem | statement |
|---|---|
| `RaftNodeProofs!TypeCorrect` | `Spec => []TypeOK` |
| `RaftNodeProofs!AppliedIsDurableAlways` | `Spec => []AppliedIsDurable` |
| `RaftNodeProofs!RecoveryHasNoHoleAlways` | `Spec => []RecoveryHasNoHole` |
| `RaftNodeProofs!RestartNeverPanicsAlways` | `Spec => []RestartNeverPanics` |
| `RaftNodeProofs!SnapshotsReflectTheirIndexAlways` | `Spec => []SnapshotsReflectTheirIndex` |
| `RaftNodeProofs!CaughtUpIsExactAlways` | `Spec => []CaughtUpIsExact` |
| `RaftNodeProofs!StatusIsHonestAlways` | `Spec => []StatusIsHonest` |
| `RaftNodeProofs!CompactedIsServedAlways` | `Spec => []CompactedIsServed` |
| `RaftNodeProofs!CompactionReclaimsAlways` | `Spec => []CompactionReclaims` |
| `RaftNodeProofs!RecoverableWhileTrusted` | `Spec /\ []Trusted => RecoverableSpec` |
| `RaftNodeProofs!RecoverableWithoutMishaps` | `Spec => RecoverableSpec`, for `MaxTornCrashes = MaxWalFaults = 0` |
| `RegistryReadProofs!TypeCorrect` | `Spec => []TypeOK` (of `ReadBarrier`) |
| `RegistryReadProofs!WaitersAreLiveAlways` | `Spec => []WaitersAreLive` |
| `RegistryReadProofs!ReadsAreFreshAlways` | `Spec => []ReadsAreFresh` |
| `RegistryReadProofs!IndexIsAnsweredAlways` | `Spec => []IndexIsAnswered` |
| `RegistryReadProofs!WatchFollowsQueryAlways` | `ViewSpec => []WatchFollowsQuery` |
| `RegistryReadProofs!EitherFormReachesAlways` | `ViewSpec => []EitherFormReaches` |
| `RegistryReadProofs!ScrapedIsQueriedAlways` | `ViewSpec => []ScrapedIsQueried` |
| `RegistryReadProofs!QueryAnswersRequestAlways` | `ViewSpec => []QueryAnswersRequest`, for `FiltersAreParsed` |
| `FileWALProofs!TypeCorrect` | `Spec => []TypeOK` |
| `FileWALProofs!AckedSurviveAlways` | `Spec => []AckedSurvive` |
| `FileWALProofs!StateCoversEntriesAlways` | `Spec => []StateCoversEntries` |
| `FileWALProofs!LoadIsContiguousAlways` | `Spec => []LoadIsContiguous` |
| `FileWALProofs!SegmentsMatchFilesAlways` | `Spec => []SegmentsMatchFiles` |
| `FileWALProofs!MirrorsMemoryWALAlways` | `Spec => []MirrorsMemoryWAL` |
| `SnapshotInstallProofs!TypeCorrect` | `Spec => []TypeOK` |
| `SnapshotInstallProofs!OneSenderPerSnapshotAlways` | `Spec => []OneSenderPerSnapshot` |
| `SnapshotInstallProofs!LatestIsWholeAlways` | `Spec => []LatestIsWhole` |
| `SnapshotInstallProofs!NewestOnlyAdvancesAlways` | `Spec => NewestOnlyAdvances` |
| `SnapshotInstallProofs!RecoveryHasNoHoleAlways` | `Spec => []RecoveryHasNoHole` |
| `WatchHubProofs!TypeCorrect` | `Spec => []TypeOK` |
| `WatchHubProofs!NoGapWhileRoom` | `Spec /\ [][RoomForReady]_vars => []NoGap` |
| `WatchHubProofs!OwedIsOnItsWayWhileRoom` | `Spec /\ [][RoomForReady]_vars => []OwedIsOnItsWay` |
| `WatchHubProofs!NoGapInShortLogs` | `Spec => []NoGap`, for `MaxRevision <= ReadyBuffer` |
| `WatchHubProofs!OwedIsOnItsWayInShortLogs` | `Spec => []OwedIsOnItsWay`, likewise |
| `RegistryLeaseProofs!TypeCorrect` | `Spec => []TypeOK` |
| `RegistryLeaseProofs!PassSkipsNothingAlways` | `Spec => []PassSkipsNothing` |
| `RegistryLeaseProofs!RemovalIsJustifiedAlways` | `Spec => RemovalIsJustified` |
| `ReplicationProofs!TypeCorrect` | `Spec => []TypeOK` |
| `ReplicationProofs!CheckpointIsCoveredAlways` | `Spec => CheckpointIsCovered` |
| `MembershipProofs!TypeCorrect` | `Spec => []TypeOK` |
| `MembershipProofs!ClientMatchesBookAlways` | `Spec => []ClientMatchesBook` |
| `MembershipProofs!BookFollowsLogAlways` | `Spec => []BookFollowsLog` |

A run checks `TypeOK` only where a mutant of the code breaks it. Every safety property of
the passing runs is proved.

**RaftNode.** None of the safety properties is inductive: whether an applied write is
durable depends on what the WAL holds, whether the WAL reaches down to the newest snapshot
on what was compacted, and whether a restart panics on how the persisted Commit lies to
both. `IInv` puts them together. `TypeInv` is `TypeOK` with the fact that a nonempty set
of snapshot files has a newest one. `Core`, which holds as long as no fault has struck,
has four parts: `RaftOrder` orders raft's indices and the loop's position in them, for
each value of `pc`; `WalShape` says what the WAL holds in terms of raft's log, with a part
of its own for the moments inside `Append`; `SnapshotShape` relates the newest snapshot to
the WAL, to `MemoryStorage` and to the applied index; `Behind` bounds every writer index
in Pebble and in the snapshots. `Init => IInv` and one lemma per group of actions give
`[]IInv`. The helpers (`Newest`, `Cleaned`, `TruncatedWal`) have lemmas of their own: that
`Cleaned` keeps the newest snapshot for a positive `keep` is what makes cleanup safe, and
it is proved through cardinalities of finite sets.

What the data say needs a second invariant, `DataInv`. An image shows an index of the log
(`Shows`) when each key has the last writer up to there. `Faithful` says that of every
snapshot at its own index, and of Pebble at the index `Reached`; of a Pebble that a crash
left, only that it has no writer the log does not know, since `Restore` is about to
replace it. `Uncommitted` keeps what raft may still overwrite out of all of them, without
which an overwritten tail would make a true image false; `ApplyOrder` bounds the batches
that are handed out, the repeated one after a restart included; `Retained` bounds what
`MemoryStorage` was compacted to. The hypothesis of `DataCore` is `Unharmed` and not
`Trusted`, because an ignored WAL error does no harm before a crash: only the lemma of
crash and restart (`DataCrashSteps`) needs `Core`.

**The refinement.** `RecoveredIsExact` shows that what a restart would rebuild is exactly
the durable log: image and index are functions of snapshot, WAL and Commit, and show each
other. `Init` maps to the abstract `Init`. A step then either leaves the durable index
where it is, and with it the image, or raises it, and the image takes writes of the new
entries only: a stutter or `Extend`. The hypothesis `[]Trusted` is the one that
`RestartNeverPanics` has too; `RecoverableWithoutMishaps` derives it from the bounds that
the run `node_crash` sets.

**ReadBarrier.** `WaitersInv` adds to `WaitersAreLive` that a call that has not begun has
a fresh channel; it holds however contexts are shared. `FreshInv` is about the calls in
`Alone`, those that share their context with no other: raft was asked for their context
only by them (`NotAskedYet`), so every index noted or answered for it is no older than
their start (`AnswersAreFresh`); the answer is still on its way to them or in their
channel (`WaitsForAnswer`); and they go on with it (`GotAnswer`). Other calls may do as
they please.

**FileWAL.** Two invariants, because two kinds of properties hold under different
conditions. `SafeInv` holds whatever crashes and whatever fails. `Ordered`: segments by
number cover the log from left to right. `Ends`: both ends of a segment are entries, so
that the search of `rewriteTail` finds one. `Held`: each acknowledged entry is in the range
of a segment and, if it is due, in the file of that segment; due is all but what is in
`lost`. `AppendInv` says them of the local copy that `appendEntriesIncremental` works on,
split at what is written and what is to do, with a `Blank` segment between `CreateSegment`
and the first record. `RemoveInv` and `DropInv` say them twice, of the segments that stay
(`keep`) while others are removed, and of all that are in memory less what is `Gone`: with
the first the operation goes on, with the second it breaks off. From it follow `Survive`,
which is `AckedSurvive` of whole records, whatever is torn beside them, and
`StateCoversEntries`: a failed write may leave records that memory knows nothing of, but
never takes one away.

`SoundInv` speaks as long as no call has returned an error (`Sound`), which the properties
it is for say themselves. A file is then a run of consecutive entries that fits
(`RunInv`); each segment's range is that of its records (`Exact`); nothing is `lost`;
`FilesInv` gives for every place in an operation which files hold records, what they hold
together, and what `MemoryWAL` holds beside them; `StateInv` that the HardState of all
three is the same, or that `MemoryWAL` has none. `RaftInv` says where raft's log begins and
ends: at the snapshot or one behind it, and at the last entry or, if there is none, the
snapshot. An `Append` therefore goes on behind the last entry, or over it, or is refused
by the gap check of `FileWAL`, which `MemoryWAL` lacks; up to that error the two agree. An
interrupted `TruncatePrefix` leaves a suffix of the log since the lowest number goes
first; an interrupted `rewriteTail` may not, and is the exception in the properties.

**SnapshotInstall.** That a snapshot has one sender rests on `TransferInv`: the bytes of a
session are what its open stream has sent, and a second stream of the same snapshot has
sent nothing, since it starts at the wrong offset. `TypeInv` adds `JobsInv`, what a writer
has in hand at each step. That the newest snapshot never gets older needs `NewestInv`: a
writer past its metadata has written nothing newer than the newest, and what a `Cleanup`
is about to unlink is older, although its listing may be stale; the lemma
`VictimsAreOlder` is where a positive `keep` counts. `RecoveryHasNoHole` speaks of
committed entries and is not inductive: `CoverInv` extends it to all that the HardState,
raft or a later WAL entry claims, by index; that the newest snapshot has the entries its
index stands for is `LatestIsWhole`.

What the run loop exports has what its label says only if Pebble does. `LogInv` orders the
WAL, the HardState, raft and the applied index while the process runs. `PebbleInv` says of
a Pebble that was not set back that it holds the entries up to some index, which is raft's
last or, beside an installation, that of a snapshot already published; `ExportedData` then
gives that an export has the data of its index, or is older than the newest snapshot and
so never restored. An older snapshot makes `setBack` true and what is exported `hollow`;
both end with a restart from a snapshot that is neither hollow nor mixed.

`LatestIsWhole` says of files without a lock what a lock would make obvious. `WholeInv`
has it that a key outside `clash` is in the hands of one writer at most, and gives, for
each place in `Create`, what that writer relies on when it goes on (`Creates`): that its
descriptor is still that of the temporary file, that what it wrote is `Whole`, that the file
it published is there, or is older than the newest since a `Cleanup` took it away before
its metadata were written. The newest snapshot is then `Good`.

**WatchHub.** `Coming` says where an event is that a stream is owed: in its channel, in
`readyCh` or not applied yet, about to be sent by the `Publish` under way, or newer than
all that the channel of a watcher that was closed still holds. `ReadyInv` and `HistoryInv`
say that the queue and the window are the log without a hole, which is what makes a replay
as good as live events; `PublishInv` that the copy of the watchers a `Publish` works on
may lag behind, but sends to each once; `ChannelInv` that a channel is in order. The
hypothesis `RoomForReady` is that `emitReady` finds room in `readyCh`. It cannot be left
out: after a dropped batch the window has a hole and `NoGap` is false (see Known
disagreements). The two theorems on short logs discharge it for the logs that `readyCh`
can hold.

**RegistryLease.** `PassSkipsNothing` needs that the history `present` lies within the
store, and the lemma `ScanReachesCursor`: what lies before the new cursor was in the
scanned page, which is a statement about ranks in finite sets. `RemovalIsJustified` is an
action property; its invariant says of every cleanup command in the log, and every item in
a batch, that the value it was based on had run out by now.

**Replication.** `Pending` is what is on its way into the replica: the log's tail and, if
the stream has the log to itself (`Own`), what it has yet to propose. `MarksInv` is the
property carried back to the moment when a checkpoint is formed: after the commands before
it, every instance is what the source held at the checkpoint's revision or later.
`PutsInv` and `ClearsInv` keep it true when commands are committed, lost with the tail's
end or added behind: a put is not older than the checkpoints before it, and a service that
is deleted at the beginning of a snapshot is written again up to the snapshot's end.
`UpTo` says the same of the stream's position, from which the next event goes on. All of
it is claimed while nothing is `excused`, as in the property.

**RegistryView.** Everything rests on `StoreInv`: each instance is under its own key, the
keys are finitely many, and an instance is `Sound`. That its name and its dimensions agree
(`Canonical`) is what `NormalizeStructuredServiceIdentity` makes of any input
(`IdentityIsCanonical`), and what makes the two forms of a request meet. The narrowed scan
loses nothing (`ScanIsEnough`), because a query that has a name and no prefixes matches no
other service. `WatchFollowsQuery` is not inductive: a delete or an update that no longer
matches reaches the watcher only if the key is of a service that it asked for, so `ViewInv`
has it that whatever the watcher was told of is. It is carried through the events by
`ToldFollows` and `ForgottenFollows`, of any store and view; time only ends leases. The
answer of a query is compared with `Wanted` name by name: `FilledIsGiven` and
`ServicesAsked` go through the cases of `ParseQuery` (a name or dimensions that tell the
whole name, dimensions that are a prefix, none), `GivenIsLead` shows that dimensions
without a gap are those before the first blank, and `LimitedIsEnough` that a limit that is
not reached hides nothing. `FiltersAreParsed`, the hypothesis of the last theorem, says
that every accepted selector text was parsed to the filter that its request means; it holds
of the requests of `registry_query`, where the filters are written down beside the texts,
and TLC checks it there as a part of the property. That a prefix is matched by its text is
no hypothesis: the property says itself, by `PrefixesAreWhole`, in which states it speaks
of a request. `InputsAssumption` says only that lists
are lists, that dimensions are tuples and that what was replicated had been accepted.

**Membership.** `ClientMatchesBook` is inductive together with types: each writer of the
book drops the client in a step of its own, and is at `"reset"` in between.
`BookFollowsLog` says nothing of a node that is behind or down, and is carried through by
`FollowInv`: for each member, `BookInv` of the book, `DiskInv` of Pebble and of the copy
that `Stop` is writing back, and `ImageInv` of the snapshot. Each speaks of a member that
did not go astray there and of which no change is still to come there: to the book what is
not `handled`, to Pebble what is not `Persisted`, to the snapshot what a restart hands out
again. The book then `Follows` the log; Pebble and the snapshot have an address from which
`Start` makes one that does (`Recovers`). A restart takes `ImageInv` to the other two, a
compaction takes `DiskInv` to `ImageInv`, less the changes between what is persisted and
the snapshot's index. `AddressAt` is a statement about the last change that tells of a
member; `AddressStays` and `AddressAppended` say that other changes leave it. The theorem
has no hypothesis: changes that name no address are in it.

**Only model-checked.** The liveness properties (`CommittedIsApplied`, `CallsReturn`,
`EventsReachStreams`, `ExpiredIsRemoved`, `ReplicaConverges`), since liveness under
fairness is outside the prover's reach, and `FiltersAreParsed`: what the parser makes of a
token sequence of any length would be an induction over data. The findings are
violations, which need no proof.

## What is not modelled

* etcd raft itself: elections, terms and replication. The actions marked external allow
  everything it may hand to this code.
* Bytes: encodings, checksums, the contents of commands, HTTP and SSE framing, parsing of
  JSON. Reads of Pebble are taken at the moment `Served` fires; that later reads see later
  data only makes them fresher.
* `fsync` that lies, disk corruption and the loss of renamed files at a power failure.
* The Snapshot branch of `handleReady`, which no message of this transport reaches;
  `DownloadSnapshot`, which nothing calls for and which changes no state; the older form
  `label=key=value` of a selector.
* Forwarding of raft messages in `PeerTransport`, lossy by design; the order in which
  servers start and stop; errors of Pebble and of a connection's `Close` while a member's
  address is changed, which `forwardReadyLoop` logs and passes over.
* Metrics, logging, configuration, authentication and the CLI: nothing above rests on
  their state. Generated code.
* What the table of components in `PROJECT.json` marks `partly` says what is left out.

## Plan

1. `FileWAL`: an abstract log that `Append` extends or overwrites and `TruncatePrefix`
   cuts, with the files mapped to it; `SafeInv` and `SoundInv` have what the step
   simulation needs.
2. `RegistryLease` and `Replication` take a leader's read to be of the committed store,
   which `ReadsAreFresh` promises: a module that composes the two.
