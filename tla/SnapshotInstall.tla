-------------------------- MODULE SnapshotInstall --------------------------
(***************************************************************************)
(* How a snapshot reaches a node: chunks in client streams of peers        *)
(* (internal/runtime, internal/transport/grpc), collected by term and      *)
(* index, then written by FileStore (internal/snapshot) and installed by   *)
(* RaftNode.InstallSnapshot (internal/raftnode/service.go) in the gRPC     *)
(* goroutine, beside the run loop, which appends, applies, and exports and *)
(* compacts by itself.                                                     *)
(*                                                                         *)
(* The steps are the writes at which a crash can fall or another goroutine *)
(* come in between.  Log indices stand for the entries, and data are the   *)
(* entries whose effects are in them and the one applied last, which may   *)
(* be an old one over newer data.  The snapshots of two peers at one index *)
(* differ: they carry the peers' own address books.                        *)
(***************************************************************************)
EXTENDS Integers, Sequences, FiniteSets, FiniteSetsExt, Functions

CONSTANTS
  Streams,         \* client streams that can be open at a time
  Peers,           \* senders of snapshots
  Loop,            \* the run loop, as a writer of snapshots
  Chunks,          \* chunks of a snapshot
  MaxIndex,        \* bound: the longest log
  SnapshotEntries, \* applied entries between two exports
  Keep,            \* FileStore.keep
  KeepSnapshots,   \* snapshots that maybeTriggerSnapshot keeps
  MaxOpens,        \* bound: streams opened
  MaxCrashes       \* bound: process crashes

ASSUME ConstantsAssumption ==
  /\ Loop \notin Streams \cup Peers
  /\ Chunks \in Nat \ {0} /\ MaxIndex \in Nat
  /\ SnapshotEntries \in Nat \ {0} /\ Keep \in Nat \ {0} /\ KeepSnapshots \in Nat \ {0}
  /\ MaxOpens \in Nat /\ MaxCrashes \in Nat

Writers == Streams \cup {Loop}
Keys == 1 .. MaxIndex
\* Indices at which a peer has a snapshot to send.
PeerKeys == {k \in Keys : k % SnapshotEntries = 0}
Data == [seen : SUBSET Keys, last : 0 .. MaxIndex]
Chunk == [from : Peers \cup {Loop}, data : Data, part : 1 .. Chunks]

VARIABLES
  stream,  \* stream -> whether it is open, its snapshot, sender, chunks accepted
  session, \* InternalTransportService.install: key -> bytes collected so far
  pc,      \* writer -> its step in Create and InstallSnapshot
  job,     \* writer -> the snapshot it writes and the victims of its Cleanup
  fd,      \* writer -> where the file it has open is by now
  tmp,     \* *.snap.tmp: key -> bytes
  snap,    \* *.snap: key -> bytes
  meta,    \* keys with a *.meta
  kv,      \* the data in Pebble
  applied, \* applied index in Pebble
  wal,     \* indices of the WAL's entries
  commit,  \* HardState.Commit on disk
  storage, \* raft.MemoryStorage: index of its snapshot, last index
  raftLast,\* last index that raft believes stable
  up,      \* the process runs
  refused, \* raft.RestartNode panicked at the last start
  \* History:
  setBack, \* Pebble lacks entries that raft will not hand out again,
  hollow,  \* keys that were exported from such data,
  clash,   \* keys of which two Creates overlapped
  opens, crashes

streamVars == <<stream, session, opens>>
createVars == <<pc, job, fd, clash>>
fileVars == <<tmp, snap, meta>>
dataVars == <<kv, setBack, hollow>>
diskVars == <<dataVars, applied, wal, commit>>
memVars == <<storage, raftLast, up, refused, crashes>>
vars == <<streamVars, createVars, fileVars, diskVars, memVars>>

Free == [key |-> 0, bytes |-> <<>>, victims |-> {}]

Steps == {"idle", "due", "open", "write", "rename", "meta", "sweep", "unlink",
          "restore", "memory", "index", "prefix", "compact", "resweep", "reunlink"}

TypeOK ==
  /\ stream \in [Streams -> [open : BOOLEAN, key : Keys \cup {0}, from : Peers \cup {Loop},
                             sent : 0 .. Chunks]]
  /\ session \in [Keys -> Seq(Chunk)] /\ \A k \in Keys : Len(session[k]) < Chunks
  /\ pc \in [Writers -> Steps]
  /\ job \in [Writers -> [key : Keys \cup {0}, bytes : Seq(Chunk), victims : SUBSET Keys]]
  /\ fd \in [Writers -> {"none", "tmp", "snap", "gone"}]
  /\ tmp \in [DOMAIN tmp -> Seq(Chunk)] /\ DOMAIN tmp \subseteq Keys
  /\ snap \in [DOMAIN snap -> Seq(Chunk)] /\ DOMAIN snap \subseteq Keys
  /\ meta \subseteq Keys /\ clash \subseteq Keys /\ hollow \subseteq Keys /\ setBack \in BOOLEAN
  /\ kv \in Data /\ applied \in 0 .. MaxIndex /\ commit \in 0 .. MaxIndex
  /\ wal \subseteq 1 .. MaxIndex
  /\ storage \in [snap : 0 .. MaxIndex, last : 0 .. MaxIndex] /\ raftLast \in 0 .. MaxIndex
  /\ up \in BOOLEAN /\ refused \in BOOLEAN
  /\ opens \in 0 .. MaxOpens /\ crashes \in 0 .. MaxCrashes

-----------------------------------------------------------------------------
\* Helpers.

\* The data of one who has applied the first k entries, and with one more applied.
DataAt(k) == [seen |-> 1 .. k, last |-> k]
With(d, e) == [seen |-> d.seen \cup {e}, last |-> e]

\* splitSnapshotChunks: the bytes of a sender's snapshot, in order.
Split(p, d) == [n \in 1 .. Chunks |-> [from |-> p, data |-> d, part |-> n]]

\* A directory in which the file of key k has these bytes.
Placed(files, k, bytes) ==
  [j \in DOMAIN files \cup {k} |-> IF j = k THEN bytes ELSE files[j]]

\* latestMetadata; 0 where there is none.
Newest == IF meta = {} THEN 0 ELSE Max(meta)

\* Mutant of Victims: the metadata in the order of the directory.
VictimsOldestKept(keep) == {k \in meta : Cardinality({j \in meta : j < k}) >= keep}

\* Mutant of Victims: off by one.
VictimsOneMore(keep) == {k \in meta : Cardinality({j \in meta : j > k}) >= keep - 1}

\* Cleanup: all but the keep newest.
Victims(keep) == {k \in meta : Cardinality({j \in meta : j > k}) >= keep}

\* FileWAL.TruncatePrefix, on the indices it keeps.
Truncated(k) == {i \in wal : i >= k}

Closed(s) == [stream EXCEPT ![s].open = FALSE, ![s].sent = 0]

Init ==
  /\ stream = [s \in Streams |-> [open |-> FALSE, key |-> 0, from |-> Loop, sent |-> 0]]
  /\ session = [k \in Keys |-> <<>>]
  /\ pc = [w \in Writers |-> "idle"] /\ job = [w \in Writers |-> Free]
  /\ fd = [w \in Writers |-> "none"]
  /\ tmp = <<>> /\ snap = <<>> /\ meta = {}
  /\ kv = DataAt(0) /\ setBack = FALSE /\ hollow = {} /\ applied = 0 /\ wal = {} /\ commit = 0
  /\ storage = [snap |-> 0, last |-> 0] /\ raftLast = 0
  /\ up = TRUE /\ refused = FALSE /\ clash = {} /\ opens = 0 /\ crashes = 0

-----------------------------------------------------------------------------
\* The transfer.

\* sendSnapshot of a peer opens a stream for one of its snapshots.
OpenStream(s, p, k) ==
  /\ up /\ ~stream[s].open /\ pc[s] = "idle" /\ opens < MaxOpens
  /\ stream' = [stream EXCEPT ![s] = [open |-> TRUE, key |-> k, from |-> p, sent |-> 0]]
  /\ opens' = opens + 1
  /\ UNCHANGED <<session, createVars, fileVars, diskVars, memVars>>

\* Mutant of OffsetFits: no check of the offset.
OffsetFitsAlways(s) == TRUE

\* InstallSnapshotChunk: the offset is where the bytes so far end.
OffsetFits(s) == stream[s].sent = Len(session[stream[s].key])

\* A writer begins Create, FileStore.mu never being taken.
Begin(w, k, bytes) ==
  /\ pc' = [pc EXCEPT ![w] = "open"]
  /\ job' = [job EXCEPT ![w] = [key |-> k, bytes |-> bytes, victims |-> {}]]
  /\ clash' = IF \E v \in Writers \ {w} : job[v].key = k THEN clash \cup {k} ELSE clash
  /\ UNCHANGED fd

\* InstallSnapshotChunk of the stream's next chunk.  The last one takes the
\* session away and goes on to InstallSnapshot.
ReceiveChunk(s) ==
  LET k == stream[s].key
      bytes == Append(session[k], Split(stream[s].from, DataAt(k))[stream[s].sent + 1])
  IN /\ up /\ stream[s].open /\ stream[s].sent < Chunks /\ OffsetFits(s)
     /\ IF stream[s].sent + 1 = Chunks
        THEN /\ session' = [session EXCEPT ![k] = <<>>]
             /\ stream' = Closed(s)
             /\ Begin(s, k, bytes)
        ELSE /\ session' = [session EXCEPT ![k] = bytes]
             /\ stream' = [stream EXCEPT ![s].sent = @ + 1]
             /\ UNCHANGED createVars
     /\ UNCHANGED <<opens, fileVars, diskVars, memVars>>

\* The chunk is refused over its offset, which ends the stream.
RefuseChunk(s) ==
  /\ up /\ stream[s].open /\ ~OffsetFits(s)
  /\ stream' = Closed(s)
  /\ UNCHANGED <<session, opens, createVars, fileVars, diskVars, memVars>>

\* The stream breaks off: the handler returns and the session stays.
BreakStream(s) ==
  /\ up /\ stream[s].open
  /\ stream' = Closed(s)
  /\ UNCHANGED <<session, opens, createVars, fileVars, diskVars, memVars>>

-----------------------------------------------------------------------------
\* FileStore.Create, by a stream's handler or by the run loop.

Goto(w, step) == pc' = [pc EXCEPT ![w] = step]

\* Create returns an error, and so does its caller.
CreateFails(w) ==
  /\ Goto(w, "idle")
  /\ job' = [job EXCEPT ![w] = Free]
  /\ fd' = [fd EXCEPT ![w] = "none"]
  /\ UNCHANGED <<clash, fileVars>>

\* os.OpenFile with O_CREATE and O_TRUNC.
OpenTmp(w) ==
  /\ pc[w] = "open"
  /\ tmp' = Placed(tmp, job[w].key, <<>>)
  /\ fd' = [fd EXCEPT ![w] = "tmp"]
  /\ Goto(w, "write")
  /\ UNCHANGED <<job, clash, snap, meta>>

\* The exporter's one write goes to the open file, whatever its name is by now.
WriteTmp(w) ==
  /\ pc[w] = "write"
  /\ tmp' = IF fd[w] = "tmp" THEN [tmp EXCEPT ![job[w].key] = job[w].bytes] ELSE tmp
  /\ snap' = IF fd[w] = "snap" THEN [snap EXCEPT ![job[w].key] = job[w].bytes] ELSE snap
  /\ Goto(w, "rename")
  /\ UNCHANGED <<job, fd, clash, meta>>

\* os.Stat and os.Rename to *.snap.  What others have open moves along.
RenameTmp(w) ==
  LET k == job[w].key
      moved == [tmp |-> "snap", snap |-> "gone", gone |-> "gone", none |-> "none"]
  IN /\ pc[w] = "rename" /\ k \in DOMAIN tmp
     /\ snap' = Placed(snap, k, tmp[k])
     /\ tmp' = Restrict(tmp, DOMAIN tmp \ {k})
     /\ fd' = [v \in Writers |-> IF v = w THEN "none"
                                 ELSE IF job[v].key = k THEN moved[fd[v]] ELSE fd[v]]
     /\ Goto(w, "meta")
     /\ UNCHANGED <<job, clash, meta>>

\* Another Create of the same snapshot has renamed the file away.
RenameFails(w) ==
  /\ pc[w] = "rename" /\ job[w].key \notin DOMAIN tmp
  /\ CreateFails(w)

\* persistMetadata: a file of its own, renamed into place.
WriteMeta(w) ==
  /\ pc[w] = "meta"
  /\ meta' = meta \cup {job[w].key}
  /\ Goto(w, "sweep")
  /\ UNCHANGED <<job, fd, clash, tmp, snap>>

\* Cleanup removes the *.snap of its victims, then their *.meta.
Sweep(w, from, to, keep) ==
  /\ pc[w] = from
  /\ job' = [job EXCEPT ![w].victims = Victims(keep)]
  /\ snap' = Restrict(snap, DOMAIN snap \ Victims(keep))
  /\ fd' = [v \in Writers |-> IF fd[v] = "snap" /\ job[v].key \in Victims(keep)
                              THEN "gone" ELSE fd[v]]
  /\ Goto(w, to)
  /\ UNCHANGED <<clash, tmp, meta>>

Unlink(w, from, to) ==
  /\ pc[w] = from
  /\ meta' = meta \ job[w].victims
  /\ Goto(w, to)
  /\ job' = IF to = "idle" THEN [job EXCEPT ![w] = Free] ELSE job
  /\ UNCHANGED <<fd, clash, tmp, snap>>

CreateStep(w) ==
  /\ up
  /\ \/ OpenTmp(w) \/ WriteTmp(w) \/ RenameTmp(w) \/ RenameFails(w) \/ WriteMeta(w)
     \/ Sweep(w, "sweep", "unlink", Keep)
     \/ Unlink(w, "unlink", IF w = Loop THEN "compact" ELSE "restore")
     \/ /\ w = Loop
        /\ \/ Sweep(w, "resweep", "reunlink", KeepSnapshots)
           \/ Unlink(w, "reunlink", "idle")
  /\ UNCHANGED <<streamVars, diskVars, memVars>>

-----------------------------------------------------------------------------
\* RaftNode.InstallSnapshot, after snapStore.Install.

\* kvStore.Restore replaces the data in one batch, with older data too.
RestoreData(s) ==
  /\ pc[s] = "restore"
  /\ kv' = job[s].bytes[1].data /\ setBack' = (job[s].key < raftLast)
  /\ Goto(s, "memory")
  /\ UNCHANGED <<job, hollow, applied, wal, commit, memVars>>

\* storage.ApplySnapshot; ErrSnapOutOfDate is passed over.  The entries of
\* MemoryStorage go.
ApplyToStorage(s) ==
  /\ pc[s] = "memory"
  /\ storage' = IF storage.snap >= job[s].key THEN storage
                ELSE [snap |-> job[s].key, last |-> job[s].key]
  /\ Goto(s, "index")
  /\ UNCHANGED <<job, diskVars, raftLast, up, refused, crashes>>

\* kvStore.SetAppliedIndex (the applied term has no reader).
SetIndex(s) ==
  /\ pc[s] = "index"
  /\ applied' = job[s].key
  /\ Goto(s, "prefix")
  /\ UNCHANGED <<job, dataVars, wal, commit, memVars>>

\* Mutant of TruncateWal: the whole log goes, as it does in MemoryStorage.
TruncateWalWhole(s) ==
  /\ pc[s] = "prefix"
  /\ wal' = {}
  /\ Goto(s, "idle")
  /\ job' = [job EXCEPT ![s] = Free]
  /\ UNCHANGED <<dataVars, applied, commit, memVars>>

\* walStore.TruncatePrefix, and InstallSnapshot returns.
TruncateWal(s) ==
  /\ pc[s] = "prefix"
  /\ wal' = Truncated(job[s].key)
  /\ Goto(s, "idle")
  /\ job' = [job EXCEPT ![s] = Free]
  /\ UNCHANGED <<dataVars, applied, commit, memVars>>

InstallStep(s) ==
  /\ up
  /\ RestoreData(s) \/ ApplyToStorage(s) \/ SetIndex(s) \/ TruncateWal(s)
  /\ UNCHANGED <<streamVars, fd, clash, fileVars>>

-----------------------------------------------------------------------------
\* The run loop.  It learns of no snapshot: raft goes on from its own last entry.

\* A Ready with the next entry, committed: WAL, MemoryStorage, Pebble, whatever
\* data InstallSnapshot has put there.
Advance ==
  LET e == raftLast + 1
  IN /\ up /\ pc[Loop] = "idle" /\ e <= MaxIndex /\ e <= storage.last + 1
     /\ wal' = wal \cup {e} /\ commit' = e
     /\ storage' = [storage EXCEPT !.last = IF e > @ THEN e ELSE @]
     /\ raftLast' = e /\ kv' = With(kv, e) /\ applied' = e
     /\ Goto(Loop, "due")
     /\ UNCHANGED <<setBack, hollow, up, refused, crashes, streamVars, job, fd, clash, fileVars>>

\* maybeTriggerSnapshot.  The difference is on uint64: with the applied index
\* below the snapshot it is huge, but CreateSnapshot answers ErrSnapOutOfDate.
Due == applied >= storage.snap + SnapshotEntries

SkipExport ==
  /\ up /\ pc[Loop] = "due" /\ ~Due
  /\ Goto(Loop, "idle")
  /\ UNCHANGED <<streamVars, job, fd, clash, fileVars, diskVars, memVars>>

\* CreateSnapshot in MemoryStorage, then Create.
Export ==
  /\ up /\ pc[Loop] = "due" /\ Due /\ applied <= storage.last
  /\ storage' = [storage EXCEPT !.snap = applied]
  /\ Begin(Loop, applied, Split(Loop, kv))
  /\ hollow' = IF setBack THEN hollow \cup {applied} ELSE hollow
  /\ UNCHANGED <<streamVars, fileVars, kv, setBack, applied, wal, commit, raftLast, up, refused,
                 crashes>>

\* The WAL prefix goes once the snapshot is published.
CompactWal ==
  /\ up /\ pc[Loop] = "compact"
  /\ wal' = Truncated(job[Loop].key)
  /\ Goto(Loop, "resweep")
  /\ UNCHANGED <<job, fd, clash, dataVars, applied, commit, memVars, streamVars, fileVars>>

\* The process dies: of itself, or because MemoryStorage, whose entries
\* ApplySnapshot took away, panics over the next Append or CreateSnapshot.
Crash ==
  /\ up
  /\ \/ crashes < MaxCrashes /\ crashes' = crashes + 1
     \/ /\ \/ pc[Loop] = "idle" /\ raftLast > storage.last /\ raftLast < MaxIndex
           \/ pc[Loop] = "due" /\ Due /\ applied > storage.last
        /\ UNCHANGED crashes
  /\ up' = FALSE
  /\ stream' = [s \in Streams |-> [open |-> FALSE, key |-> 0, from |-> Loop, sent |-> 0]]
  /\ session' = [k \in Keys |-> <<>>]
  /\ pc' = [w \in Writers |-> "idle"] /\ job' = [w \in Writers |-> Free]
  /\ fd' = [w \in Writers |-> "none"]
  /\ storage' = [snap |-> 0, last |-> 0] /\ raftLast' = 0
  /\ UNCHANGED <<opens, clash, fileVars, diskVars, refused>>

\* bootstrapStorage: the newest snapshot, then the WAL's committed entries.
\* raft.RestartNode panics on a HardState.Commit below the snapshot.
Restart ==
  LET tail == {i \in wal : i > Newest}
      last == Max(tail \cup {Newest})
      again == {i \in tail : i <= commit}
      done == Max(again \cup {Newest})
      base == IF Newest = 0 \/ snap[Newest] = <<>> THEN DataAt(0) ELSE snap[Newest][1].data
  IN /\ ~up /\ ~refused /\ (Newest # 0 => Newest \in DOMAIN snap)
     /\ kv' = [seen |-> base.seen \cup again, last |-> IF again = {} THEN base.last ELSE done]
     /\ setBack' = (Newest \in hollow \cup clash) /\ UNCHANGED hollow
     /\ applied' = done
     /\ storage' = [snap |-> Newest, last |-> last]
     /\ raftLast' = last
     /\ refused' = (commit # 0 /\ commit < Newest)
     /\ up' = ~refused'
     /\ UNCHANGED <<crashes, streamVars, createVars, fileVars, wal, commit>>

Next ==
  \/ \E s \in Streams : \/ \E p \in Peers, k \in PeerKeys : OpenStream(s, p, k)
                        \/ ReceiveChunk(s) \/ RefuseChunk(s) \/ BreakStream(s)
                        \/ InstallStep(s)
  \/ \E w \in Writers : CreateStep(w)
  \/ Advance \/ SkipExport \/ Export \/ CompactWal \/ Crash \/ Restart

Spec == Init /\ [][Next]_vars

-----------------------------------------------------------------------------
\* Properties.

(* However streams of several peers break off, begin again and interleave, *)
(* the bytes that InstallSnapshotChunk hands on are one peer's snapshot,   *)
(* whole and in order.                                                     *)
OneSenderPerSnapshot ==
  \A s \in Streams : job[s].key # 0 => \E p \in Peers : job[s].bytes = Split(p, DataAt(job[s].key))

(* Whatever step of Create, Install or Cleanup a crash cuts short, what    *)
(* OpenLatest finds is a whole snapshot, with the data of the index that   *)
(* its metadata name.  Not of one that two Creates wrote at a time, as     *)
(* FileStore.mu, which should keep them apart, is never taken; nor of one  *)
(* exported after a peer's snapshot older than the data in Pebble was      *)
(* restored over them.                                                     *)
LatestIsWhole ==
  meta # {} =>
    /\ Newest \in DOMAIN snap \/ Newest \in clash
    /\ \/ Newest \in clash \cup hollow
       \/ \E p \in Peers \cup {Loop} : snap[Newest] = Split(p, DataAt(Newest))

(* Recovery from the newest snapshot and the WAL has no hole: each         *)
(* committed entry is in the data of the one or in the part of the other   *)
(* that is replayed, beside local compaction and peers' snapshots, older   *)
(* ones included.  Where LatestIsWhole says nothing of those data, the     *)
(* entries they should have are counted by the index of the snapshot.      *)
RecoveryHasNoHole ==
  \A i \in 1 .. commit :
    \/ i > Newest /\ i \in wal
    \/ /\ i <= Newest
       /\ Newest \in clash \cup hollow \/ i \in snap[Newest][1].data.seen

(* The newest snapshot on disk never gets older, even when a peer's older  *)
(* snapshot arrives late or Cleanup runs in two goroutines.                *)
NewestOnlyAdvances == [][Newest' >= Newest]_vars

=============================================================================
