------------------------------ MODULE FileWAL ------------------------------
(***************************************************************************)
(* The write-ahead log of a node as its files see it (internal/wal/wal.go):*)
(* hardstate.bin, replaced by a rename, and numbered segments to which     *)
(* records are appended one by one.  Append extends the last segment or,   *)
(* when raft overwrites its tail, removes the segments from the first one  *)
(* touched and writes them again; TruncatePrefix removes whole segments    *)
(* and rewrites the one at the boundary; Open reads the files back.        *)
(*                                                                         *)
(* An operation holds the lock throughout, so its steps are the writes at  *)
(* which a crash or an error of the disk can cut it short.  A record is    *)
(* its entry's index and term, hardstate.bin its Term, and a segment is    *)
(* full after SegmentRecords records.  A file is the sequence of the whole *)
(* records written to it; what is in memory in the order of its indices or *)
(* numbers, as a slice, is a set.                                          *)
(*                                                                         *)
(* A record cut short is not taken back, neither by the call that fails    *)
(* nor by Open, and later ones are written behind it.  readSegment then    *)
(* takes their bytes for the rest of it: such a file cannot be read.       *)
(***************************************************************************)
EXTENDS Integers, Sequences, FiniteSets, FiniteSetsExt, Functions

CONSTANTS
  MaxIndex,       \* bound: the longest log
  MaxTerm,        \* bound: the terms of raft
  MaxBatch,       \* bound: entries of one Append
  SegmentRecords, \* records that fit in maxSegmentSize
  MaxCrashes,     \* bound: process crashes
  MaxHalf,        \* bound: files with a record cut short
  MaxFaults       \* bound: calls of the file system that return an error

ASSUME ConstantsAssumption ==
  /\ MaxIndex \in Nat \ {0} /\ MaxTerm \in Nat \ {0} /\ MaxBatch \in Nat \ {0}
  /\ SegmentRecords \in Nat \ {0}
  /\ MaxCrashes \in Nat /\ MaxHalf \in Nat /\ MaxFaults \in Nat

Index == 1 .. MaxIndex
Entry == [index : Index, term : 1 .. MaxTerm]
Segment == [id : Nat \ {0}, first : Index, last : 0 .. MaxIndex]

VARIABLES
  files,    \* segment files: id -> records
  half,     \* the files with a record whose payload is cut short or overwritten
  stub,     \* the files with a length prefix cut short
  state,    \* Term of hardstate.bin
  term,     \* Term of FileWAL.state
  entries,  \* FileWAL.entries; kept while the process is down (history)
  segments, \* FileWAL.segments
  pc,       \* step of the operation that holds the lock
  todo,     \* entries that appendEntriesIncremental has yet to write
  batch,    \* all of its entries
  work,     \* its local copy of segments
  fresh,    \* its lastSegment is nil
  nextId,   \* its nextID
  doomed,   \* ids of the segments yet to be removed
  keep,     \* segments that stay
  floor,    \* index of the last TruncatePrefix, at which a snapshot stands
  raftLast, \* last index of raft's log, whatever Append returned
  mirror,   \* the entries of MemoryWAL after the same calls: raft's log (history)
  mirrorState, \* Term of its HardState, 0 for an empty one (history)
  exposed,  \* first index of the segments that rewriteTail is replacing, or was
            \* replacing when the process died; None otherwise (history)
  lost,     \* indices of the segments that had been removed when the removal of
            \* another one failed (history)
  refused,  \* Append found a gap or no file for its last segment (history)
  crashes, faults

fileVars == <<files, half, stub>>
diskVars == <<fileVars, state>>
memVars == <<entries, segments>>
opVars == <<pc, todo, batch, work, fresh, nextId, doomed, keep>>
logVars == <<floor, raftLast, mirror, mirrorState>>
pastVars == <<exposed, lost, refused>>
vars == <<diskVars, term, memVars, opVars, logVars, pastVars, crashes, faults>>

None == MaxIndex + 1

TypeOK ==
  /\ files \in [DOMAIN files -> Seq(Entry)] /\ DOMAIN files \subseteq Nat \ {0}
  /\ half \subseteq DOMAIN files /\ stub \subseteq DOMAIN files
  /\ state \in 0 .. MaxTerm /\ term \in 0 .. MaxTerm
  /\ entries \subseteq Entry /\ batch \subseteq Entry /\ todo \subseteq batch
  /\ \A segs \in {segments, work, keep} :
       segs \subseteq Segment /\ \A r, s \in segs : r.id = s.id => r = s
  /\ pc \in {"closed", "idle", "append", "remove", "drop"}
  /\ fresh \in BOOLEAN /\ nextId \in Nat \ {0} /\ doomed \subseteq Nat \ {0}
  /\ floor \in 0 .. MaxIndex /\ raftLast \in 0 .. MaxIndex
  /\ mirror \subseteq Entry /\ mirrorState \in 0 .. MaxTerm
  /\ exposed \in 1 .. None /\ lost \subseteq Index
  /\ refused \in BOOLEAN
  /\ crashes \in 0 .. MaxCrashes /\ faults \in 0 .. MaxFaults

-----------------------------------------------------------------------------
\* Helpers.

Below(es, i) == {e \in es : e.index < i}
From(es, i) == {e \in es : e.index >= i}
LastIndex(es) == Max({e.index : e \in es} \cup {0})

\* The records of the entries from i to j, in the order in which they are written.
Between(es, i, j) == [k \in 1 .. j - i + 1 |-> CHOOSE e \in es : e.index = i + k - 1]

\* What a loop over the entries comes to first.
FirstOf(es) == CHOOSE e \in es : \A d \in es : e.index <= d.index

\* n entries of term t from index i on.
Entries(i, n, t) == {[index |-> j, term |-> t] : j \in i .. i + n - 1}

\* mergeEntries: entries that arrive replace the tail from their first, i, on.
Merged(old, i, new) == Below(old, i) \cup new

\* loadEntries: the files by number; those without a record have no segment.
OnDisk == UNION {Range(files[f]) : f \in DOMAIN files}
LoadedSegments ==
  {[id |-> f, first |-> files[f][1].index, last |-> files[f][Len(files[f])].index] :
     f \in {g \in DOMAIN files : files[g] # <<>>}}

\* Mutant of NextSegmentId: the number of the last segment again.
NextSegmentIdAgain(segs) == Max({s.id : s \in segs} \cup {1})

NextSegmentId(segs) == Max({s.id : s \in segs} \cup {0}) + 1

Oldest(segs) == CHOOSE s \in segs : \A r \in segs : s.id <= r.id
Latest(segs) == CHOOSE s \in segs : \A r \in segs : r.id <= s.id

\* The segments from the first one that reaches index i on, found by sort.Search.
Reaching(i) == {s \in segments : \E r \in segments : r.id <= s.id /\ r.last >= i}

IdsOf(segs) == {s.id : s \in segs}

-----------------------------------------------------------------------------

Init ==
  /\ files = [f \in {} |-> <<>>] /\ half = {} /\ stub = {} /\ state = 0 /\ term = 0
  /\ entries = {} /\ segments = {}
  /\ pc = "closed" /\ todo = {} /\ batch = {} /\ work = {}
  /\ fresh = TRUE /\ nextId = 1 /\ doomed = {} /\ keep = {}
  /\ floor = 0 /\ raftLast = 0 /\ mirror = {} /\ mirrorState = 0
  /\ exposed = None /\ lost = {} /\ refused = FALSE
  /\ crashes = 0 /\ faults = 0

\* readSegment breaks off at a length prefix cut short.  It returns an error at a
\* payload cut short, and takes whatever follows either for the rest of the record.
Readable == half = {}

\* The records, file after file, go up in their index, and skip none.
Ascending ==
  \A f, g \in DOMAIN files : \A j \in DOMAIN files[f], k \in DOMAIN files[g] :
    f < g \/ (f = g /\ j < k) => files[f][j].index < files[g][k].index
NoGap(es) == \A d, e \in es : \A i \in d.index .. e.index : \E c \in es : c.index = i
OneLog == Ascending /\ NoGap(OnDisk)

\* Open, Load and raft's restart: the log is what the files hold.  Where Open
\* returns an error the node does not start, and it is not followed further on a
\* log with a hole, which raft cannot run on.
Open ==
  /\ pc = "closed" /\ Readable
  /\ OneLog /\ (OnDisk # {} => \E e \in OnDisk : e.index <= floor + 1)
  /\ entries' = OnDisk /\ segments' = LoadedSegments /\ term' = state
  /\ mirror' = OnDisk /\ mirrorState' = state
  /\ raftLast' = Max({floor, LastIndex(OnDisk)})
  /\ pc' = "idle" /\ exposed' = None /\ lost' = {}
  /\ UNCHANGED <<diskVars, todo, batch, work, fresh, nextId, doomed, keep, floor,
                 refused, crashes, faults>>

\* Back to the caller: nothing is left of the operation.
Return ==
  /\ pc' = "idle" /\ todo' = {} /\ batch' = {} /\ work' = {}
  /\ fresh' = TRUE /\ nextId' = 1 /\ doomed' = {} /\ keep' = {}

-----------------------------------------------------------------------------
\* A call of the file system returns an error.
Fault == faults < MaxFaults /\ faults' = faults + 1

\* hardstate.bin is written beside the old one and renamed.
PersistState(t, ok) ==
  IF ok THEN state' = t /\ UNCHANGED faults ELSE Fault /\ UNCHANGED state

Sync(ok) ==
  /\ pc = "idle" /\ PersistState(term, ok)
  /\ UNCHANGED <<fileVars, term, memVars, opVars, logVars, pastVars, crashes>>

-----------------------------------------------------------------------------
\* Append.

\* The HardState of an Append, which is empty when raft's has not changed: FileWAL
\* then keeps the one it has, MemoryWAL the empty one.
HardState(t) ==
  /\ t \in term .. MaxTerm /\ term' = t
  /\ mirrorState' = t \/ (t = term /\ mirrorState' = 0)

\* Without entries.
AppendState(t, ok) ==
  /\ pc = "idle" /\ HardState(t) /\ PersistState(t, ok)
  /\ UNCHANGED <<fileVars, memVars, opVars, floor, raftLast, mirror, pastVars, crashes>>

\* appendEntriesIncremental is entered with the segments that are in memory.
Write(es, segs, id, toLast) ==
  /\ pc' = "append" /\ todo' = es /\ batch' = es /\ work' = segs
  /\ nextId' = id /\ fresh' = ~(toLast /\ segs # {})

\* The entries follow the tail.
AppendNext(i, es) ==
  /\ entries = {} \/ i = LastIndex(entries) + 1
  /\ Write(es, segments, NextSegmentId(segments), TRUE)
  /\ UNCHANGED <<doomed, keep, exposed, refused>>

\* The entries would leave a gap: an error, and nothing is written.  MemoryWAL has
\* no such check.
AppendGap(i) ==
  /\ entries # {} /\ i > LastIndex(entries) + 1
  /\ refused' = TRUE
  /\ UNCHANGED <<opVars, exposed>>

\* Mutant of AppendOverlap: the search misses the segment that ends at the
\* overlapping index.
AppendOverlapLate(i, es) ==
  LET hit == IF Reaching(i + 1) # {} THEN Reaching(i + 1) ELSE {Latest(segments)}
      s == Oldest(hit)
  IN  /\ entries # {} /\ i <= LastIndex(entries)
      /\ pc' = "remove"
      /\ keep' = segments \ hit /\ doomed' = IdsOf(hit)
      /\ batch' = From(Merged(entries, i, es), s.first)
      /\ nextId' = s.id
      /\ exposed' = s.first
      /\ UNCHANGED <<todo, work, fresh, refused>>

\* rewriteTail: the segments from the first one that the entries touch on will be
\* removed and written again.  There is one: the last segment ends at the last entry,
\* so neither the search nor w.segments can come out empty.
AppendOverlap(i, es) ==
  LET hit == Reaching(i)
      s == Oldest(hit)
  IN  /\ entries # {} /\ i <= LastIndex(entries)
      /\ hit # {}
      /\ pc' = "remove"
      /\ keep' = segments \ hit /\ doomed' = IdsOf(hit)
      /\ batch' = From(Merged(entries, i, es), s.first)
      /\ nextId' = s.id
      /\ exposed' = s.first
      /\ UNCHANGED <<todo, work, fresh, refused>>

\* raft appends n entries of term t at i, after its last or, in a newer term, in
\* place of what no quorum has.
RaftAppends(i, n, t) ==
  /\ i \in floor + 1 .. raftLast + 1 /\ i + n - 1 <= MaxIndex
  /\ \A e \in From(mirror, i) : e.term < t
  /\ raftLast' = i + n - 1
  /\ mirror' = Merged(mirror, i, Entries(i, n, t))

\* Mutant of AppendBegin: hardstate.bin is written after the entries, that is by
\* the next call.
AppendBeginStateLater(i, n, t, ok) ==
  LET es == Entries(i, n, t)
  IN  /\ pc = "idle" /\ HardState(t) /\ RaftAppends(i, n, t)
      /\ AppendNext(i, es) \/ AppendGap(i) \/ AppendOverlap(i, es)
      /\ UNCHANGED <<diskVars, memVars, floor, lost, crashes, faults>>

\* hardstate.bin is written first; when that fails, nothing else is.
AppendBegin(i, n, t, ok) ==
  LET es == Entries(i, n, t)
  IN  /\ pc = "idle" /\ HardState(t) /\ PersistState(t, ok) /\ RaftAppends(i, n, t)
      /\ IF ok
         THEN AppendNext(i, es) \/ AppendGap(i) \/ AppendOverlap(i, es)
         ELSE UNCHANGED <<opVars, exposed, refused>>
      /\ UNCHANGED <<fileVars, memVars, floor, lost, crashes>>

\* fileSize finds no file: a removal that failed left the segments in memory.
Missing == ~fresh /\ Latest(work).id \notin DOMAIN files

NeedsSegment == IF fresh THEN TRUE ELSE Len(files[Latest(work).id]) >= SegmentRecords

\* createSegment truncates a file that a crash left under the same number.
CreateSegment ==
  LET i == FirstOf(todo).index
  IN  /\ pc = "append" /\ ~Missing /\ NeedsSegment
      /\ files' = [f \in DOMAIN files \cup {nextId} |->
                     IF f = nextId THEN <<>> ELSE files[f]]
      /\ half' = half \ {nextId} /\ stub' = stub \ {nextId}
      /\ work' = work \cup {[id |-> nextId, first |-> i, last |-> i - 1]}
      /\ fresh' = FALSE /\ nextId' = nextId + 1
      /\ UNCHANGED <<state, term, memVars, pc, todo, batch, doomed, keep, logVars,
                     pastVars, crashes, faults>>

\* appendRecord writes the length and then the payload, behind what is there.
WriteRecord(f) ==
  /\ files' = [files EXCEPT ![f] = Append(@, FirstOf(todo))]
  /\ half' = half \cup (stub \cap {f})
  /\ UNCHANGED stub

\* It breaks off inside the length or inside the payload.
TearRecord(f) ==
  /\ Cardinality(half \cup stub) < MaxHalf
  /\ \/ stub' = stub \cup {f} /\ UNCHANGED half
     \/ half' = half \cup {f} /\ UNCHANGED stub
  /\ UNCHANGED files

CanWrite == pc = "append" /\ ~Missing /\ ~NeedsSegment

\* What is left where an operation stops: nothing new, or a record, torn or whole,
\* that appendRecord has not returned from.
BreaksOff ==
  \/ UNCHANGED fileVars
  \/ CanWrite /\ (TearRecord(Latest(work).id) \/ WriteRecord(Latest(work).id))

\* appendRecord; after the last one the memory is brought up to date.
AppendRecord ==
  LET e == FirstOf(todo)
      s == Latest(work)
      written == (work \ {s}) \cup {[s EXCEPT !.last = e.index]}
  IN  /\ CanWrite
      /\ WriteRecord(s.id)
      /\ IF todo = {e}
         THEN /\ Return
              /\ segments' = written /\ entries' = entries \cup batch
              /\ exposed' = None
         ELSE /\ todo' = todo \ {e} /\ work' = written
              /\ UNCHANGED <<memVars, pc, batch, fresh, nextId, doomed, keep,
                             exposed>>
      /\ UNCHANGED <<state, term, logVars, lost, refused, crashes, faults>>

\* os.Remove, for which a file that is not there is no error.
Remove(f) ==
  /\ pc \in {"remove", "drop"} /\ doomed # {}
  /\ files' = [g \in DOMAIN files \ {f} |-> files[g]]
  /\ half' = half \ {f} /\ stub' = stub \ {f}
  /\ doomed' = doomed \ {f}
  /\ UNCHANGED <<state, term, memVars, pc, todo, batch, work, fresh, nextId, keep,
                 logVars, pastVars, crashes, faults>>

\* Mutant of RemoveFile: the newest segment goes first.
RemoveNewestFile == Remove(Max(doomed))

\* The segments go in ascending order, for rewriteTail and TruncatePrefix.
RemoveFile == Remove(Min(doomed))

\* rewriteTail: the entries from the first removed segment on are written anew.
\* There is none when an append that failed had left a gap before it.
RewriteTail ==
  /\ pc = "remove" /\ doomed = {}
  /\ segments' = keep /\ entries' = Below(entries, exposed)
  /\ lost' = {j \in lost : j < exposed}
  /\ IF batch = {}
     THEN Return /\ exposed' = None
     ELSE /\ Write(batch, keep, nextId, FALSE)
          /\ keep' = {} /\ UNCHANGED <<doomed, exposed>>
  /\ UNCHANGED <<diskVars, term, logVars, refused, crashes, faults>>

-----------------------------------------------------------------------------
\* TruncatePrefix, for a snapshot at the index.  Each way out without an error ends
\* in persistState.

MirrorTruncated(i) == From(mirror, i)

\* Mutant of TruncateBegin: the segment that ends at the index goes too.
TruncateBeginPast(i, ok) ==
  /\ pc = "idle" /\ i \in floor + 1 .. MaxIndex
  /\ floor' = i /\ raftLast' = Max({raftLast, i})
  /\ mirror' = MirrorTruncated(i)
  /\ IF \A e \in entries : i <= e.index
     THEN PersistState(term, ok) /\ UNCHANGED opVars
     ELSE /\ pc' = "drop"
          /\ doomed' = IdsOf(segments \ Reaching(i + 1)) /\ keep' = Reaching(i + 1)
          /\ UNCHANGED <<state, todo, batch, work, fresh, nextId, faults>>
  /\ UNCHANGED <<fileVars, term, memVars, mirrorState, pastVars, crashes>>

\* The segments that end before the index will be removed.
TruncateBegin(i, ok) ==
  /\ pc = "idle" /\ i \in floor + 1 .. MaxIndex
  /\ floor' = i /\ raftLast' = Max({raftLast, i})
  /\ mirror' = MirrorTruncated(i)
  /\ IF \A e \in entries : i <= e.index
     THEN PersistState(term, ok) /\ UNCHANGED opVars
     ELSE /\ pc' = "drop"
          /\ doomed' = IdsOf(segments \ Reaching(i)) /\ keep' = Reaching(i)
          /\ UNCHANGED <<state, todo, batch, work, fresh, nextId, faults>>
  /\ UNCHANGED <<fileVars, term, memVars, mirrorState, pastVars, crashes>>

\* rewriteSegmentFile: a new file takes the name.
RewriteSegment(id, es) ==
  /\ files' = [f \in DOMAIN files \cup {id} |-> IF f = id THEN es ELSE files[f]]
  /\ half' = half \ {id} /\ stub' = stub \ {id}

\* Mutant of TruncateFinish: the boundary segment keeps its old first index.
TruncateFinishOldFirst(ok) ==
  LET s == Oldest(keep)
  IN  /\ pc = "drop" /\ doomed = {}
      /\ segments' = keep /\ entries' = From(entries, floor)
      /\ IF keep # {} /\ s.first < floor
         THEN RewriteSegment(s.id, Between(entries, floor, s.last))
         ELSE UNCHANGED fileVars
      /\ Return /\ UNCHANGED term /\ PersistState(term, ok)
      /\ UNCHANGED <<logVars, pastVars, crashes>>

\* The boundary segment is replaced with what stays of it.
TruncateFinish(ok) ==
  LET s == Oldest(keep)
  IN  /\ pc = "drop" /\ doomed = {}
      /\ entries' = From(entries, floor)
      /\ IF keep # {} /\ s.first < floor
         THEN /\ segments' = (keep \ {s}) \cup {[s EXCEPT !.first = floor]}
              /\ RewriteSegment(s.id, Between(entries, floor, s.last))
         ELSE segments' = keep /\ UNCHANGED fileVars
      /\ Return /\ UNCHANGED term /\ PersistState(term, ok)
      /\ UNCHANGED <<logVars, pastVars, crashes>>

-----------------------------------------------------------------------------
\* Mishaps.  After an error what was written stays, and the memory does not know.

\* A write of appendEntriesIncremental returns an error, or the last segment has no
\* file.
WriteFails ==
  /\ pc = "append"
  /\ IF Missing
     THEN refused' = TRUE /\ UNCHANGED <<fileVars, faults>>
     ELSE Fault /\ BreaksOff /\ UNCHANGED refused
  /\ Return /\ exposed' = None
  /\ UNCHANGED <<state, term, memVars, logVars, lost, crashes>>

\* The indices of the segments that an operation has removed so far.
Gone == {j \in Index : \E s \in segments \ keep :
                         s.id \notin doomed /\ s.first <= j /\ j <= s.last}

\* os.Remove of the next segment returns an error, and so does rewriteSegmentFile.
\* The memory still has the segments that are gone.  Those that TruncatePrefix removes
\* end before the snapshot; of what rewriteTail has removed there is no other copy.
ReplaceFails ==
  /\ pc \in {"remove", "drop"}
  /\ \/ doomed # {}
     \/ pc = "drop" /\ keep # {} /\ Oldest(keep).first < floor
  /\ Fault
  /\ lost' = lost \cup Gone
  /\ Return /\ exposed' = None
  /\ UNCHANGED <<diskVars, term, memVars, logVars, refused, crashes>>

\* The process dies between two writes or inside appendRecord.
Crash ==
  /\ pc # "closed" /\ crashes < MaxCrashes
  /\ crashes' = crashes + 1
  /\ BreaksOff
  /\ pc' = "closed" /\ todo' = {} /\ batch' = {} /\ work' = {}
  /\ fresh' = TRUE /\ nextId' = 1 /\ doomed' = {} /\ keep' = {}
  /\ segments' = {} /\ term' = 0
  /\ UNCHANGED <<state, entries, logVars, pastVars, faults>>

-----------------------------------------------------------------------------

Next ==
  \/ Open
  \/ \E ok \in BOOLEAN :
       \/ Sync(ok)
       \/ \E t \in 1 .. MaxTerm : AppendState(t, ok)
       \/ \E i \in Index, n \in 1 .. MaxBatch, t \in 1 .. MaxTerm :
            AppendBegin(i, n, t, ok)
       \/ \E i \in Index : TruncateBegin(i, ok)
       \/ TruncateFinish(ok)
  \/ CreateSegment \/ AppendRecord \/ RemoveFile \/ RewriteTail
  \/ WriteFails \/ ReplaceFails \/ Crash

Spec == Init /\ [][Next]_vars

-----------------------------------------------------------------------------
\* Properties.

\* No call returned an error.
Sound == faults = 0 /\ ~refused

\* Whatever moment the process dies at, and whatever call has failed, what Open would
\* load next holds every entry that the node was told is stored and that no snapshot
\* covers, up to the first segment that rewriteTail was about to write again, and
\* apart from those it had removed when the removal of another one failed
\* (wal.go:564-589).  Nothing is said of files that Open cannot read.
AckedSurvive ==
  Readable =>
    \A e \in entries :
      floor <= e.index /\ e.index < exposed /\ e.index \notin lost => e \in OnDisk

\* Open finds one log without gap or repetition after a crash at any write, those
\* inside rewriteTail apart: segments are removed from the oldest on and the
\* numbers of new ones go up (wal.go:337-365, 255-259).
LoadIsContiguous == Sound /\ exposed = None /\ Readable => OneLog

\* No record is on disk that is newer than the Term of hardstate.bin, which every
\* call replaces before it writes entries, and does not go on when it cannot: raft
\* would panic over a log that is ahead of its term (wal.go:150-155).
StateCoversEntries == \A e \in OnDisk : e.term <= state

\* Between two calls the memory and the files tell the same: the index range of
\* each segment is that of the records in its file, none is overfull, and no other
\* file has a record.  A wrong range would make the next rewriteTail or
\* TruncatePrefix pick the wrong files (wal.go:241-287, 475-529).
SegmentsMatchFiles ==
  Sound /\ Readable /\ pc = "idle" =>
    /\ segments = LoadedSegments /\ entries = OnDisk
    /\ \A f \in DOMAIN files : Len(files[f]) <= SegmentRecords

\* FileWAL holds the log that MemoryWAL, the implementation of the tests, holds after
\* the same calls, a restart included, and the same HardState, unless the last Append
\* brought none: MemoryWAL has then forgotten it (memory.go:58), although
\* memory.go:11-20 says that the two agree.
MirrorsMemoryWAL ==
  Sound /\ Readable /\ pc = "idle" =>
    entries = mirror /\ (mirrorState # 0 => mirrorState = state)

=============================================================================
