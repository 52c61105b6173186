---------------------------- MODULE Replication ----------------------------
(***************************************************************************)
(* The directory of one service of a remote region, kept up to date in the *)
(* local cluster (internal/app/replication.go, internal/replication): the  *)
(* leader follows the source's WatchReplication stream and turns every     *)
(* event into commands of the local raft log, the checkpoint last.         *)
(*                                                                         *)
(* ProposeCommand returns when raft has accepted a command, so an event is *)
(* taken for applied while its commands may still be lost to a change of   *)
(* leader.  The loop looks at the leadership before it opens a stream and  *)
(* never again: a former leader's stream goes on, its commands forwarded.  *)
(*                                                                         *)
(* Events are named by their revision, and so is the value of an instance: *)
(* by the revision of the event that wrote it, 0 when it is absent.        *)
(***************************************************************************)
EXTENDS Integers, Sequences, FiniteSets, FiniteSetsExt, SequencesExt

CONSTANTS
  Nodes,       \* of the local cluster
  MaxKey,      \* bound: instances of the service are 1 .. MaxKey
  History,     \* events that the source's watch hub keeps
  MaxRev,      \* bound: revisions of the source
  MaxTail,     \* bound: proposals not yet committed
  MaxChanges,  \* bound: leader changes
  MaxFailures, \* bound: streams that an error ends, or a crash of their node
  MaxRestarts  \* bound: restarts of the source's node

ASSUME ConstantsAssumption ==
  /\ Nodes # {} /\ MaxKey \in Nat /\ History \in Nat \ {0} /\ MaxRev \in Nat /\ MaxTail \in Nat
  /\ MaxChanges \in Nat /\ MaxFailures \in Nat /\ MaxRestarts \in Nat

Keys == 1 .. MaxKey
Revisions == 0 .. MaxRev

VARIABLES
  source,     \* the source's events: revision -> [key, alive]
  oldest,     \* the first revision that its watch hub still holds
  replica,    \* committed and applied: instance -> value
  checkpoint, \* committed and applied: ReplicationCheckpoint
  tail,       \* commands accepted and not yet committed
  leader,     \* the node that raft elected last
  believes,   \* nodes whose Status() says that they lead
  stream,     \* node -> its replicateServiceLoop
  connected,  \* nodes whose Tracker says that the service's stream is connected
  excused,    \* what has gone wrong that the replication has no answer to (history)
  changes, failures, restarts

sourceVars == <<source, oldest, restarts>>
raftVars == <<replica, checkpoint, tail, leader, believes>>
vars == <<sourceVars, raftVars, stream, connected, excused, changes, failures>>

Event == [key : Keys, alive : BOOLEAN]
Checkpoint == [applied : Revisions, snapshot : Revisions]
Command == [op : {"clear"}] \cup [op : {"put"}, key : Keys, value : Revisions]
           \cup [op : {"checkpoint"}, value : Checkpoint]
\* since: what is asked of the source, and then the last event received;
\* todo: the commands of that event that are still to be proposed;
\* term, clean: the leader changes so far, and whether nothing was waiting to
\* be committed, when the checkpoint was read (history).
Stream == [phase : {"idle", "checked", "snapshot", "events", "eof"}, since : Revisions,
           todo : Seq(Command), term : 0 .. MaxChanges, clean : BOOLEAN]

Idle == [phase |-> "idle", since |-> 0, todo |-> <<>>, term |-> 0, clean |-> TRUE]

TypeOK ==
  /\ source \in Seq(Event) /\ Len(source) <= MaxRev
  /\ oldest \in 1 .. Len(source) + 1
  /\ replica \in [Keys -> Revisions] /\ checkpoint \in Checkpoint
  /\ tail \in Seq(Command) /\ Len(tail) <= MaxTail
  /\ leader \in Nodes /\ believes \subseteq Nodes /\ leader \in believes
  /\ stream \in [Nodes -> Stream] /\ connected \subseteq Nodes
  /\ excused \in BOOLEAN
  /\ changes \in 0 .. MaxChanges /\ failures \in 0 .. MaxFailures /\ restarts \in 0 .. MaxRestarts

-----------------------------------------------------------------------------
\* The source: a cluster whose WatchReplication the stream reads.

Latest == Len(source)

\* The value of instance k at revision r.
At(k, r) ==
  LET writes == {i \in 1 .. r : source[i].key = k}
      last == Max(writes)
  IN IF writes # {} /\ source[last].alive THEN last ELSE 0

\* SubscribeSince: whether the hub's history reaches back to the revision.
Exact(since) == since > 0 /\ oldest <= Latest /\ (since > Latest \/ since + 1 >= oldest)

\* An instance is registered or renewed, or removed.
SourceChanges(k, alive) ==
  /\ Latest < MaxRev
  /\ source' = Append(source, [key |-> k, alive |-> alive])
  /\ oldest' = Max({oldest, Latest + 2 - History})
  /\ UNCHANGED <<restarts, raftVars, stream, connected, excused, changes, failures>>

\* The source's node restarts: its hub forgets, and its streams come to an end
\* behind what they have delivered.
SourceRestarts ==
  /\ restarts < MaxRestarts
  /\ restarts' = restarts + 1
  /\ oldest' = Latest + 1
  /\ stream' = [n \in Nodes |-> IF stream[n].phase \in {"snapshot", "events"}
                                THEN [stream[n] EXCEPT !.phase = "eof"] ELSE stream[n]]
  /\ UNCHANGED <<source, raftVars, connected, excused, changes, failures>>

-----------------------------------------------------------------------------
\* Raft.

Apply(c) ==
  CASE c.op = "clear" -> replica' = [k \in Keys |-> 0] /\ UNCHANGED checkpoint
    [] c.op = "put" -> replica' = [replica EXCEPT ![c.key] = c.value] /\ UNCHANGED checkpoint
    [] c.op = "checkpoint" -> checkpoint' = c.value /\ UNCHANGED replica

Commit ==
  /\ tail # <<>>
  /\ Apply(Head(tail))
  /\ tail' = Tail(tail)
  /\ UNCHANGED <<sourceVars, leader, believes, stream, connected, excused, changes, failures>>

\* The snapshot in hand has been cleared for, and not yet checkpointed.
InSnapshot(n) ==
  LET todo == stream[n].todo
  IN /\ todo # <<>> /\ Head(todo).op # "clear"
     /\ \E i \in DOMAIN todo : todo[i].op = "checkpoint" /\ todo[i].value.snapshot > 0

\* Commands that hold the end of a snapshot and not the delete it begins with.
EndsSnapshot(lost) ==
  \E i \in DOMAIN lost : /\ lost[i].op = "checkpoint" /\ lost[i].value.snapshot > 0
                         /\ \A j \in 1 .. i : lost[j].op # "clear"

\* Another node is elected: the commands it does not have are lost.
ChangeLeader(n, kept) ==
  /\ changes < MaxChanges /\ n # leader
  /\ leader' = n /\ believes' = believes \cup {n}
  /\ tail' = SubSeq(tail, 1, kept)
  /\ changes' = changes + 1
  /\ excused' = \/ excused \/ EndsSnapshot(SubSeq(tail, kept + 1, Len(tail)))
                \/ \E m \in Nodes : InSnapshot(m)
  /\ UNCHANGED <<sourceVars, replica, checkpoint, stream, connected, failures>>

\* A former leader hears of the new one.
StepDown(n) ==
  /\ n \in believes \ {leader}
  /\ believes' = believes \ {n}
  /\ UNCHANGED <<sourceVars, replica, checkpoint, tail, leader, stream, connected, excused,
                 changes, failures>>

-----------------------------------------------------------------------------
\* replicateServiceLoop.

\* The loop's check: only a leader goes on to open a stream.
Check(n) ==
  /\ stream[n].phase = "idle"
  /\ n \in believes \/ n \in connected
  /\ stream' = IF n \in believes THEN [stream EXCEPT ![n].phase = "checked"] ELSE stream
  /\ connected' = connected \ {n}
  /\ UNCHANGED <<sourceVars, raftVars, excused, changes, failures>>

\* runReplicationStream reads the checkpoint, a linearizable read, which a
\* leader that raft has replaced cannot answer; and connects to the source.
OpenStream(n) ==
  LET since == checkpoint.applied
  IN /\ stream[n].phase = "checked" /\ (n = leader \/ n \notin believes)
     /\ stream' = [stream EXCEPT ![n] =
          [phase |-> IF Exact(since) THEN "events" ELSE "snapshot", since |-> since,
           todo |-> <<>>, term |-> changes, clean |-> tail = <<>>]]
     /\ connected' = connected \cup {n}
     /\ UNCHANGED <<sourceVars, raftVars, excused, changes, failures>>

Put(k, value) == [op |-> "put", key |-> k, value |-> value]

\* Mutant of Mark: the revision to go on from.
MarkNext(applied, snapshot) ==
  [op |-> "checkpoint", value |-> [applied |-> applied + 1, snapshot |-> snapshot]]

Mark(applied, snapshot) ==
  [op |-> "checkpoint", value |-> [applied |-> applied, snapshot |-> snapshot]]

\* Mutants of EventCommands: the checkpoint first; and a delete that is not
\* passed on.
CheckpointFirst(r) == <<Mark(r, 0), Put(source[r].key, At(source[r].key, r))>>
UpsertsOnly(r) ==
  IF source[r].alive THEN <<Put(source[r].key, r), Mark(r, 0)>> ELSE <<Mark(r, 0)>>

\* applyReplicationUpsert, applyReplicationDelete (the value 0).
EventCommands(r) == <<Put(source[r].key, At(source[r].key, r)), Mark(r, 0)>>

\* applyReplicationSnapshot: the service is cleared and written anew, instance by
\* instance, in whatever order the source lists them.
SnapshotCommands(r, now) ==
  LET there == SetToSeq({k \in Keys : At(k, now) # 0})
  IN <<[op |-> "clear"]>> \o [i \in DOMAIN there |-> Put(there[i], At(there[i], now))]
     \o <<Mark(r, r)>>

\* The stream's snapshot.  The source takes its revision before it scans: a
\* write in between is in the snapshot, and follows as an event once more.
ReceiveSnapshot(n, r) ==
  /\ stream[n].phase = "snapshot" /\ r \in {Latest, Latest - 1} /\ r > 0
  /\ stream' = [stream EXCEPT ![n].phase = "events", ![n].since = r,
                              ![n].todo = SnapshotCommands(r, Latest)]
  /\ UNCHANGED <<sourceVars, raftVars, connected, excused, changes, failures>>

\* The stream's next event, once the one before has been applied.
ReceiveEvent(n) ==
  LET r == stream[n].since + 1
  IN /\ stream[n].phase = "events" /\ stream[n].todo = <<>> /\ r <= Latest
     /\ stream' = [stream EXCEPT ![n].since = r, ![n].todo = EventCommands(r)]
     /\ UNCHANGED <<sourceVars, raftVars, connected, excused, changes, failures>>

\* A stream writes to a log that is not, from its checkpoint on, its own.
Strays(n) == n # leader \/ stream[n].term # changes \/ ~stream[n].clean

\* The next command of the event in hand is proposed: by the leader into its
\* log; by another node forwarded, or lost.  With the checkpoint goes the
\* tracker's UpdateRevision.
Send(n) ==
  LET c == Head(stream[n].todo)
  IN /\ stream[n].todo # <<>> /\ Len(tail) < MaxTail
     /\ \/ tail' = Append(tail, c)
        \/ n # leader /\ UNCHANGED tail
     /\ stream' = [stream EXCEPT ![n].todo = Tail(@)]
     /\ connected' = IF c.op = "checkpoint" THEN connected \cup {n} ELSE connected
     /\ excused' = (excused \/ Strays(n))
     /\ UNCHANGED <<sourceVars, replica, checkpoint, leader, believes, changes, failures>>

\* An error ends the stream: the read, the connection, an event's proposal
\* refused.  What is left of the event is dropped.
StreamFails(n) ==
  /\ stream[n].phase # "idle" /\ failures < MaxFailures
  /\ failures' = failures + 1
  /\ stream' = [stream EXCEPT ![n] = Idle]
  /\ connected' = connected \ {n}
  /\ excused' = (excused \/ InSnapshot(n))
  /\ UNCHANGED <<sourceVars, raftVars, changes>>

\* The node crashes and comes back; if it led, it may lead again.
Restart(n) ==
  /\ failures < MaxFailures
  /\ failures' = failures + 1
  /\ stream' = [stream EXCEPT ![n] = Idle]
  /\ connected' = connected \ {n}
  /\ excused' = (excused \/ InSnapshot(n))
  /\ UNCHANGED <<sourceVars, raftVars, changes>>

\* The source closes the stream, which is no error: the tracker goes on
\* calling it connected until the loop comes round.
StreamEnds(n) ==
  /\ stream[n].phase = "eof" /\ stream[n].todo = <<>>
  /\ stream' = [stream EXCEPT ![n] = Idle]
  /\ UNCHANGED <<sourceVars, raftVars, connected, excused, changes, failures>>

-----------------------------------------------------------------------------
Init ==
  /\ source = <<>> /\ oldest = 1 /\ restarts = 0
  /\ replica = [k \in Keys |-> 0] /\ checkpoint = [applied |-> 0, snapshot |-> 0]
  /\ leader = CHOOSE n \in Nodes : TRUE
  /\ tail = <<>> /\ believes = {leader}
  /\ stream = [n \in Nodes |-> Idle] /\ connected = {}
  /\ excused = FALSE /\ changes = 0 /\ failures = 0

Next ==
  \/ \E k \in Keys, alive \in BOOLEAN : SourceChanges(k, alive)
  \/ SourceRestarts \/ Commit
  \/ \E n \in Nodes :
       \/ StepDown(n) \/ Restart(n)
       \/ Check(n) \/ OpenStream(n) \/ ReceiveEvent(n) \/ Send(n) \/ StreamFails(n) \/ StreamEnds(n)
       \/ \E r \in Revisions : ReceiveSnapshot(n, r)
       \/ \E kept \in 0 .. Len(tail) : ChangeLeader(n, kept)

\* The leader commits, nodes hear of it, and every loop goes on.
Fairness ==
  /\ WF_vars(Commit)
  /\ \A n \in Nodes :
       /\ WF_vars(StepDown(n)) /\ WF_vars(Check(n)) /\ WF_vars(OpenStream(n))
       /\ WF_vars(ReceiveEvent(n)) /\ WF_vars(Send(n)) /\ WF_vars(StreamEnds(n))
       /\ WF_vars(\E r \in Revisions : ReceiveSnapshot(n, r))

Spec == Init /\ [][Next]_vars /\ Fairness

-----------------------------------------------------------------------------
\* Properties.

\* The replica holds, of every instance, what the source held at revision r
\* or later.
Covers(r) == \A k \in Keys : \E i \in r .. Latest : replica[k] = At(k, i)

(* When a checkpoint becomes the cluster's, nothing up to its revision is  *)
(* missing, whatever crashed or was cut off before                         *)
(* (CROSS_REGION_DIRECTORY_SYNC_DESIGN.md:540-548): through retries,       *)
(* restarts of the source, events delivered twice and commands lost with a *)
(* leader whose stream ends with it.  Excused is a checkpoint after a      *)
(* command of a stream that did not have the log to itself, or after a     *)
(* snapshot cut off behind the delete of the service: there a put that     *)
(* raft accepted may be lost and the checkpoint after it committed.        *)
CheckpointIsCovered == [][checkpoint' # checkpoint => excused \/ Covers(checkpoint'.applied)]_vars

(* A replica that was never led astray in that way ends up with what the   *)
(* source has, by the stream of the leader.                                *)
ReplicaConverges ==
  <>[](excused \/ Latest = 0 \/
       (/\ \A k \in Keys : replica[k] = At(k, Latest)
        /\ checkpoint.applied = Latest /\ leader \in connected))

=============================================================================
