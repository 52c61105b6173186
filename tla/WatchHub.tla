------------------------------ MODULE WatchHub ------------------------------
(***************************************************************************)
(* The instance watch of one node: the apply loop emits each applied batch *)
(* on readyCh (internal/raftnode/node.go, emitReady), forwardReadyLoop     *)
(* turns it into registry events (internal/app/app.go), the hub keeps a    *)
(* window of history and fans the events out (internal/registry/watch.go), *)
(* and a stream per client starts from a snapshot or from replayed history *)
(* and goes on with live events (WatchInstances and WatchReplication in    *)
(* internal/transport/http/handlers_impl.go).                              *)
(*                                                                         *)
(* An event is its revision, the index of its log entry; an entry that is  *)
(* no put or delete of an instance has no event.  The filter of a stream's *)
(* query is left out.                                                      *)
(***************************************************************************)
EXTENDS Integers, Sequences, FiniteSets, SequencesExt

CONSTANTS
  Streams,     \* the watch requests
  MaxRevision, \* bound: the length of the log
  ReadyBuffer, \* cfg.ReadyBufferSize, the capacity of readyCh
  HistoryCap,  \* the 2048 of appendHistoryLocked
  Buffer       \* the 128 of SubscribeSince

ASSUME ConstantsAssumption ==
  /\ MaxRevision \in Nat /\ ReadyBuffer \in Nat \ {0}
  /\ HistoryCap \in Nat \ {0} /\ Buffer \in Nat \ {0}

Revision == 1 .. MaxRevision

VARIABLES
  applied,    \* Status().AppliedIndex
  events,     \* the applied entries that have an event
  readyCh,    \* applied entries not yet seen by forwardReadyLoop
  history,    \* WatchHub.history
  watchers,   \* keys of WatchHub.watchers
  chan,       \* channel of each stream
  closed,     \* the streams whose channel is closed
  pub,        \* what Publish does: "idle", "send" or "close"
  event,      \* the event being published
  targets,    \* copied watchers that Publish has yet to send to
  slow,       \* slowWatchers
  panicked,   \* the process died of a send on a closed channel
  pc,         \* what each stream does
  since,      \* sinceRevision of each stream
  current,    \* currentRevision of each stream
  base,       \* the revision after which the stream owes all events (history)
  got         \* events that the client of each stream has been told (history)

nodeVars == <<applied, events, readyCh>>
hubVars == <<history, watchers, chan, closed>>
pubVars == <<pub, event, targets, slow>>
streamVars == <<pc, since, current, base, got>>
vars == <<nodeVars, hubVars, pubVars, panicked, streamVars>>

TypeOK ==
  /\ applied \in 0 .. MaxRevision /\ events \subseteq 1 .. applied
  /\ readyCh \in Seq(Revision) /\ Len(readyCh) <= ReadyBuffer
  /\ history \in Seq(Revision) /\ Len(history) <= HistoryCap
  /\ watchers \subseteq Streams /\ closed \subseteq Streams
  /\ chan \in [Streams -> Seq(Revision)]
  /\ \A s \in Streams : Len(chan[s]) <= Buffer
  /\ pub \in {"idle", "send", "close"} /\ event \in 0 .. MaxRevision
  /\ targets \subseteq Streams /\ slow \subseteq Streams
  /\ panicked \in BOOLEAN
  /\ pc \in [Streams -> {"new", "snapshot", "scan", "live", "gone", "ended"}]
  /\ since \in [Streams -> 0 .. MaxRevision]
  /\ current \in [Streams -> 0 .. MaxRevision]
  /\ base \in [Streams -> 0 .. MaxRevision]
  /\ got \in [Streams -> SUBSET Revision]

Init ==
  /\ applied = 0 /\ events = {} /\ readyCh = <<>>
  /\ history = <<>> /\ watchers = {} /\ closed = {}
  /\ chan = [s \in Streams |-> <<>>]
  /\ pub = "idle" /\ event = 0 /\ targets = {} /\ slow = {}
  /\ panicked = FALSE
  /\ pc = [s \in Streams |-> "new"]
  /\ since = [s \in Streams |-> 0] /\ current = [s \in Streams |-> 0]
  /\ base = [s \in Streams |-> 0] /\ got = [s \in Streams |-> {}]

-----------------------------------------------------------------------------
\* The apply loop and forwardReadyLoop.

\* An entry is applied; emitReady drops the Ready when readyCh is full.
Apply(isEvent) ==
  /\ ~panicked /\ applied < MaxRevision
  /\ applied' = applied + 1
  /\ events' = IF isEvent THEN events \cup {applied + 1} ELSE events
  /\ readyCh' = IF Len(readyCh) < ReadyBuffer THEN Append(readyCh, applied + 1)
                                             ELSE readyCh
  /\ UNCHANGED <<hubVars, pubVars, panicked, streamVars>>

\* The next Ready has no event.
SkipReady ==
  /\ ~panicked /\ pub = "idle" /\ readyCh # <<>>
  /\ Head(readyCh) \notin events
  /\ readyCh' = Tail(readyCh)
  /\ UNCHANGED <<applied, events, hubVars, pubVars, panicked, streamVars>>

\* Mutant of Recorded: the window is cut one event late.
RecordedOneMore(hist, rev) ==
  LET all == Append(hist, rev)
  IN  IF Len(all) > HistoryCap + 1 THEN Tail(all) ELSE all

\* appendHistoryLocked: the newest HistoryCap events stay.
Recorded(hist, rev) ==
  LET all == Append(hist, rev)
  IN  IF Len(all) > HistoryCap THEN SubSeq(all, Len(all) - HistoryCap + 1, Len(all))
                               ELSE all

\* Publish, under the lock: the event is recorded and the watchers are copied.
PublishBegin ==
  /\ ~panicked /\ pub = "idle" /\ readyCh # <<>>
  /\ Head(readyCh) \in events
  /\ readyCh' = Tail(readyCh)
  /\ history' = Recorded(history, Head(readyCh))
  /\ event' = Head(readyCh)
  /\ targets' = watchers /\ slow' = {} /\ pub' = "send"
  /\ UNCHANGED <<applied, events, watchers, chan, closed, panicked, streamVars>>

\* Mutant of PublishSend: a watcher with a full buffer just misses the event.
PublishSendOrSkip(s) ==
  /\ ~panicked /\ pub = "send" /\ s \in targets
  /\ targets' = targets \ {s}
  /\ panicked' = (s \in closed)
  /\ chan' = IF s \notin closed /\ Len(chan[s]) < Buffer
             THEN [chan EXCEPT ![s] = Append(@, event)] ELSE chan
  /\ UNCHANGED <<nodeVars, history, watchers, closed, pub, event, slow, streamVars>>

\* Publish, without the lock: one copied watcher gets the event or is noted as
\* slow.  A send on a closed channel panics, in a select with a default too.
PublishSend(s) ==
  /\ ~panicked /\ pub = "send" /\ s \in targets
  /\ targets' = targets \ {s}
  /\ panicked' = (s \in closed)
  /\ chan' = IF s \notin closed /\ Len(chan[s]) < Buffer
             THEN [chan EXCEPT ![s] = Append(@, event)] ELSE chan
  /\ slow' = IF s \notin closed /\ Len(chan[s]) >= Buffer THEN slow \cup {s}
                                                          ELSE slow
  /\ UNCHANGED <<nodeVars, history, watchers, closed, pub, event, streamVars>>

PublishSent ==
  /\ ~panicked /\ pub = "send" /\ targets = {}
  /\ pub' = IF slow = {} THEN "idle" ELSE "close"
  /\ UNCHANGED <<nodeVars, hubVars, event, targets, slow, panicked, streamVars>>

\* Mutant of PublishClose: the slow watchers are removed, not closed.
PublishForget ==
  /\ ~panicked /\ pub = "close"
  /\ watchers' = watchers \ slow
  /\ pub' = "idle" /\ slow' = {}
  /\ UNCHANGED <<nodeVars, history, chan, closed, event, targets, panicked,
                 streamVars>>

\* Publish, under the lock again: slow watchers that are still there are closed.
PublishClose ==
  /\ ~panicked /\ pub = "close"
  /\ watchers' = watchers \ slow
  /\ closed' = closed \cup (slow \cap watchers)
  /\ pub' = "idle" /\ slow' = {}
  /\ UNCHANGED <<nodeVars, history, chan, event, targets, panicked, streamVars>>

-----------------------------------------------------------------------------
\* A stream.

\* Mutant of ReplayExact: the event after rev may be missing from the window.
ReplayExactOffByOne(rev) ==
  /\ rev # 0 /\ history # <<>>
  /\ rev + 2 >= history[1]

\* replaySinceLocked: whether the window covers what follows rev.
ReplayExact(rev) ==
  /\ rev # 0 /\ history # <<>>
  /\ rev + 1 >= history[1]

\* The positions of the window that are replayed.
Replayed(rev) == {i \in DOMAIN history : history[i] > rev}

LastPublished == IF history = <<>> THEN 0 ELSE Last(history)

\* SubscribeSince, and what WatchInstances makes of its answer.  A stream owes its
\* client what comes after the revision it asks for; without one, and without a
\* snapshot, what is published from now on.
Subscribe(s, rev, includeSnapshot) ==
  /\ ~panicked /\ pc[s] = "new"
  /\ since' = [since EXCEPT ![s] = rev]
  /\ base' = [base EXCEPT ![s] = IF rev = 0 /\ ~includeSnapshot THEN LastPublished
                                                              ELSE rev]
  /\ watchers' = watchers \cup {s}
  /\ current' = [current EXCEPT ![s] =
       IF ReplayExact(rev) /\ Replayed(rev) # {} THEN history[Max(Replayed(rev))]
                                               ELSE rev]
  /\ got' = [got EXCEPT ![s] =
       IF ReplayExact(rev) THEN {history[i] : i \in Replayed(rev)} ELSE {}]
  /\ pc' = [pc EXCEPT ![s] =
       CASE ReplayExact(rev) -> "live"
         [] ~ReplayExact(rev) /\ includeSnapshot -> "snapshot"
         [] ~ReplayExact(rev) /\ ~includeSnapshot ->
              IF rev = 0 THEN "live" ELSE "gone"]
  /\ UNCHANGED <<nodeVars, history, chan, closed, pubVars, panicked>>

\* registryWatchSnapshot: after the read barrier, which waits for all that was
\* committed when it began, the client's sinceRevision included.
SnapshotRevision(s) ==
  /\ ~panicked /\ pc[s] = "snapshot" /\ applied >= since[s]
  /\ current' = [current EXCEPT ![s] = applied]
  /\ pc' = [pc EXCEPT ![s] = "scan"]
  /\ UNCHANGED <<nodeVars, hubVars, pubVars, panicked, since, base, got>>

\* The scan of Pebble, at this moment or a later one.
SnapshotScan(s) ==
  /\ ~panicked /\ pc[s] = "scan"
  /\ got' = [got EXCEPT ![s] = events]
  /\ pc' = [pc EXCEPT ![s] = "live"]
  /\ UNCHANGED <<nodeVars, hubVars, pubVars, panicked, since, current, base>>

\* One event from the channel; an old one is skipped.
Receive(s) ==
  /\ ~panicked /\ pc[s] = "live" /\ chan[s] # <<>>
  /\ chan' = [chan EXCEPT ![s] = Tail(@)]
  /\ IF Head(chan[s]) > current[s]
     THEN /\ current' = [current EXCEPT ![s] = Head(chan[s])]
          /\ got' = [got EXCEPT ![s] = @ \cup {Head(chan[s])}]
     ELSE UNCHANGED <<current, got>>
  /\ UNCHANGED <<nodeVars, history, watchers, closed, pubVars, panicked, pc, since,
                 base>>

\* The channel is closed and drained: the handler returns.
Drained(s) ==
  /\ ~panicked /\ pc[s] = "live" /\ chan[s] = <<>> /\ s \in closed
  /\ pc' = [pc EXCEPT ![s] = "ended"]
  /\ UNCHANGED <<nodeVars, hubVars, pubVars, panicked, since, current, base, got>>

\* The handler returns (410, a failed snapshot, a failed write, a client that went
\* away) and the deferred unsubscribe closes the channel.
Unsubscribe(s) ==
  /\ ~panicked /\ pc[s] \in {"gone", "snapshot", "scan", "live"}
  /\ pc' = [pc EXCEPT ![s] = "ended"]
  /\ watchers' = watchers \ {s}
  /\ closed' = IF s \in watchers THEN closed \cup {s} ELSE closed
  /\ UNCHANGED <<nodeVars, history, chan, pubVars, panicked, since, current, base,
                 got>>

-----------------------------------------------------------------------------

HubStep ==
  \/ SkipReady \/ PublishBegin \/ PublishSent \/ PublishClose
  \/ \E s \in Streams : PublishSend(s)

StreamStep(s) ==
  SnapshotRevision(s) \/ SnapshotScan(s) \/ Receive(s) \/ Drained(s)

Next ==
  \/ \E isEvent \in BOOLEAN : Apply(isEvent)
  \/ HubStep
  \/ \E s \in Streams, rev \in 0 .. MaxRevision, includeSnapshot \in BOOLEAN :
       Subscribe(s, rev, includeSnapshot)
  \/ \E s \in Streams : StreamStep(s) \/ Unsubscribe(s)

Spec == Init /\ [][Next]_vars

\* forwardReadyLoop goes on, and the goroutine of each stream does.
FairSpec ==
  /\ Spec
  /\ WF_vars(HubStep)
  /\ \A s \in Streams : WF_vars(StreamStep(s))

-----------------------------------------------------------------------------
\* Properties.

\* What a live stream owes its client up to the revision it has reached, it has
\* told: snapshot, replay, live events and the closing of slow watchers leave no
\* gap together (watch.go:45-51, handlers_impl.go:436-500).
NoGap ==
  \A s \in Streams : pc[s] = "live" =>
    \A e \in events : base[s] < e /\ e <= current[s] => e \in got[s]

\* What a live stream still owes will come: it is in the channel, about to be
\* sent, or waits in readyCh.  Only a watcher that is closed as slow misses
\* events, and its channel holds nothing newer than they are (watch.go:79-116).
OwedIsOnItsWay ==
  \A s \in Streams : pc[s] = "live" /\ ~panicked =>
    \A e \in events : base[s] < e /\ current[s] < e =>
      \/ e \in ToSet(chan[s]) \cup ToSet(readyCh)
      \/ pub = "send" /\ e = event /\ s \in targets
      \/ s \in closed \cup slow /\ \A f \in ToSet(chan[s]) : f < e

\* Every event reaches every live stream, unless it ends or the process dies.
EventsReachStreams ==
  \A s \in Streams, e \in Revision :
    pc[s] = "live" /\ e \in events
      ~> (e <= base[s] \/ e \in got[s] \/ pc[s] = "ended" \/ panicked)

=============================================================================
