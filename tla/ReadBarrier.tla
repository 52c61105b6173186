---------------------------- MODULE ReadBarrier ----------------------------
(***************************************************************************)
(* The linearizable read of one node: ReadIndex and its waiters            *)
(* (internal/raftnode/node.go), and LinearizableRead, Get and Scan         *)
(* (internal/raftnode/service.go).                                         *)
(*                                                                         *)
(* A reader is one call.  The request context it hands to raft is the key  *)
(* (Get), the two ends of the range (Scan) or a string that holds the      *)
(* nanosecond (HTTP watch), so two calls may or may not share a context:   *)
(* CtxOf says which.                                                       *)
(*                                                                         *)
(* etcd raft is external.  The leader notes the commit index of the first  *)
(* request that has a context, ignores further requests with the context   *)
(* until a quorum confirms it (readOnly.addRequest), and then emits one    *)
(* ReadState.  A request may also get lost: no leader, a leader that       *)
(* steps down, a message dropped.                                          *)
(***************************************************************************)
EXTENDS Integers

CONSTANTS
  Readers,    \* the calls of LinearizableRead
  Contexts,   \* the request contexts
  CtxOf,      \* the context of each call
  MaxCommit,  \* bound: the length of the log
  NoReader,   \* no waiter is registered
  MaxDrops    \* bound: requests that raft loses

ASSUME ConstantsAssumption ==
  /\ CtxOf \in [Readers -> Contexts]
  /\ MaxCommit \in Nat \ {0}
  /\ NoReader \notin Readers
  /\ MaxDrops \in Nat

VARIABLES
  commit,     \* the commit index of the cluster
  applied,    \* Status().AppliedIndex of this node
  asked,      \* raft readOnly: context -> commit index noted, 0 when none
  states,     \* ReadStates not yet handled: <<context, index>>
  drops,      \* requests lost so far
  waiters,    \* RaftNode.waiters: context -> call whose channel is registered
  chan,       \* the channel of each call
  pc,         \* where each call is
  readIndex,  \* the index that ReadIndex returned to each call
  servedAt,   \* AppliedIndex when LinearizableRead returned nil
  startedAt,  \* commit when the call began (history)
  stopped     \* stopCh is closed

callVars == <<chan, pc, readIndex, servedAt, startedAt>>
raftVars == <<commit, applied, asked, states, drops>>
vars == <<raftVars, waiters, callVars, stopped>>

Position == 0 .. MaxCommit

\* A buffered channel of capacity one: what it holds (0: nothing, an index
\* otherwise; raft answers with an index above 0) and whether it is closed.
Channel == [buf : Position, open : BOOLEAN]

TypeOK ==
  /\ commit \in 1 .. MaxCommit /\ applied \in Position
  /\ asked \in [Contexts -> Position]
  /\ states \subseteq Contexts \X Position
  /\ drops \in 0 .. MaxDrops
  /\ waiters \in [Contexts -> Readers \cup {NoReader}]
  /\ chan \in [Readers -> Channel]
  /\ pc \in [Readers -> {"new", "registered", "waiting", "polling", "done", "failed"}]
  /\ readIndex \in [Readers -> Position]
  /\ servedAt \in [Readers -> Position]
  /\ startedAt \in [Readers -> Position]
  /\ stopped \in BOOLEAN

\* The first entry, of the leader's election, is committed and applied.
Init ==
  /\ commit = 1 /\ applied = 1
  /\ asked = [c \in Contexts |-> 0]
  /\ states = {}
  /\ drops = 0
  /\ waiters = [c \in Contexts |-> NoReader]
  /\ chan = [r \in Readers |-> [buf |-> 0, open |-> TRUE]]
  /\ pc = [r \in Readers |-> "new"]
  /\ readIndex = [r \in Readers |-> 0]
  /\ servedAt = [r \in Readers |-> 0]
  /\ startedAt = [r \in Readers |-> 0]
  /\ stopped = FALSE

-----------------------------------------------------------------------------
\* etcd raft (external), and the apply loop as seen from here.

Commit ==
  /\ commit < MaxCommit
  /\ commit' = commit + 1
  /\ UNCHANGED <<applied, asked, states, drops, waiters, callVars, stopped>>

\* handleReady applies a batch and publishes the new AppliedIndex.
Apply ==
  /\ ~stopped /\ applied < commit
  /\ \E i \in applied + 1 .. commit : applied' = i
  /\ UNCHANGED <<commit, asked, states, drops, waiters, callVars, stopped>>

\* A quorum confirms the leader.
Confirm(c) ==
  /\ asked[c] # 0
  /\ states' = states \cup {<<c, asked[c]>>}
  /\ asked' = [asked EXCEPT ![c] = 0]
  /\ UNCHANGED <<commit, applied, drops, waiters, callVars, stopped>>

\* The pending request of a context, or its answer, is lost.
Drop(c) ==
  /\ drops < MaxDrops
  /\ drops' = drops + 1
  /\ \/ asked[c] # 0 /\ asked' = [asked EXCEPT ![c] = 0] /\ UNCHANGED states
     \/ \E s \in states : s[1] = c /\ states' = states \ {s} /\ UNCHANGED asked
  /\ UNCHANGED <<commit, applied, waiters, callVars, stopped>>

-----------------------------------------------------------------------------
\* ReadIndex.

\* The waiter is registered, in place of one that is there already.
RegisterWaiter(r) ==
  /\ pc[r] = "new" /\ ~stopped
  /\ waiters' = [waiters EXCEPT ![CtxOf[r]] = r]
  /\ startedAt' = [startedAt EXCEPT ![r] = commit]
  /\ pc' = [pc EXCEPT ![r] = "registered"]
  /\ UNCHANGED <<raftVars, chan, readIndex, servedAt, stopped>>

\* raftNode.ReadIndex accepts the request.
Ask(r) ==
  /\ pc[r] = "registered" /\ ~stopped
  /\ asked' = [asked EXCEPT ![CtxOf[r]] = IF @ = 0 THEN commit ELSE @]
  /\ pc' = [pc EXCEPT ![r] = "waiting"]
  /\ UNCHANGED <<commit, applied, states, drops, waiters, chan, readIndex,
                 servedAt, startedAt, stopped>>

\* Mutant of RemoveWaiter: the waiter of any context is removed.
RemoveAnyWaiter(c) ==
  \E d \in Contexts :
    /\ chan' = IF waiters[d] = NoReader THEN chan
               ELSE [chan EXCEPT ![waiters[d]].open = FALSE]
    /\ waiters' = [waiters EXCEPT ![d] = NoReader]

\* removeWaiter: whichever channel is registered for the context is closed.
RemoveWaiter(c) ==
  /\ chan' = IF waiters[c] = NoReader THEN chan
             ELSE [chan EXCEPT ![waiters[c]].open = FALSE]
  /\ waiters' = [waiters EXCEPT ![c] = NoReader]

\* raftNode.ReadIndex returns an error, the caller's context ends, or the node
\* stops.
GiveUp(r) ==
  /\ pc[r] \in {"registered", "waiting"}
  /\ RemoveWaiter(CtxOf[r])
  /\ pc' = [pc EXCEPT ![r] = "failed"]
  /\ UNCHANGED <<raftVars, readIndex, servedAt, startedAt, stopped>>

\* Mutant of HandleReadState: the entry stays in the map.
AnswerKeepingWaiter(c, i) ==
  /\ <<c, i>> \in states /\ ~stopped
  /\ states' = states \ {<<c, i>>}
  /\ chan' = IF waiters[c] = NoReader THEN chan
             ELSE [chan EXCEPT ![waiters[c]] = [buf |-> i, open |-> FALSE]]
  /\ UNCHANGED <<commit, applied, asked, drops, waiters, pc, readIndex, servedAt,
                 startedAt, stopped>>

\* Mutant of HandleReadState: a ReadState is given to the waiter of any context.
AnswerAnyWaiter(c, i) ==
  /\ <<c, i>> \in states /\ ~stopped
  /\ states' = states \ {<<c, i>>}
  /\ \E d \in Contexts :
       /\ chan' = IF waiters[d] = NoReader THEN chan
                  ELSE [chan EXCEPT ![waiters[d]] = [buf |-> i, open |-> FALSE]]
       /\ waiters' = [waiters EXCEPT ![d] = NoReader]
  /\ UNCHANGED <<commit, applied, asked, drops, pc, readIndex, servedAt, startedAt,
                 stopped>>

\* handleReadStates: the registered channel gets the index and is closed.
HandleReadState(c, i) ==
  /\ <<c, i>> \in states /\ ~stopped
  /\ states' = states \ {<<c, i>>}
  /\ chan' = IF waiters[c] = NoReader THEN chan
             ELSE [chan EXCEPT ![waiters[c]] = [buf |-> i, open |-> FALSE]]
  /\ waiters' = [waiters EXCEPT ![c] = NoReader]
  /\ UNCHANGED <<commit, applied, asked, drops, pc, readIndex, servedAt, startedAt,
                 stopped>>

\* index := <-waiter: a closed channel that holds nothing yields 0.
Receive(r) ==
  /\ pc[r] = "waiting"
  /\ chan[r].buf # 0 \/ ~chan[r].open
  /\ readIndex' = [readIndex EXCEPT ![r] = chan[r].buf]
  /\ chan' = [chan EXCEPT ![r].buf = 0]
  /\ pc' = [pc EXCEPT ![r] = "polling"]
  /\ UNCHANGED <<raftVars, waiters, servedAt, startedAt, stopped>>

-----------------------------------------------------------------------------
\* LinearizableRead.

\* Mutant of Served: the read does not wait for the apply loop.
ServedAtOnce(r) ==
  /\ pc[r] = "polling"
  /\ servedAt' = [servedAt EXCEPT ![r] = applied]
  /\ pc' = [pc EXCEPT ![r] = "done"]
  /\ UNCHANGED <<raftVars, waiters, chan, readIndex, startedAt, stopped>>

\* The poll finds AppliedIndex at the read index: Get and Scan now read Pebble.
Served(r) ==
  /\ pc[r] = "polling" /\ applied >= readIndex[r]
  /\ servedAt' = [servedAt EXCEPT ![r] = applied]
  /\ pc' = [pc EXCEPT ![r] = "done"]
  /\ UNCHANGED <<raftVars, waiters, chan, readIndex, startedAt, stopped>>

\* The caller's context ends, or the node stops, before the index is applied.
GiveUpPolling(r) ==
  /\ pc[r] = "polling" /\ applied < readIndex[r]
  /\ pc' = [pc EXCEPT ![r] = "failed"]
  /\ UNCHANGED <<raftVars, waiters, chan, readIndex, servedAt, startedAt, stopped>>

\* RaftNode.Stop: stopCh closes, the run loop ends.
Stop ==
  /\ ~stopped
  /\ stopped' = TRUE
  /\ UNCHANGED <<raftVars, waiters, callVars>>

-----------------------------------------------------------------------------

CallStep(r) == RegisterWaiter(r) \/ Ask(r) \/ Receive(r) \/ Served(r)

Next ==
  \/ Commit \/ Apply \/ Stop
  \/ \E c \in Contexts : Confirm(c) \/ Drop(c)
  \/ \E c \in Contexts, i \in 1 .. MaxCommit : HandleReadState(c, i)
  \/ \E r \in Readers : CallStep(r) \/ GiveUp(r) \/ GiveUpPolling(r)

Spec == Init /\ [][Next]_vars

\* The goroutine of each call runs, raft's quorum answers, the run loop handles
\* what raft hands out, and a call whose node has stopped sees stopCh.  Nothing
\* makes a caller give up: a request need not have a deadline.
Fairness ==
  /\ WF_vars(Apply)
  /\ \A c \in Contexts : WF_vars(Confirm(c))
  /\ \A c \in Contexts, i \in 1 .. MaxCommit : WF_vars(HandleReadState(c, i))
  /\ \A r \in Readers :
       /\ WF_vars(Ask(r)) /\ WF_vars(Receive(r)) /\ WF_vars(Served(r))
       /\ WF_vars(stopped /\ (GiveUp(r) \/ GiveUpPolling(r)))

FairSpec == Spec /\ Fairness

-----------------------------------------------------------------------------
\* Properties.

\* The calls that share their context with no other, as with the counter that
\* ReadIndex itself falls back to.
Alone == {r \in Readers : \A s \in Readers : CtxOf[s] = CtxOf[r] => s = r}

\* A read with a context of its own returns nothing older than what was committed
\* when it began, whatever the other calls do (README.md:98-100, "all reads must be
\* linearizable").
ReadsAreFresh == \A r \in Alone : pc[r] = "done" => servedAt[r] >= startedAt[r]

\* The same of every call that raft answered, with shared contexts too.
AnsweredReadsAreFresh ==
  \A r \in Readers :
    pc[r] = "done" /\ readIndex[r] # 0 => servedAt[r] >= startedAt[r]

\* A call with a context of its own goes on only with an index that raft answered,
\* never with the zero of a channel that was closed under it (node.go:469-473).
IndexIsAnswered ==
  \A r \in Alone : pc[r] \in {"polling", "done"} => readIndex[r] # 0

\* Whatever calls overlap, a registered channel is open and empty, and belongs to
\* a call of that context that still waits: the run loop never blocks on it while
\* it holds waitersMu, never closes it twice, and no waiter is left behind
\* (node.go:639-650, 726-734).
WaitersAreLive ==
  \A c \in Contexts :
    waiters[c] # NoReader =>
      /\ CtxOf[waiters[c]] = c
      /\ chan[waiters[c]] = [buf |-> 0, open |-> TRUE]
      /\ pc[waiters[c]] \in {"registered", "waiting"}

\* While raft loses no request, a call with a context of its own returns, deadline
\* or not (node.go:442-475, service.go:62-84).
CallsReturn ==
  \A r \in Alone :
    pc[r] = "registered" ~> pc[r] \in {"done", "failed"} \/ drops # 0

=============================================================================
