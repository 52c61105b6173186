----------------------------- MODULE Membership -----------------------------
(***************************************************************************)
(* Where a node believes the others to be: the address book and the        *)
(* clients of PeerTransport (internal/runtime), the addresses kept in      *)
(* Pebble, and the four who change them side by side: the HTTP handlers of *)
(* member changes, forwardReadyLoop, InstallSnapshot, and Start and Stop   *)
(* (internal/app).  One node is modelled; the others show in the committed *)
(* changes and in the snapshots they send.                                 *)
(*                                                                         *)
(* The HTTP, gRPC and admin address of a member come and go together and   *)
(* are one address here.  An empty address in Pebble is as good as none.   *)
(* A node that no longer leads may still think that it does: what its      *)
(* handlers propose is then lost.  Errors of Pebble and of a connection's  *)
(* Close, which forwardReadyLoop only logs, are left out.                  *)
(***************************************************************************)
EXTENDS Integers, Sequences, FiniteSets, FiniteSetsExt

CONSTANTS
  Ids,          \* members
  Addrs,
  NoAddr,       \* the empty address
  Config,       \* member -> its address in the node's configuration, or NoAddr
  Requested,    \* addresses in the requests to add or promote a member
  MaxLog,       \* bound: committed member changes
  MaxRequests,  \* bound: requests for a learner
  MaxGaps,      \* bound: Ready batches dropped and snapshots installed
  MaxEnds       \* bound: crashes and stops

ASSUME ConstantsAssumption ==
  /\ NoAddr \notin Addrs /\ Config \in [Ids -> Addrs \cup {NoAddr}]
  /\ Requested \subseteq Addrs \cup {NoAddr}
  /\ MaxLog \in Nat /\ MaxRequests \in Nat /\ MaxGaps \in Nat
  /\ MaxEnds \in Nat

VARIABLES
  log,       \* committed member changes
  book,      \* AddressBook
  clients,   \* member -> the address its cached client dials, or NoAddr
  members,   \* member -> its address in Pebble, or NoAddr
  image,     \* the members in the newest snapshot of this node, or NoImage
  status,    \* "up", "stopping" or "down"
  closing,   \* what Stop has copied, listed and not yet written
  request,   \* the AddLearner handler under way, or Idle
  loop,      \* the change that forwardReadyLoop is at, or Idle
  handled,   \* how many changes came to forwardReadyLoop
  compacted, \* how many changes a restart does not hand out again
  installed, \* how many changes the last installed snapshot stands for
  \* History: the members whose address need not be what the log says, because
  \* a handler set it, or a change was lost or is not in a snapshot,
  strayBook,  \* in the book,
  strayDisk,  \* in Pebble,
  strayImage, \* in the snapshot.
  requests, gaps, ends

netVars == <<book, clients>>
loopVars == <<loop, handled>>
diskVars == <<members, image, compacted>>
procVars == <<status, closing, installed>>
histVars == <<strayBook, strayDisk, strayImage>>
boundVars == <<requests, gaps, ends>>
vars == <<log, netVars, loopVars, diskVars, procVars, histVars, boundVars, request>>

Idle == [pc |-> "idle"]
Blank == [i \in Ids |-> NoAddr]
NoImage == <<>>
NotClosing == [copy |-> Blank, listed |-> FALSE, todo |-> {}]

Running == status # "down"

Address == Addrs \cup {NoAddr}
Change == [type : {"add", "remove"}, id : Ids, addr : Address]

TypeOK ==
  /\ log \in Seq(Change)
  /\ book \in [Ids -> Address] /\ clients \in [Ids -> Address] /\ members \in [Ids -> Address]
  /\ status \in {"up", "stopping", "down"}
  /\ closing \in [copy : [Ids -> Address], listed : BOOLEAN, todo : SUBSET Ids]
  /\ request \in {Idle} \cup [pc : {"reset", "propose"}, change : Change]
  /\ loop \in {Idle} \cup [pc : {"reset", "persist"}, change : Change]
  /\ handled \in 0 .. Len(log) /\ compacted \in 0 .. Len(log) /\ installed \in 0 .. Len(log)
  /\ image \in {NoImage} \cup [Ids -> Address]
  /\ strayBook \subseteq Ids /\ strayDisk \subseteq Ids /\ strayImage \subseteq Ids
  /\ requests \in 0 .. MaxRequests /\ gaps \in 0 .. MaxGaps
  /\ ends \in 0 .. MaxEnds

-----------------------------------------------------------------------------
\* What a change does to an address book; the log's word on a member.

\* AddressBook.Set keeps what it has where the new address is empty.
BookAfter(c, old) == CASE c.type = "remove" -> NoAddr
                       [] c.addr # NoAddr   -> c.addr
                       [] OTHER             -> old

\* A change that names an address, or says that there is none.
Tells(c) == c.type = "remove" \/ c.addr # NoAddr
ToldOf(from, to) == {log[k].id : k \in {k \in from + 1 .. to : Tells(log[k])}}

\* The last of the first k changes that tells of member i.
IsLastOf(i, j, k) ==
  /\ log[j].id = i /\ Tells(log[j])
  /\ \A l \in j + 1 .. k : ~(log[l].id = i /\ Tells(log[l]))

AddressAt(i, k) ==
  IF \E j \in 1 .. k : IsLastOf(i, j, k)
  THEN log[CHOOSE j \in 1 .. k : IsLastOf(i, j, k)].addr
  ELSE Config[i]

\* Mutant of WithoutClient: the client stays.
WithClient(i) == clients

\* The connection goes with the address.
WithoutClient(i) == [clients EXCEPT ![i] = NoAddr]

Init ==
  /\ log = <<>> /\ handled = 0 /\ compacted = 0 /\ installed = 0
  /\ book = Config /\ members = Config /\ clients = Blank /\ image = NoImage
  /\ status = "up" /\ closing = NotClosing
  /\ request = Idle /\ loop = Idle
  /\ strayBook = {} /\ strayDisk = {} /\ strayImage = {}
  /\ requests = 0 /\ gaps = 0 /\ ends = 0

-----------------------------------------------------------------------------
\* Handlers.

\* A change that adds a learner or promotes it, and one that removes it.
Add(i, a) == [type |-> "add", id |-> i, addr |-> a]
Remove(i) == [type |-> "remove", id |-> i, addr |-> NoAddr]

\* What ApplyConfChange proposes is committed some time, or never.
Commit(c) ==
  /\ Len(log) < MaxLog /\ log' = Append(log, c)
  /\ UNCHANGED <<netVars, loopVars, diskVars, procVars, histVars, boundVars>>

\* AddLearner sets the address, if it was given one, before it proposes, and
\* leaves it set.
AddLearner(i, a) ==
  /\ Running /\ request = Idle /\ requests < MaxRequests
  /\ book' = [book EXCEPT ![i] = BookAfter(Add(i, a), @)]
  /\ request' = [pc |-> "reset", change |-> Add(i, a)]
  /\ strayBook' = IF a = NoAddr THEN strayBook ELSE strayBook \cup {i}
  /\ requests' = requests + 1
  /\ UNCHANGED <<log, clients, loopVars, diskVars, procVars, strayDisk, strayImage,
                 gaps, ends>>

AddLearnerReset ==
  /\ request.pc = "reset"
  /\ clients' = WithoutClient(request.change.id)
  /\ request' = [request EXCEPT !.pc = "propose"]
  /\ UNCHANGED <<log, book, loopVars, diskVars, procVars, histVars, boundVars>>

AddLearnerPropose ==
  /\ request.pc = "propose"
  /\ \/ Commit(request.change)
     \/ UNCHANGED <<log, netVars, loopVars, diskVars, procVars, histVars, boundVars>>
  /\ request' = Idle

\* Promotions and removals leave no trace where they are proposed; they, and
\* the learners that other nodes add, are here when they are committed.
PromoteLearner(i, a) == Commit(Add(i, a)) /\ UNCHANGED request
RemoveMember(i) == Commit(Remove(i)) /\ UNCHANGED request
AddLearnerElsewhere(i, a) == Commit(Add(i, a)) /\ UNCHANGED request

-----------------------------------------------------------------------------
\* forwardReadyLoop.

\* applyConfChangeContext: UpsertPeer or RemovePeer, up to their lock ...
LoopBook ==
  LET c == log[handled + 1]
  IN /\ Running /\ loop = Idle /\ handled < Len(log)
     /\ book' = [book EXCEPT ![c.id] = BookAfter(c, @)]
     /\ loop' = [pc |-> "reset", change |-> c]
     /\ handled' = handled + 1
     /\ strayBook' = IF Tells(c) THEN strayBook \ {c.id} ELSE strayBook
     /\ UNCHANGED <<log, clients, diskVars, procVars, strayDisk, strayImage, boundVars,
                    request>>

\* ... under it ...
LoopReset ==
  /\ loop.pc = "reset"
  /\ clients' = WithoutClient(loop.change.id)
  /\ loop' = [loop EXCEPT !.pc = "persist"]
  /\ UNCHANGED <<log, book, handled, diskVars, procVars, histVars, boundVars, request>>

\* How many changes are in Pebble.
Persisted == Max({installed, IF loop = Idle THEN handled ELSE handled - 1})

\* ... and SetMemberAddress, which writes an empty address too, or
\* DeleteMemberAddress.  Stop may write what it copied before, and an installed
\* snapshot may have brought a later change.
LoopPersist ==
  LET c == loop.change
  IN /\ loop.pc = "persist"
     /\ members' = [members EXCEPT ![c.id] = c.addr]
     /\ loop' = Idle
     /\ strayDisk' = IF status = "up" /\ Tells(c) /\ c.id \notin ToldOf(handled, installed)
                     THEN strayDisk \ {c.id} ELSE strayDisk \cup {c.id}
     /\ UNCHANGED <<log, netVars, handled, image, compacted, procVars, strayBook, strayImage,
                    boundVars, request>>

\* Changes that never come to the loop: those that a snapshot stands for, and
\* those of a batch that emitReady dropped.
SkipChange ==
  /\ Running /\ loop = Idle /\ handled < Len(log)
  /\ \/ handled < installed /\ UNCHANGED gaps
     \/ gaps < MaxGaps /\ gaps' = gaps + 1
  /\ handled' = handled + 1
  /\ strayBook' = strayBook \cup ToldOf(handled, handled + 1)
  /\ strayDisk' = strayDisk \cup IF handled < installed THEN {} ELSE ToldOf(handled, handled + 1)
  /\ UNCHANGED <<log, netVars, loop, diskVars, procVars, strayImage, requests, ends,
                 request>>

\* Forward, between two batches: the client of a member is made when there is
\* something to send to it and none is cached.
Connect(i) ==
  /\ Running /\ loop = Idle
  /\ clients[i] = NoAddr /\ book[i] # NoAddr
  /\ clients' = [clients EXCEPT ![i] = book[i]]
  /\ UNCHANGED <<log, book, loopVars, diskVars, procVars, histVars, boundVars, request>>

-----------------------------------------------------------------------------
\* Snapshots.

\* The run loop, which has applied what the other loop has handled and perhaps
\* more, exports a snapshot of the first k changes, with the addresses that are
\* in Pebble so far.
Compact(k) ==
  /\ Running /\ k >= compacted /\ k >= handled
  /\ compacted' = k /\ image' = members
  /\ strayImage' = strayDisk \cup ToldOf(Persisted, k)
  /\ UNCHANGED <<log, netVars, loopVars, members, procVars, strayBook, strayDisk, boundVars,
                 request>>

\* What another node may have of a member when it has applied k changes.
KnownElsewhere(i, k) == {AddressAt(i, j) : j \in 0 .. k} \cup {NoAddr}

\* A snapshot of the first k changes arrives; the addresses in it, some older
\* than that, replace those in Pebble (Restore).  Nobody tells the book.
InstallSnapshot(k, theirs) ==
  LET stray == {i \in Ids : theirs[i] # AddressAt(i, k)}
  IN /\ status = "up" /\ gaps < MaxGaps
     /\ k > compacted /\ k > handled
     /\ \A i \in Ids : theirs[i] \in KnownElsewhere(i, k)
     /\ members' = theirs /\ image' = theirs /\ compacted' = k /\ installed' = k
     /\ strayDisk' = stray /\ strayImage' = stray
     /\ gaps' = gaps + 1
     /\ UNCHANGED <<log, netVars, loopVars, status, closing, strayBook,
                    requests, ends, request>>

-----------------------------------------------------------------------------
\* Start and Stop.

\* The process is gone, and what was in memory with it.
Down ==
  /\ status' = "down" /\ closing' = NotClosing /\ handled' = 0 /\ installed' = 0
  /\ book' = Blank /\ clients' = Blank
  /\ request' = Idle /\ loop' = Idle
  /\ strayBook' = {}
  /\ UNCHANGED <<log, diskVars, strayDisk, strayImage, requests, gaps>>

Crash == Running /\ ends < MaxEnds /\ ends' = ends + 1 /\ Down

\* persistCurrentAddressBook copies the book ...
StopBegin ==
  /\ status = "up" /\ ends < MaxEnds
  /\ ends' = ends + 1
  /\ status' = "stopping"
  /\ closing' = [closing EXCEPT !.copy = book]
  /\ strayDisk' = strayDisk \cup strayBook \cup ToldOf(handled, installed)
  /\ UNCHANGED <<log, netVars, loopVars, diskVars, strayBook, strayImage,
                 requests, gaps, request, installed>>

\* ... lists what is in Pebble ...
StopList ==
  /\ status = "stopping" /\ ~closing.listed
  /\ closing' = [closing EXCEPT
       !.listed = TRUE,
       !.todo = {i \in Ids : closing.copy[i] # NoAddr \/ members[i] # NoAddr}]
  /\ UNCHANGED <<log, netVars, loopVars, diskVars, histVars, boundVars,
                 status, request, installed>>

\* ... and writes the one over the other, in the order of a map.
StopWrite(i) ==
  /\ i \in closing.todo
  /\ members' = [members EXCEPT ![i] = closing.copy[i]]
  /\ closing' = [closing EXCEPT !.todo = @ \ {i}]
  /\ UNCHANGED <<log, netVars, loopVars, image, compacted, histVars, boundVars,
                 status, request, installed>>

StopEnd == closing.listed /\ closing.todo = {} /\ Down /\ UNCHANGED ends

\* Mutant of Started: without restorePersistedMemberAddresses.
StartedFromConfig == Config

\* bootstrapStorage: Restore puts the addresses of the newest snapshot in the
\* place of those in Pebble.
Restored == IF image = NoImage THEN members ELSE image

\* restorePersistedMemberAddresses: the configuration has precedence.
Started == [i \in Ids |-> IF Config[i] # NoAddr THEN Config[i] ELSE Restored[i]]

\* persistCurrentAddressBook then writes back what the book has; cut off
\* anywhere it leaves nothing that the next Start does not do again.  Raft hands
\* out the changes after the snapshot once more.
Start ==
  LET stray == IF image = NoImage THEN strayDisk ELSE strayImage
  IN /\ status = "down"
     /\ status' = "up" /\ book' = Started /\ members' = Started
     /\ strayBook' = stray /\ strayDisk' = stray
     /\ handled' = compacted
     /\ UNCHANGED <<log, clients, loop, image, compacted, strayImage, boundVars,
                    closing, request, installed>>

Next ==
  \/ AddLearnerReset \/ AddLearnerPropose
  \/ LoopBook \/ LoopReset \/ LoopPersist \/ SkipChange
  \/ Crash \/ StopBegin \/ StopList \/ StopEnd \/ Start
  \/ \E k \in 0 .. Len(log) : Compact(k)
  \/ \E k \in 1 .. Len(log), theirs \in [Ids -> Address] : InstallSnapshot(k, theirs)
  \/ \E i \in Ids :
       \/ RemoveMember(i) \/ Connect(i) \/ StopWrite(i)
       \/ \E a \in Requested : \/ AddLearner(i, a) \/ AddLearnerElsewhere(i, a)
                               \/ PromoteLearner(i, a)

Spec == Init /\ [][Next]_vars

-----------------------------------------------------------------------------
\* Properties.

(* A cached client dials the address in the book, unless the one who has   *)
(* just changed that address is about to drop it: no message goes to where *)
(* a member was before.  (UpsertPeer, RemovePeer and client in             *)
(* internal/runtime/peer_transport.go.)                                    *)
ClientMatchesBook ==
  \A i \in Ids :
    \/ clients[i] \in {NoAddr, book[i]}
    \/ \E r \in {loop, request} : r.pc = "reset" /\ r.change.id = i

(* A running node that is through with the log has for each member the     *)
(* address that the log gave it last, or the one in its configuration, and *)
(* none for a member that was removed: through crashes at any step, changes*)
(* handed out again, snapshots that put back older addresses, and stops.   *)
(* Not claimed of a member whose address a handler set last, whose last    *)
(* change never came to the loop, or came after the addresses of the       *)
(* snapshot were read and is not handed out again, or whose address in     *)
(* Pebble was overwritten with an empty or an older one when that snapshot *)
(* was taken (strayBook).  (internal/raftnode/confchange.go:50-51.)        *)
BookFollowsLog ==
  \A i \in Ids :
    (status = "up" /\ loop = Idle /\ handled = Len(log) /\ i \notin strayBook)
    => book[i] \in {AddressAt(i, Len(log))} \cup ({Config[i]} \ {NoAddr})

=============================================================================
