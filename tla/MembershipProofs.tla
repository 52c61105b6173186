-------------------------- MODULE MembershipProofs --------------------------
(***************************************************************************)
(* Proofs about Membership, for any members, addresses and configuration:  *)
(* no cached client outlives the address that it dials, and the book       *)
(* follows the log.                                                        *)
(***************************************************************************)
EXTENDS Membership, TLAPS

-----------------------------------------------------------------------------
\* Type correctness.

LEMMA BookAfterType ==
  ASSUME NEW c \in Change, NEW old \in Address
  PROVE  BookAfter(c, old) \in Address
BY DEF BookAfter, Change, Address

LEMMA AddType ==
  ASSUME NEW i \in Ids, NEW a \in Requested
  PROVE  Add(i, a) \in Change /\ Add(i, a).id = i
BY ConstantsAssumption DEF Add, Change, Address

LEMMA RemoveType ==
  ASSUME NEW i \in Ids
  PROVE  Remove(i) \in Change
BY DEF Remove, Change, Address

LEMMA BlankType == Blank \in [Ids -> Address]
BY DEF Blank, Address

LEMMA ToldOfType ==
  ASSUME TypeOK, NEW from \in Nat, NEW to \in 0 .. Len(log)
  PROVE  ToldOf(from, to) \subseteq Ids
<1>1. \A k \in from + 1 .. to : k \in 1 .. Len(log)
  BY DEF TypeOK
<1>2. \A k \in 1 .. Len(log) : log[k] \in Change
  BY DEF TypeOK
<1>3. QED
  BY <1>1, <1>2 DEF ToldOf, Change

LEMMA MaxOfTwo ==
  ASSUME NEW m \in Int, NEW n \in Int
  PROVE  Max({m, n}) = IF m >= n THEN m ELSE n
<1>1. Max({m, n}) = CHOOSE x \in {m, n} : \A y \in {m, n} : x >= y
  BY DEF Max
<1>2. QED
  BY <1>1

\* How far the loop has brought Pebble, by itself.
Own == IF loop = Idle THEN handled ELSE handled - 1

LEMMA PersistedIs ==
  ASSUME installed \in Nat, handled \in Nat
  PROVE  Persisted = IF installed >= Own THEN installed ELSE Own
<1>1. Own \in Int
  BY DEF Own
<1>2. QED
  BY <1>1, MaxOfTwo DEF Persisted, Own

LEMMA AddressAtType ==
  ASSUME TypeOK, NEW i \in Ids, NEW k \in 0 .. Len(log)
  PROVE  AddressAt(i, k) \in Address
<1>1. \A j \in 1 .. k : log[j] \in Change
  BY DEF TypeOK
<1>2. CASE \E j \in 1 .. k : IsLastOf(i, j, k)
  <2>1. (CHOOSE j \in 1 .. k : IsLastOf(i, j, k)) \in 1 .. k
    BY <1>2
  <2>2. QED
    BY <1>1, <1>2, <2>1 DEF AddressAt, Change
<1>3. CASE ~\E j \in 1 .. k : IsLastOf(i, j, k)
  BY <1>3, ConstantsAssumption DEF AddressAt, Address
<1>4. QED
  BY <1>2, <1>3

LEMMA CommitType ==
  ASSUME TypeOK, NEW c \in Change, Commit(c)
  PROVE  /\ log' \in Seq(Change)
         /\ handled' \in 0 .. Len(log') /\ compacted' \in 0 .. Len(log')
         /\ installed' \in 0 .. Len(log')
<1>1. log \in Seq(Change) /\ log' = Append(log, c) /\ Len(log') = Len(log) + 1
  BY DEF Commit, TypeOK
<1>2. UNCHANGED <<handled, compacted, installed>> /\ Len(log) \in Nat
  BY <1>1 DEF Commit, loopVars, diskVars, procVars
<1>3. QED
  BY <1>1, <1>2 DEF TypeOK

LEMMA InitTypeOK == Init => TypeOK
<1> SUFFICES ASSUME Init PROVE TypeOK
  OBVIOUS
<1>1. Config \in [Ids -> Address]
  BY ConstantsAssumption DEF Address
<1>2. NotClosing \in [copy : [Ids -> Address], listed : BOOLEAN, todo : SUBSET Ids]
  BY BlankType DEF NotClosing
<1>3. log \in Seq(Change) /\ Len(log) = 0
  BY DEF Init
<1>4. 0 \in 0 .. MaxRequests /\ 0 \in 0 .. MaxGaps /\ 0 \in 0 .. MaxEnds
  BY ConstantsAssumption
<1>5. QED
  BY <1>1, <1>2, <1>3, <1>4, BlankType DEF Init, TypeOK

LEMMA DownType ==
  ASSUME TypeOK, Down
  PROVE  /\ status' = "down" /\ request' = Idle /\ loop' = Idle
         /\ closing' \in [copy : [Ids -> Address], listed : BOOLEAN, todo : SUBSET Ids]
         /\ book' \in [Ids -> Address] /\ clients' \in [Ids -> Address]
         /\ installed' \in 0 .. Len(log) /\ handled' \in 0 .. Len(log)
         /\ strayBook' \subseteq Ids
         /\ UNCHANGED <<log, members, image, compacted, strayDisk, strayImage, requests, gaps>>
<1>1. NotClosing \in [copy : [Ids -> Address], listed : BOOLEAN, todo : SUBSET Ids]
  BY BlankType DEF NotClosing
<1>2. Len(log) \in Nat
  BY DEF TypeOK
<1>3. QED
  BY <1>1, <1>2, BlankType DEF Down, diskVars

LEMMA StepTypeOK == TypeOK /\ [Next]_vars => TypeOK'
<1> SUFFICES ASSUME TypeOK, [Next]_vars PROVE TypeOK'
  OBVIOUS
<1>0. /\ MaxRequests \in Nat /\ MaxGaps \in Nat /\ MaxEnds \in Nat
      /\ log \in Seq(Change) /\ Len(log) \in Nat
      /\ \A k \in 1 .. Len(log) : log[k] \in Change
  BY ConstantsAssumption DEF TypeOK
<1>1. ASSUME NEW i \in Ids, NEW a \in Requested, AddLearner(i, a) PROVE TypeOK'
  <2>1. Add(i, a) \in Change
    BY AddType
  <2>2. book' \in [Ids -> Address]
    BY <1>1, <2>1, BookAfterType DEF AddLearner, TypeOK
  <2>3. request' \in {Idle} \cup [pc : {"reset", "propose"}, change : Change]
    BY <1>1, <2>1 DEF AddLearner
  <2>4. requests' \in 0 .. MaxRequests
    BY <1>0, <1>1 DEF AddLearner, TypeOK
  <2>5. QED
    BY <1>1, <2>2, <2>3, <2>4 DEF AddLearner, TypeOK, loopVars, diskVars, procVars
<1>2. CASE AddLearnerReset
  <2>1. clients' \in [Ids -> Address]
    BY <1>2 DEF AddLearnerReset, WithoutClient, TypeOK, Address
  <2>2. request' \in {Idle} \cup [pc : {"reset", "propose"}, change : Change]
    BY <1>2 DEF AddLearnerReset, TypeOK, Idle
  <2>3. QED
    BY <1>2, <2>1, <2>2
       DEF AddLearnerReset, TypeOK, loopVars, diskVars, procVars, histVars, boundVars
<1>3. CASE AddLearnerPropose
  <2>1. request.change \in Change
    BY <1>3 DEF AddLearnerPropose, TypeOK, Idle
  <2>2. CASE Commit(request.change)
    BY <1>3, <2>1, <2>2, CommitType DEF AddLearnerPropose, Commit, TypeOK, netVars, loopVars,
       diskVars, procVars, histVars, boundVars
  <2>3. CASE UNCHANGED <<log, netVars, loopVars, diskVars, procVars, histVars, boundVars>>
    BY <1>3, <2>3 DEF AddLearnerPropose, TypeOK, netVars, loopVars, diskVars, procVars,
       histVars, boundVars
  <2>4. QED
    BY <1>3, <2>2, <2>3 DEF AddLearnerPropose
<1>4. ASSUME NEW c \in Change, Commit(c), UNCHANGED request PROVE TypeOK'
  BY <1>4, CommitType DEF Commit, TypeOK, netVars, loopVars, diskVars, procVars, histVars,
     boundVars
<1>5. CASE LoopBook
  <2>1. log[handled + 1] \in Change /\ handled + 1 \in 0 .. Len(log)
    BY <1>0, <1>5 DEF LoopBook, TypeOK
  <2>2. book' \in [Ids -> Address] /\ strayBook' \subseteq Ids
    BY <1>5, <2>1, BookAfterType DEF LoopBook, TypeOK, Change
  <2>3. loop' \in {Idle} \cup [pc : {"reset", "persist"}, change : Change]
    BY <1>5, <2>1 DEF LoopBook
  <2>4. QED
    BY <1>5, <2>1, <2>2, <2>3 DEF LoopBook, TypeOK, diskVars, procVars, boundVars
<1>6. CASE LoopReset
  <2>1. clients' \in [Ids -> Address]
    BY <1>6 DEF LoopReset, WithoutClient, TypeOK, Address
  <2>2. loop' \in {Idle} \cup [pc : {"reset", "persist"}, change : Change]
    BY <1>6 DEF LoopReset, TypeOK, Idle
  <2>3. QED
    BY <1>6, <2>1, <2>2 DEF LoopReset, TypeOK, diskVars, procVars, histVars, boundVars
<1>7. CASE LoopPersist
  <2>1. loop.change \in Change
    BY <1>7 DEF LoopPersist, TypeOK, Idle
  <2>2. members' \in [Ids -> Address] /\ strayDisk' \subseteq Ids
    BY <1>7, <2>1 DEF LoopPersist, TypeOK, Change
  <2>3. QED
    BY <1>7, <2>2 DEF LoopPersist, TypeOK, netVars, procVars, boundVars
<1>8. CASE SkipChange
  <2>1. log[handled + 1] \in Change /\ handled + 1 \in 0 .. Len(log)
    BY <1>0, <1>8 DEF SkipChange, TypeOK
  <2>2. strayBook' \subseteq Ids /\ strayDisk' \subseteq Ids
    <3>1. ToldOf(handled, handled + 1) \subseteq Ids
      BY <2>1, ToldOfType DEF TypeOK
    <3>2. QED
      BY <1>8, <3>1 DEF SkipChange, TypeOK
  <2>3. gaps' \in 0 .. MaxGaps
    BY <1>0, <1>8 DEF SkipChange, TypeOK
  <2>4. QED
    BY <1>8, <2>1, <2>2, <2>3 DEF SkipChange, TypeOK, netVars, diskVars, procVars
<1>9. ASSUME NEW i \in Ids, Connect(i) PROVE TypeOK'
  BY <1>9 DEF Connect, TypeOK, loopVars, diskVars, procVars, histVars, boundVars
<1>10. ASSUME NEW k \in 0 .. Len(log), Compact(k) PROVE TypeOK'
  <2>1. strayImage' \subseteq Ids
    <3>1. Persisted \in Nat
      BY PersistedIs DEF TypeOK, Own
    <3>2. ToldOf(Persisted, k) \subseteq Ids
      BY <1>10, <3>1, ToldOfType
    <3>3. QED
      BY <1>10, <3>2 DEF Compact, TypeOK
  <2>2. QED
    BY <1>0, <1>10, <2>1 DEF Compact, TypeOK, netVars, loopVars, procVars, boundVars
<1>11. CASE Crash
  <2>1. ends' \in 0 .. MaxEnds
    BY <1>0, <1>11 DEF Crash, TypeOK
  <2>2. QED
    BY <1>11, <2>1, DownType DEF Crash, TypeOK
<1>12. CASE StopBegin
  <2>1. ends' \in 0 .. MaxEnds
    BY <1>0, <1>12 DEF StopBegin, TypeOK
  <2>2. closing' \in [copy : [Ids -> Address], listed : BOOLEAN, todo : SUBSET Ids]
    BY <1>12 DEF StopBegin, TypeOK
  <2>3. strayDisk' \subseteq Ids
    <3>1. ToldOf(handled, installed) \subseteq Ids
      BY ToldOfType DEF TypeOK
    <3>2. QED
      BY <1>12, <3>1 DEF StopBegin, TypeOK
  <2>4. QED
    BY <1>12, <2>1, <2>2, <2>3 DEF StopBegin, TypeOK, netVars, loopVars, diskVars
<1>13. CASE StopList
  <2>1. closing' \in [copy : [Ids -> Address], listed : BOOLEAN, todo : SUBSET Ids]
    BY <1>13 DEF StopList, TypeOK
  <2>2. QED
    BY <1>13, <2>1 DEF StopList, TypeOK, netVars, loopVars, diskVars, histVars, boundVars
<1>14. ASSUME NEW i \in Ids, StopWrite(i) PROVE TypeOK'
  <2>1. closing' \in [copy : [Ids -> Address], listed : BOOLEAN, todo : SUBSET Ids]
        /\ members' \in [Ids -> Address]
    BY <1>14 DEF StopWrite, TypeOK
  <2>2. QED
    BY <1>14, <2>1 DEF StopWrite, TypeOK, netVars, loopVars, histVars, boundVars
<1>15. CASE StopEnd
  BY <1>15, DownType DEF StopEnd, TypeOK
<1>16. CASE Start
  <2>1. Started \in [Ids -> Address]
    BY ConstantsAssumption DEF Started, Restored, TypeOK, Address
  <2>2. strayBook' \subseteq Ids /\ strayDisk' \subseteq Ids
    BY <1>16 DEF Start, TypeOK
  <2>3. QED
    BY <1>16, <2>1, <2>2 DEF Start, TypeOK, boundVars
<1>17. ASSUME NEW k \in 1 .. Len(log), NEW theirs \in [Ids -> Address],
              InstallSnapshot(k, theirs)
       PROVE  TypeOK'
  <2>1. strayDisk' \subseteq Ids /\ strayImage' \subseteq Ids
    BY <1>17 DEF InstallSnapshot
  <2>2. gaps' \in 0 .. MaxGaps
    BY <1>0, <1>17 DEF InstallSnapshot, TypeOK
  <2>3. compacted' \in 0 .. Len(log) /\ installed' \in 0 .. Len(log)
    BY <1>0, <1>17 DEF InstallSnapshot
  <2>4. QED
    BY <1>17, <2>1, <2>2, <2>3 DEF InstallSnapshot, TypeOK, netVars, loopVars
<1>18. CASE UNCHANGED vars
  BY <1>18 DEF TypeOK, vars, netVars, loopVars, diskVars, procVars, histVars, boundVars
<1>19. QED
  <2>1. ASSUME NEW i \in Ids, RemoveMember(i) PROVE TypeOK'
    BY <1>4, <2>1, RemoveType DEF RemoveMember
  <2>2. ASSUME NEW i \in Ids, NEW a \in Requested, AddLearnerElsewhere(i, a) PROVE TypeOK'
    BY <1>4, <2>2, AddType DEF AddLearnerElsewhere
  <2>3. ASSUME NEW i \in Ids, NEW a \in Requested, PromoteLearner(i, a) PROVE TypeOK'
    BY <1>4, <2>3, AddType DEF PromoteLearner
  <2>4. QED
    BY <1>1, <1>2, <1>3, <1>5, <1>6, <1>7, <1>8, <1>9, <1>10, <1>11, <1>12, <1>13, <1>14,
       <1>15, <1>16, <1>17, <1>18, <2>1, <2>2, <2>3 DEF Next

(* The node's addresses, clients and pending changes keep their types, for *)
(* every value of the constants.                                           *)
THEOREM TypeCorrect == Spec => []TypeOK
<1>1. Init => TypeOK
  BY InitTypeOK
<1>2. TypeOK /\ [Next]_vars => TypeOK'
  BY StepTypeOK
<1>3. QED
  BY <1>1, <1>2, PTL DEF Spec

-----------------------------------------------------------------------------
\* Clients and the book.

\* A process that is gone has no clients, nor anyone at work.
DownIsQuiet == status = "down" => clients = Blank /\ request = Idle /\ loop = Idle

Dropping(i) == \E r \in {loop, request} : r.pc = "reset" /\ r.change.id = i

\* The step that every action takes for one member.
LEMMA MemberStep ==
  ASSUME TypeOK, ClientMatchesBook, NEW i \in Ids,
         \/ clients'[i] = clients[i] /\ book'[i] = book[i] /\ (Dropping(i) => Dropping(i)')
         \/ clients'[i] = NoAddr
         \/ Dropping(i)'
         \/ clients'[i] = book'[i]
  PROVE  clients'[i] \in {NoAddr, book'[i]} \/ Dropping(i)'
BY DEF ClientMatchesBook, Dropping

LEMMA StepClients ==
  TypeOK /\ DownIsQuiet /\ ClientMatchesBook /\ [Next]_vars
    => DownIsQuiet' /\ ClientMatchesBook'
<1> SUFFICES ASSUME TypeOK, DownIsQuiet, ClientMatchesBook, [Next]_vars
             PROVE  DownIsQuiet' /\ ClientMatchesBook'
  OBVIOUS
<1>0. \A i \in Ids : Blank[i] = NoAddr
  BY DEF Blank
<1>1. CASE UNCHANGED <<clients, book, loop, request, status>>
  BY <1>1 DEF DownIsQuiet, ClientMatchesBook
<1>2. ASSUME NEW k \in Ids, NEW a \in Requested, AddLearner(k, a)
      PROVE  DownIsQuiet' /\ ClientMatchesBook'
  <2>1. DownIsQuiet'
    BY <1>2 DEF AddLearner, DownIsQuiet, Running, procVars
  <2>2. ASSUME NEW i \in Ids PROVE clients'[i] \in {NoAddr, book'[i]} \/ Dropping(i)'
    <3>1. CASE i = k
      BY <1>2, <3>1 DEF AddLearner, Dropping, Add
    <3>2. CASE i # k
      <4>1. clients'[i] = clients[i] /\ book'[i] = book[i]
        BY <1>2, <3>2 DEF AddLearner, TypeOK
      <4>2. Dropping(i) => Dropping(i)'
        BY <1>2 DEF AddLearner, Dropping, Idle, loopVars
      <4>3. QED
        BY <4>1, <4>2, MemberStep
    <3>3. QED
      BY <3>1, <3>2
  <2>3. QED
    BY <2>1, <2>2 DEF ClientMatchesBook, Dropping
<1>3. CASE AddLearnerReset
  <2>1. DownIsQuiet'
    BY <1>3 DEF AddLearnerReset, DownIsQuiet, procVars, Idle
  <2>2. ASSUME NEW i \in Ids PROVE clients'[i] \in {NoAddr, book'[i]} \/ Dropping(i)'
    <3>1. CASE i = request.change.id
      BY <1>3, <3>1 DEF AddLearnerReset, WithoutClient, TypeOK
    <3>2. CASE i # request.change.id
      <4>1. clients'[i] = clients[i] /\ book'[i] = book[i]
        BY <1>3, <3>2 DEF AddLearnerReset, WithoutClient, TypeOK
      <4>2. Dropping(i) => Dropping(i)'
        BY <1>3, <3>2 DEF AddLearnerReset, Dropping, loopVars
      <4>3. QED
        BY <4>1, <4>2, MemberStep
    <3>3. QED
      BY <3>1, <3>2
  <2>3. QED
    BY <2>1, <2>2 DEF ClientMatchesBook, Dropping
<1>4. CASE AddLearnerPropose
  <2>1. UNCHANGED <<clients, book, loop, status>> /\ request' = Idle /\ request.pc = "propose"
    BY <1>4 DEF AddLearnerPropose, Commit, netVars, loopVars, procVars
  <2>2. QED
    BY <2>1 DEF DownIsQuiet, ClientMatchesBook, Idle
<1>5. CASE LoopBook
  <2>1. DownIsQuiet'
    BY <1>5 DEF LoopBook, DownIsQuiet, Running, procVars
  <2>2. ASSUME NEW i \in Ids PROVE clients'[i] \in {NoAddr, book'[i]} \/ Dropping(i)'
    <3>1. CASE i = log[handled + 1].id
      BY <1>5, <3>1 DEF LoopBook, Dropping
    <3>2. CASE i # log[handled + 1].id
      <4>1. clients'[i] = clients[i] /\ book'[i] = book[i]
        BY <1>5, <3>2 DEF LoopBook, TypeOK
      <4>2. Dropping(i) => Dropping(i)'
        BY <1>5 DEF LoopBook, Dropping, Idle
      <4>3. QED
        BY <4>1, <4>2, MemberStep
    <3>3. QED
      BY <3>1, <3>2
  <2>3. QED
    BY <2>1, <2>2 DEF ClientMatchesBook, Dropping
<1>6. CASE LoopReset
  <2>1. DownIsQuiet'
    BY <1>6 DEF LoopReset, DownIsQuiet, procVars, Idle
  <2>2. ASSUME NEW i \in Ids PROVE clients'[i] \in {NoAddr, book'[i]} \/ Dropping(i)'
    <3>1. CASE i = loop.change.id
      BY <1>6, <3>1 DEF LoopReset, WithoutClient, TypeOK
    <3>2. CASE i # loop.change.id
      <4>1. clients'[i] = clients[i] /\ book'[i] = book[i]
        BY <1>6, <3>2 DEF LoopReset, WithoutClient, TypeOK
      <4>2. Dropping(i) => Dropping(i)'
        BY <1>6, <3>2 DEF LoopReset, Dropping
      <4>3. QED
        BY <4>1, <4>2, MemberStep
    <3>3. QED
      BY <3>1, <3>2
  <2>3. QED
    BY <2>1, <2>2 DEF ClientMatchesBook, Dropping
<1>7. CASE LoopPersist
  <2>1. UNCHANGED <<clients, book, request, status>> /\ loop' = Idle /\ loop.pc = "persist"
    BY <1>7 DEF LoopPersist, netVars, procVars
  <2>2. QED
    BY <2>1 DEF DownIsQuiet, ClientMatchesBook, Idle
<1>8. ASSUME NEW k \in Ids, Connect(k) PROVE DownIsQuiet' /\ ClientMatchesBook'
  <2>1. DownIsQuiet'
    BY <1>8 DEF Connect, DownIsQuiet, Running, procVars
  <2>2. UNCHANGED <<book, loop, request>>
    BY <1>8 DEF Connect, loopVars
  <2>3. ASSUME NEW i \in Ids PROVE clients'[i] \in {NoAddr, book'[i]} \/ Dropping(i)'
    <3>1. CASE i = k
      BY <1>8, <3>1 DEF Connect, TypeOK
    <3>2. CASE i # k
      <4>1. clients'[i] = clients[i]
        BY <1>8, <3>2 DEF Connect, TypeOK
      <4>2. QED
        BY <2>2, <4>1, MemberStep DEF Dropping
    <3>3. QED
      BY <3>1, <3>2
  <2>4. QED
    BY <2>1, <2>3 DEF ClientMatchesBook, Dropping
<1>9. CASE Down
  BY <1>0, <1>9 DEF Down, DownIsQuiet, ClientMatchesBook
<1>10. CASE Start
  BY <1>0, <1>10 DEF Start, DownIsQuiet, ClientMatchesBook
<1>11. CASE StopBegin
  BY <1>11 DEF StopBegin, DownIsQuiet, ClientMatchesBook, netVars, loopVars
<1>12. QED
  <2>1. ASSUME NEW i \in Ids, RemoveMember(i)
        PROVE  UNCHANGED <<clients, book, loop, request, status>>
    BY <2>1 DEF RemoveMember, Commit, netVars, loopVars, procVars
  <2>2. ASSUME NEW i \in Ids, NEW a \in Requested,
               AddLearnerElsewhere(i, a) \/ PromoteLearner(i, a)
        PROVE  UNCHANGED <<clients, book, loop, request, status>>
    BY <2>2 DEF AddLearnerElsewhere, PromoteLearner, Commit, netVars, loopVars, procVars
  <2>3. ASSUME NEW k \in 0 .. Len(log), Compact(k)
        PROVE  UNCHANGED <<clients, book, loop, request, status>>
    BY <2>3 DEF Compact, netVars, loopVars, procVars
  <2>4. ASSUME NEW k \in 1 .. Len(log), NEW theirs, InstallSnapshot(k, theirs)
        PROVE  UNCHANGED <<clients, book, loop, request, status>>
    BY <2>4 DEF InstallSnapshot, netVars, loopVars
  <2>5. ASSUME NEW i \in Ids, StopWrite(i)
        PROVE  UNCHANGED <<clients, book, loop, request, status>>
    BY <2>5 DEF StopWrite, netVars, loopVars
  <2>6. ASSUME SkipChange \/ StopList \/ UNCHANGED vars
        PROVE  UNCHANGED <<clients, book, loop, request, status>>
    BY <2>6 DEF SkipChange, StopList, vars, netVars, loopVars, procVars
  <2>7. QED
    BY <1>1, <1>2, <1>3, <1>4, <1>5, <1>6, <1>7, <1>8, <1>9, <1>10, <1>11,
       <2>1, <2>2, <2>3, <2>4, <2>5, <2>6 DEF Next, Crash, StopEnd

(* Whatever handlers and forwardReadyLoop do to a member's address side by *)
(* side, and through stops and crashes, no client dials an address that    *)
(* the book no longer has, once the one who changed it has left UpsertPeer *)
(* or RemovePeer.                                                          *)
THEOREM ClientMatchesBookAlways == Spec => []ClientMatchesBook
<1>1. Init => TypeOK /\ DownIsQuiet /\ ClientMatchesBook
  BY InitTypeOK DEF Init, DownIsQuiet, ClientMatchesBook, Blank
<1>2. TypeOK /\ DownIsQuiet /\ ClientMatchesBook /\ [Next]_vars
        => TypeOK' /\ DownIsQuiet' /\ ClientMatchesBook'
  BY StepTypeOK, StepClients
<1>3. QED
  BY <1>1, <1>2, PTL DEF Spec

-----------------------------------------------------------------------------
\* What the log says of a member.

LastTells ==
  \A i, k, j : k \in Nat /\ j \in 1 .. k /\ IsLastOf(i, j, k) => AddressAt(i, k) = log[j].addr

LEMMA AddressIs == LastTells
<1> SUFFICES ASSUME NEW i, NEW k \in Nat, NEW j \in 1 .. k, IsLastOf(i, j, k)
             PROVE  AddressAt(i, k) = log[j].addr
  BY DEF LastTells
<1> DEFINE last == CHOOSE l \in 1 .. k : IsLastOf(i, l, k)
<1>1. last \in 1 .. k /\ IsLastOf(i, last, k)
  OBVIOUS
<1>2. AddressAt(i, k) = log[last].addr
  BY DEF AddressAt
<1> HIDE DEF last
<1>3. last = j
  <2>1. ~(last < j)
    <3>1. last < j => j \in last + 1 .. k
      BY <1>1
    <3>2. QED
      BY <1>1, <3>1 DEF IsLastOf
  <2>2. ~(j < last)
    <3>1. j < last => last \in j + 1 .. k
      BY <1>1
    <3>2. QED
      BY <1>1, <3>1 DEF IsLastOf
  <2>3. QED
    BY <1>1, <2>1, <2>2
<1>4. QED
  BY <1>2, <1>3

LEMMA AddressIsNext == LastTells'
BY AddressIs, PTL

LEMMA NoAddress ==
  ASSUME NEW i, NEW k, \A j \in 1 .. k : ~IsLastOf(i, j, k)
  PROVE  AddressAt(i, k) = Config[i]
BY DEF AddressAt

LEMMA ToldIs ==
  ASSUME NEW i, NEW from, NEW to
  PROVE  i \in ToldOf(from, to) <=>
           \E k \in from + 1 .. to : Tells(log[k]) /\ log[k].id = i
BY DEF ToldOf

\* Changes that do not tell of a member leave the log's word on it.
UntoldStay ==
  \A i, k, m : k \in Nat /\ m \in Nat /\ k <= m /\ i \notin ToldOf(k, m) =>
    AddressAt(i, m) = AddressAt(i, k)

LEMMA AddressStays == UntoldStay
<1> SUFFICES ASSUME NEW i, NEW k \in Nat, NEW m \in Nat, k <= m, i \notin ToldOf(k, m)
             PROVE  AddressAt(i, m) = AddressAt(i, k)
  BY DEF UntoldStay
<1>1. ASSUME NEW l \in k + 1 .. m PROVE ~(log[l].id = i /\ Tells(log[l]))
  BY ToldIs
<1>2. ASSUME NEW j \in 1 .. m, IsLastOf(i, j, m) PROVE j \in 1 .. k /\ IsLastOf(i, j, k)
  <2>1. j \in 1 .. k
    <3>1. j \notin k + 1 .. m
      BY <1>1, <1>2 DEF IsLastOf
    <3>2. QED
      BY <3>1
  <2>2. \A l \in j + 1 .. k : l \in j + 1 .. m
    OBVIOUS
  <2>3. QED
    BY <1>2, <2>1, <2>2 DEF IsLastOf
<1>3. ASSUME NEW j \in 1 .. k, IsLastOf(i, j, k) PROVE j \in 1 .. m /\ IsLastOf(i, j, m)
  <2>1. \A l \in j + 1 .. m : l \in j + 1 .. k \/ l \in k + 1 .. m
    OBVIOUS
  <2>2. QED
    BY <1>1, <1>3, <2>1 DEF IsLastOf
<1>4. CASE \E j \in 1 .. k : IsLastOf(i, j, k)
  BY <1>3, <1>4, AddressIs DEF LastTells
<1>5. CASE \A j \in 1 .. k : ~IsLastOf(i, j, k)
  BY <1>2, <1>5, NoAddress
<1>6. QED
  BY <1>4, <1>5

LEMMA AddressStaysNext == UntoldStay'
BY AddressStays, PTL

LEMMA AddressAppended ==
  ASSUME TypeOK, NEW c, log' = Append(log, c), NEW i, NEW k \in 0 .. Len(log)
  PROVE  /\ AddressAt(i, k)' = AddressAt(i, k)
         /\ \A from \in Nat : ToldOf(from, k)' = ToldOf(from, k)
<1>1. Len(log) \in Nat /\ k \in Nat /\ \A j \in 1 .. k : log'[j] = log[j]
  BY DEF TypeOK
<1>2. \A j \in 1 .. k : IsLastOf(i, j, k)' <=> IsLastOf(i, j, k)
  <2>1. TAKE j \in 1 .. k
  <2>2. \A l \in j + 1 .. k : l \in 1 .. k
    BY <1>1
  <2>3. QED
    BY <1>1, <2>2 DEF IsLastOf, Tells
<1>3. AddressAt(i, k)' = AddressAt(i, k)
  <2>1. CASE \E j \in 1 .. k : IsLastOf(i, j, k)
    BY <1>1, <1>2, <2>1, AddressIs, AddressIsNext DEF LastTells
  <2>2. CASE \A j \in 1 .. k : ~IsLastOf(i, j, k)
    BY <1>2, <2>2 DEF AddressAt
  <2>3. QED
    BY <2>1, <2>2
<1>4. ASSUME NEW from \in Nat PROVE ToldOf(from, k)' = ToldOf(from, k)
  <2>1. \A l \in from + 1 .. k : log'[l] = log[l]
    BY <1>1
  <2>2. QED
    BY <2>1 DEF ToldOf, Tells
<1>5. QED
  BY <1>3, <1>4

LEMMA ToldParts ==
  ASSUME NEW from \in Nat, NEW mid \in Nat, NEW to \in Nat
  PROVE  /\ from <= mid => ToldOf(mid, to) \subseteq ToldOf(from, to)
         /\ ToldOf(from, to) \subseteq ToldOf(from, mid) \cup ToldOf(mid, to)
<1>1. \A k \in from + 1 .. to : k \in from + 1 .. mid \/ k \in mid + 1 .. to
  OBVIOUS
<1>2. from <= mid => \A k \in mid + 1 .. to : k \in from + 1 .. to
  OBVIOUS
<1>3. QED
  BY <1>1, <1>2 DEF ToldOf

\* One change: nothing but it is told of.
LEMMA ToldOnce ==
  ASSUME NEW k \in Nat
  PROVE  ToldOf(k, k + 1) = IF Tells(log[k + 1]) THEN {log[k + 1].id} ELSE {}
<1>1. (k + 1) .. (k + 1) = {k + 1}
  OBVIOUS
<1>2. QED
  BY <1>1 DEF ToldOf

\* The last change that tells of a member has its address.
LEMMA ToldLast ==
  ASSUME NEW k \in Nat \ {0}, NEW n \in Nat, k <= n, Tells(log[k]), log[k].id \notin ToldOf(k, n)
  PROVE  AddressAt(log[k].id, n) = log[k].addr
<1>1. \A l \in k + 1 .. n : ~(log[l].id = log[k].id /\ Tells(log[l]))
  BY ToldIs
<1>2. IsLastOf(log[k].id, k, n)
  BY <1>1 DEF IsLastOf
<1>3. QED
  BY <1>2, AddressIs DEF LastTells

\* A step that leaves the log alone leaves what it says alone.
LEMMA SameLog ==
  ASSUME UNCHANGED log
  PROVE  /\ \A i, k : AddressAt(i, k)' = AddressAt(i, k)
         /\ \A from, to : ToldOf(from, to)' = ToldOf(from, to)
         /\ Len(log)' = Len(log)
BY DEF AddressAt, IsLastOf, ToldOf, Tells

-----------------------------------------------------------------------------
\* The invariant behind BookFollowsLog.

ChangesInv ==
  /\ \A k \in 1 .. Len(log) : log[k].type = "remove" => log[k].addr = NoAddr
  /\ request # Idle => request.change.type = "add"

LoopInv == loop # Idle => handled >= 1 /\ loop.change = log[handled]

StatusInv ==
  /\ status = "down" => request = Idle /\ loop = Idle /\ handled = 0 /\ installed = 0
  /\ status # "stopping" => closing.todo = {}

\* An address in the book that follows the log, and one from which Start makes such.
Follows(i, a) == a \in {AddressAt(i, Len(log))} \cup ({Config[i]} \ {NoAddr})
Recovers(i, a) == Config[i] # NoAddr \/ a = AddressAt(i, Len(log))

\* The members that neither went astray nor are told of by changes still to come
\* to the book, to Pebble and, if this node starts again, from its snapshot on.
BookOk(i) == i \notin strayBook \cup ToldOf(handled, Len(log))
DiskOk(i) == i \notin strayDisk \cup ToldOf(Persisted, Len(log))
ImageOk(i) == i \notin strayImage \cup ToldOf(compacted, Len(log))

BookInv(i) == status # "down" /\ BookOk(i) => Follows(i, book[i])

DiskInv(i) ==
  DiskOk(i) => /\ Recovers(i, members[i])
               /\ status = "stopping" => Recovers(i, closing.copy[i])

ImageInv(i) ==
  IF image = NoImage THEN compacted = 0 ELSE ImageOk(i) => Recovers(i, image[i])

FollowInv ==
  /\ ChangesInv /\ LoopInv /\ StatusInv
  /\ \A i \in Ids : BookInv(i) /\ DiskInv(i) /\ ImageInv(i)

\* What is written in Pebble is a prefix of the log.
LEMMA Numbers ==
  ASSUME TypeOK, LoopInv
  PROVE  /\ Len(log) \in Nat /\ handled \in Nat /\ installed \in Nat /\ compacted \in Nat
         /\ handled <= Len(log) /\ installed <= Len(log) /\ compacted <= Len(log)
         /\ Persisted \in Nat /\ Persisted <= Len(log) /\ Own \in Nat
         /\ Persisted = IF installed >= Own THEN installed ELSE Own
<1>1. /\ Len(log) \in Nat /\ handled \in 0 .. Len(log) /\ installed \in 0 .. Len(log)
      /\ compacted \in 0 .. Len(log)
  BY DEF TypeOK
<1>2. Own \in 0 .. Len(log)
  BY <1>1 DEF Own, LoopInv
<1>3. Persisted = IF installed >= Own THEN installed ELSE Own
  BY <1>1, PersistedIs
<1>4. QED
  BY <1>1, <1>2, <1>3

\* The three invariants, for a member whose address the step leaves alone.
LEMMA BookStays ==
  ASSUME NEW i, BookInv(i),
         status' # "down" /\ BookOk(i)' =>
           /\ status # "down" /\ BookOk(i) /\ book'[i] = book[i]
           /\ AddressAt(i, Len(log))' = AddressAt(i, Len(log))
  PROVE  BookInv(i)'
BY DEF BookInv, Follows

LEMMA DiskStays ==
  ASSUME NEW i, DiskInv(i),
         DiskOk(i)' => /\ DiskOk(i) /\ members'[i] = members[i]
                       /\ AddressAt(i, Len(log))' = AddressAt(i, Len(log)),
         status' = "stopping" => status = "stopping" /\ closing'.copy[i] = closing.copy[i]
  PROVE  DiskInv(i)'
BY DEF DiskInv, Recovers

LEMMA ImageStays ==
  ASSUME NEW i, ImageInv(i), UNCHANGED <<image, compacted>>,
         ImageOk(i)' => ImageOk(i) /\ AddressAt(i, Len(log))' = AddressAt(i, Len(log))
  PROVE  ImageInv(i)'
BY DEF ImageInv, Recovers

\* The parts that a step keeps by leaving alone what they are about.
LEMMA BookKept ==
  ASSUME FollowInv, UNCHANGED <<log, handled, book, strayBook>>,
         status' # "down" => status # "down", NEW i \in Ids
  PROVE  BookInv(i)'
<1>1. BookOk(i)' <=> BookOk(i)
  BY SameLog DEF BookOk
<1>2. QED
  BY <1>1, SameLog, BookStays DEF FollowInv

LEMMA DiskKept ==
  ASSUME FollowInv, UNCHANGED <<log, strayDisk, members>>, Persisted' = Persisted,
         status' = "stopping" => status = "stopping" /\ closing'.copy = closing.copy,
         NEW i \in Ids
  PROVE  DiskInv(i)'
<1>1. DiskOk(i)' <=> DiskOk(i)
  BY SameLog DEF DiskOk
<1>2. QED
  BY <1>1, SameLog, DiskStays DEF FollowInv

LEMMA ImageKept ==
  ASSUME FollowInv, UNCHANGED <<log, strayImage, image, compacted>>, NEW i \in Ids
  PROVE  ImageInv(i)'
<1>1. ImageOk(i)' <=> ImageOk(i)
  BY SameLog DEF ImageOk
<1>2. QED
  BY <1>1, SameLog, ImageStays DEF FollowInv

LEMMA PersistedKept ==
  ASSUME UNCHANGED <<installed, handled>>, (loop = Idle) <=> (loop' = Idle)
  PROVE  Persisted' = Persisted
BY DEF Persisted

LEMMA QuietStep ==
  ASSUME TypeOK, FollowInv,
         UNCHANGED <<log, handled, installed, compacted, book, members, image, status, closing,
                     loop, strayBook, strayDisk, strayImage>>,
         request' # Idle => request'.change.type = "add",
         status = "down" => request' = Idle
  PROVE  FollowInv'
<1>1. ChangesInv' /\ LoopInv' /\ StatusInv'
  BY DEF FollowInv, ChangesInv, LoopInv, StatusInv, Idle
<1>2. Persisted' = Persisted
  BY PersistedKept
<1>3. QED
  BY <1>1, <1>2, BookKept, DiskKept, ImageKept DEF FollowInv

LEMMA CommitFollows ==
  ASSUME TypeOK, FollowInv, NEW c \in Change, Commit(c), c.type = "remove" => c.addr = NoAddr,
         request' \in {request, Idle}
  PROVE  FollowInv'
<1>1. /\ log' = Append(log, c) /\ log \in Seq(Change)
      /\ UNCHANGED <<handled, installed, compacted, book, members, image, status, closing, loop,
                     strayBook, strayDisk, strayImage>>
  BY DEF Commit, TypeOK, netVars, loopVars, diskVars, procVars, histVars
<1>2. PICK n \in Nat : n = Len(log) /\ Len(log') = n + 1
  BY <1>1
<1>3. log'[n + 1] = c /\ \A k \in 1 .. n : log'[k] = log[k]
  BY <1>1, <1>2
<1>4. /\ handled \in Nat /\ installed \in Nat /\ compacted \in Nat /\ Persisted \in Nat
      /\ handled <= n /\ compacted <= n /\ Persisted <= n
  BY <1>2, Numbers DEF FollowInv
<1>5. ChangesInv'
  <2>1. \A k \in 1 .. n + 1 : k \in 1 .. n \/ k = n + 1
    BY <1>2
  <2>2. QED
    BY <1>2, <1>3, <2>1 DEF FollowInv, ChangesInv
<1>6. LoopInv' /\ StatusInv'
  <2>1. loop # Idle => handled \in 1 .. n
    BY <1>4 DEF FollowInv, LoopInv
  <2>2. QED
    BY <1>1, <1>3, <2>1 DEF FollowInv, LoopInv, StatusInv, Idle
<1>7. Persisted' = Persisted
  BY <1>1, PersistedKept
\* What was told before is told still, and the log's word stays where the new change
\* tells nothing.
<1>8. ASSUME NEW i, NEW from \in Nat, i \notin ToldOf(from, n + 1)', from <= n
      PROVE  i \notin ToldOf(from, n) /\ AddressAt(i, n + 1)' = AddressAt(i, n)
  <2>1. /\ AddressAt(i, n)' = AddressAt(i, n)
        /\ ToldOf(from, n)' = ToldOf(from, n)
    <3>1. n \in 0 .. Len(log)
      BY <1>2
    <3>2. QED
      BY <1>1, <3>1, AddressAppended
  <2>2. i \notin ToldOf(from, n)' /\ i \notin ToldOf(n, n + 1)'
    <3>1. /\ \A k \in from + 1 .. n : k \in from + 1 .. n + 1
          /\ \A k \in n + 1 .. n + 1 : k \in from + 1 .. n + 1
      BY <1>8
    <3>2. QED
      BY <1>8, <3>1 DEF ToldOf
  <2>3. AddressAt(i, n + 1)' = AddressAt(i, n)'
    BY <2>2, AddressStaysNext DEF UntoldStay
  <2>4. QED
    BY <2>1, <2>2, <2>3
<1>9. ASSUME NEW i \in Ids PROVE BookInv(i)' /\ DiskInv(i)' /\ ImageInv(i)'
  <2>1. BookOk(i)' => BookOk(i) /\ AddressAt(i, n + 1)' = AddressAt(i, n)
    BY <1>1, <1>2, <1>4, <1>8 DEF BookOk
  <2>2. DiskOk(i)' => DiskOk(i) /\ AddressAt(i, n + 1)' = AddressAt(i, n)
    BY <1>1, <1>2, <1>4, <1>7, <1>8 DEF DiskOk
  <2>3. ImageOk(i)' => ImageOk(i) /\ AddressAt(i, n + 1)' = AddressAt(i, n)
    BY <1>1, <1>2, <1>4, <1>8 DEF ImageOk
  <2>4. AddressAt(i, n + 1)' = AddressAt(i, n) =>
          AddressAt(i, Len(log))' = AddressAt(i, Len(log))
    BY <1>2
  <2>5. QED
    BY <1>1, <2>1, <2>2, <2>3, <2>4, BookStays, DiskStays, ImageStays DEF FollowInv
<1>10. QED
  BY <1>5, <1>6, <1>9 DEF FollowInv

LEMMA HandlerFollows ==
  ASSUME TypeOK, FollowInv, NEW k \in Ids, NEW a \in Requested, AddLearner(k, a)
  PROVE  FollowInv'
<1>1. /\ UNCHANGED <<log, handled, installed, compacted, members, image, status, closing, loop,
                     strayDisk, strayImage>>
      /\ book' = [book EXCEPT ![k] = BookAfter(Add(k, a), @)]
      /\ strayBook' = IF a = NoAddr THEN strayBook ELSE strayBook \cup {k}
      /\ request'.change = Add(k, a) /\ status # "down"
  BY DEF AddLearner, loopVars, diskVars, procVars, Running
<1>2. \A i \in Ids : i # k \/ a = NoAddr => book'[i] = book[i]
  BY <1>1 DEF TypeOK, BookAfter, Add
<1>3. ChangesInv' /\ LoopInv' /\ StatusInv'
  BY <1>1 DEF FollowInv, ChangesInv, LoopInv, StatusInv, Idle, Add
<1>4. Persisted' = Persisted
  BY <1>1, PersistedKept
<1>5. ASSUME NEW i \in Ids PROVE BookInv(i)'
  <2>1. BookOk(i)' => BookOk(i) /\ (i # k \/ a = NoAddr)
    BY <1>1, SameLog DEF BookOk
  <2>2. QED
    BY <1>1, <1>2, <2>1, SameLog, BookStays DEF FollowInv
<1>6. QED
  BY <1>1, <1>3, <1>4, <1>5, DiskKept, ImageKept DEF FollowInv

\* What the loop takes up next.
LEMMA NextChange ==
  ASSUME TypeOK, FollowInv, handled < Len(log)
  PROVE  LET c == log[handled + 1]
         IN  /\ c \in Change /\ handled + 1 \in 1 .. Len(log)
             /\ c.type = "remove" => c.addr = NoAddr
             /\ \A i : i \in ToldOf(handled, Len(log)) =>
                  i \in ToldOf(handled + 1, Len(log)) \/ (i = c.id /\ Tells(c))
             /\ Tells(c) /\ c.id \notin ToldOf(handled + 1, Len(log)) =>
                  AddressAt(c.id, Len(log)) = c.addr
<1> DEFINE c == log[handled + 1]
<1>1. log \in Seq(Change) /\ Len(log) \in Nat /\ handled \in Nat
      /\ handled + 1 \in 1 .. Len(log) /\ handled + 1 \in Nat \ {0} /\ handled + 1 <= Len(log)
  BY DEF TypeOK
<1>2. c \in Change /\ (c.type = "remove" => c.addr = NoAddr)
  BY <1>1 DEF FollowInv, ChangesInv
<1>3. ToldOf(handled, Len(log)) \subseteq
        ToldOf(handled, handled + 1) \cup ToldOf(handled + 1, Len(log))
  BY <1>1, ToldParts
<1>4. ToldOf(handled, handled + 1) = IF Tells(c) THEN {c.id} ELSE {}
  BY <1>1, ToldOnce
<1>5. Tells(c) /\ c.id \notin ToldOf(handled + 1, Len(log)) => AddressAt(c.id, Len(log)) = c.addr
  BY <1>1, ToldLast
<1>6. QED
  BY <1>1, <1>2, <1>3, <1>4, <1>5

LEMMA LoopBookFollows ==
  ASSUME TypeOK, FollowInv, LoopBook
  PROVE  FollowInv'
<1> DEFINE c == log[handled + 1]
<1>1. /\ UNCHANGED <<log, installed, compacted, members, image, status, closing, strayDisk,
                     strayImage, request>>
      /\ status # "down" /\ loop = Idle /\ handled < Len(log) /\ handled' = handled + 1
      /\ book' = [book EXCEPT ![c.id] = BookAfter(c, @)]
      /\ loop' = [pc |-> "reset", change |-> c]
      /\ strayBook' = IF Tells(c) THEN strayBook \ {c.id} ELSE strayBook
  BY DEF LoopBook, diskVars, procVars, boundVars, Running
<1>2. /\ c \in Change /\ (c.type = "remove" => c.addr = NoAddr)
      /\ \A i : i \in ToldOf(handled, Len(log)) =>
           i \in ToldOf(handled + 1, Len(log)) \/ (i = c.id /\ Tells(c))
      /\ Tells(c) /\ c.id \notin ToldOf(handled + 1, Len(log)) =>
           AddressAt(c.id, Len(log)) = c.addr
      /\ handled \in Nat
  BY <1>1, NextChange DEF TypeOK
<1> HIDE DEF c
<1>3. /\ Tells(c) => book'[c.id] = c.addr
      /\ \A i \in Ids : i # c.id \/ ~Tells(c) => book'[i] = book[i]
  <2>1. c.id \in Ids /\ book \in [Ids -> Address]
    BY <1>2 DEF Change, TypeOK
  <2>2. IF Tells(c) THEN BookAfter(c, book[c.id]) = c.addr
                    ELSE BookAfter(c, book[c.id]) = book[c.id]
    BY <1>2 DEF BookAfter, Tells
  <2>3. QED
    BY <1>1, <2>1, <2>2
<1>4. loop' # Idle /\ loop'.change = c
  BY <1>1 DEF Idle
<1>5. ChangesInv' /\ StatusInv'
  BY <1>1 DEF FollowInv, ChangesInv, StatusInv, Idle
<1>6. LoopInv'
  BY <1>1, <1>2, <1>4 DEF LoopInv, c
<1>7. Persisted' = Persisted
  <2>1. handled' - 1 = handled
    BY <1>1, <1>2
  <2>2. QED
    BY <1>1, <1>4, <2>1 DEF Persisted
<1>8. ASSUME NEW i \in Ids PROVE BookInv(i)'
  <2>1. ToldOf(handled, Len(log))' = ToldOf(handled + 1, Len(log))
    BY <1>1, SameLog
  <2>2. CASE i = c.id /\ Tells(c)
    BY <1>1, <1>2, <1>3, <2>1, <2>2, SameLog DEF BookInv, BookOk, Follows
  <2>3. CASE ~(i = c.id /\ Tells(c))
    <3>1. BookOk(i)' => BookOk(i)
      BY <1>1, <1>2, <2>1, <2>3 DEF BookOk
    <3>2. QED
      BY <1>1, <1>3, <2>3, <3>1, SameLog, BookStays DEF FollowInv
  <2>4. QED
    BY <2>2, <2>3
<1>9. QED
  BY <1>1, <1>5, <1>6, <1>7, <1>8, DiskKept, ImageKept DEF FollowInv

LEMMA SkipFollows ==
  ASSUME TypeOK, FollowInv, SkipChange
  PROVE  FollowInv'
<1> DEFINE c == log[handled + 1]
<1>1. /\ UNCHANGED <<log, installed, compacted, book, members, image, status, closing, loop,
                     strayImage, request>>
      /\ status # "down" /\ loop = Idle /\ handled < Len(log) /\ handled' = handled + 1
      /\ strayBook' = strayBook \cup ToldOf(handled, handled + 1)
      /\ strayDisk' = strayDisk \cup IF handled < installed THEN {}
                                     ELSE ToldOf(handled, handled + 1)
  BY DEF SkipChange, netVars, diskVars, procVars, Running
<1>2. /\ handled \in Nat /\ installed \in Nat /\ Len(log) \in Nat
      /\ Persisted = IF installed >= handled THEN installed ELSE handled
      /\ Persisted' = IF installed >= handled + 1 THEN installed ELSE handled + 1
  <2>1. handled \in Nat /\ installed \in Nat /\ Len(log) \in Nat
    BY DEF TypeOK
  <2>2. Persisted' = Max({installed, handled + 1}) /\ Persisted = Max({installed, handled})
    BY <1>1 DEF Persisted
  <2>3. QED
    BY <2>1, <2>2, MaxOfTwo
<1>3. ChangesInv' /\ StatusInv' /\ LoopInv'
  BY <1>1 DEF FollowInv, ChangesInv, StatusInv, LoopInv, Idle
<1>4. ToldOf(handled, Len(log)) \subseteq
        ToldOf(handled, handled + 1) \cup ToldOf(handled + 1, Len(log))
  BY <1>2, ToldParts
<1>5. ASSUME NEW i \in Ids PROVE BookInv(i)'
  <2>1. BookOk(i)' => BookOk(i)
    BY <1>1, <1>4, SameLog DEF BookOk
  <2>2. QED
    BY <1>1, <2>1, SameLog, BookStays DEF FollowInv
<1>6. ASSUME NEW i \in Ids PROVE DiskInv(i)'
  <2>1. DiskOk(i)' => DiskOk(i)
    <3>1. CASE handled < installed
      <4>1. Persisted' = Persisted
        BY <1>2, <3>1
      <4>2. QED
        BY <1>1, <3>1, <4>1, SameLog DEF DiskOk
    <3>2. CASE ~(handled < installed)
      <4>1. Persisted = handled /\ Persisted' = handled + 1
        BY <1>2, <3>2
      <4>2. QED
        BY <1>1, <1>4, <3>2, <4>1, SameLog DEF DiskOk
    <3>3. QED
      BY <3>1, <3>2
  <2>2. QED
    BY <1>1, <2>1, SameLog, DiskStays DEF FollowInv
<1>7. QED
  BY <1>1, <1>3, <1>5, <1>6, ImageKept DEF FollowInv

LEMMA LoopPersistFollows ==
  ASSUME TypeOK, FollowInv, LoopPersist
  PROVE  FollowInv'
<1> DEFINE c == loop.change
           heals == status = "up" /\ Tells(c) /\ c.id \notin ToldOf(handled, installed)
<1>1. /\ UNCHANGED <<log, handled, installed, compacted, book, image, status, closing, strayBook,
                     strayImage, request>>
      /\ loop # Idle /\ loop' = Idle
      /\ members' = [members EXCEPT ![c.id] = c.addr]
      /\ strayDisk' = IF heals THEN strayDisk \ {c.id} ELSE strayDisk \cup {c.id}
  BY DEF LoopPersist, netVars, procVars, Idle
<1>2. /\ handled \in Nat \ {0} /\ handled <= Len(log) /\ Len(log) \in Nat /\ installed \in Nat
      /\ c = log[handled] /\ c \in Change /\ c.id \in Ids
  BY <1>1 DEF FollowInv, LoopInv, TypeOK, Change
<1> HIDE DEF c
<1>3. \A i \in Ids : members'[i] = IF i = c.id THEN c.addr ELSE members[i]
  BY <1>1, <1>2 DEF TypeOK
<1>4. ChangesInv' /\ StatusInv' /\ LoopInv'
  BY <1>1 DEF FollowInv, ChangesInv, StatusInv, LoopInv, Idle
<1>5. /\ Persisted = IF installed >= handled - 1 THEN installed ELSE handled - 1
      /\ Persisted' = IF installed >= handled THEN installed ELSE handled
  <2>1. Persisted = Max({installed, handled - 1}) /\ Persisted' = Max({installed, handled})
    BY <1>1 DEF Persisted
  <2>2. QED
    BY <1>2, <2>1, MaxOfTwo
\* Of other members, Pebble has what it had.
<1>6. ASSUME NEW i \in Ids, i # c.id PROVE DiskInv(i)'
  <2>1. i \notin ToldOf(Persisted', Len(log)) => i \notin ToldOf(Persisted, Len(log))
    <3>1. CASE Persisted' = Persisted
      BY <3>1
    <3>2. CASE Persisted' # Persisted
      <4>1. PICK k \in Nat : Persisted = k /\ Persisted' = k + 1 /\ handled = k + 1
        BY <1>2, <1>5, <3>2
      <4>2. ToldOf(k, Len(log)) \subseteq ToldOf(k, k + 1) \cup ToldOf(k + 1, Len(log))
        BY <1>2, ToldParts
      <4>3. i \notin ToldOf(k, k + 1)
        BY <1>2, <1>6, <4>1, ToldOnce
      <4>4. QED
        BY <4>1, <4>2, <4>3
    <3>3. QED
      BY <3>1, <3>2
  <2>2. DiskOk(i)' => DiskOk(i)
    BY <1>1, <1>6, <2>1, SameLog DEF DiskOk
  <2>3. QED
    BY <1>1, <1>3, <1>6, <2>2, SameLog, DiskStays DEF FollowInv
<1>7. ASSUME NEW i \in Ids, i = c.id PROVE DiskInv(i)'
  <2>1. CASE ~heals
    BY <1>1, <1>7, <2>1 DEF DiskInv, DiskOk
  <2>2. CASE heals
    <3>1. ASSUME c.id \notin ToldOf(Persisted', Len(log))
          PROVE  AddressAt(c.id, Len(log)) = c.addr
      <4>1. c.id \notin ToldOf(handled, Len(log))
        <5>1. CASE Persisted' = handled
          BY <3>1, <5>1
        <5>2. CASE Persisted' = installed
          <6>1. ToldOf(handled, Len(log)) \subseteq
                  ToldOf(handled, installed) \cup ToldOf(installed, Len(log))
            BY <1>2, ToldParts
          <6>2. QED
            BY <2>2, <3>1, <5>2, <6>1
        <5>3. QED
          BY <1>5, <5>1, <5>2
      <4>2. QED
        BY <1>2, <2>2, <4>1, ToldLast
    <3>2. DiskOk(i)' => c.id \notin ToldOf(Persisted', Len(log))
      BY <1>1, <1>7, SameLog DEF DiskOk
    <3>3. status' # "stopping"
      BY <1>1, <2>2
    <3>4. QED
      BY <1>1, <1>2, <1>3, <1>7, <3>1, <3>2, <3>3, SameLog DEF DiskInv, Recovers
  <2>3. QED
    BY <2>1, <2>2
<1>8. QED
  BY <1>1, <1>4, <1>6, <1>7, BookKept, ImageKept DEF FollowInv

LEMMA LoopResetFollows ==
  ASSUME TypeOK, FollowInv, LoopReset
  PROVE  FollowInv'
<1>1. /\ UNCHANGED <<log, handled, installed, compacted, book, members, image, status, closing,
                     strayBook, strayDisk, strayImage, request>>
      /\ loop # Idle /\ loop' = [loop EXCEPT !.pc = "persist"]
  BY DEF LoopReset, diskVars, procVars, histVars, Idle
<1>2. loop' # Idle /\ loop'.change = loop.change
  BY <1>1 DEF TypeOK, Idle
<1>3. ChangesInv' /\ StatusInv' /\ LoopInv'
  BY <1>1, <1>2 DEF FollowInv, ChangesInv, StatusInv, LoopInv, Idle
<1>4. Persisted' = Persisted
  BY <1>1, <1>2, PersistedKept
<1>5. QED
  BY <1>1, <1>3, <1>4, BookKept, DiskKept, ImageKept DEF FollowInv

\* A snapshot has what Pebble had, but for what Pebble did not have yet.
LEMMA CompactFollows ==
  ASSUME TypeOK, FollowInv, NEW k \in 0 .. Len(log), Compact(k)
  PROVE  FollowInv'
<1>1. /\ UNCHANGED <<log, handled, installed, book, members, status, closing, loop, strayBook,
                     strayDisk, request>>
      /\ compacted' = k /\ image' = members
      /\ strayImage' = strayDisk \cup ToldOf(Persisted, k)
  BY DEF Compact, netVars, loopVars, procVars, boundVars
<1>2. ChangesInv' /\ StatusInv' /\ LoopInv'
  BY <1>1 DEF FollowInv, ChangesInv, StatusInv, LoopInv, Idle
<1>3. Persisted' = Persisted
  BY <1>1, PersistedKept
<1>4. ASSUME NEW i \in Ids PROVE ImageInv(i)'
  <2>1. image' # NoImage
    <3>1. DOMAIN members = Ids /\ DOMAIN NoImage = {}
      BY DEF TypeOK, NoImage
    <3>2. QED
      BY <1>1, <3>1
  <2>2. ToldOf(Persisted, Len(log)) \subseteq ToldOf(Persisted, k) \cup ToldOf(k, Len(log))
    BY Numbers, ToldParts DEF FollowInv
  <2>3. ImageOk(i)' => DiskOk(i)
    BY <1>1, <2>2, SameLog DEF ImageOk, DiskOk
  <2>4. QED
    BY <1>1, <2>1, <2>3, SameLog DEF ImageInv, DiskInv, Recovers, FollowInv
<1>5. QED
  BY <1>1, <1>2, <1>3, <1>4, BookKept, DiskKept DEF FollowInv

LEMMA InstallFollows ==
  ASSUME TypeOK, FollowInv, NEW k \in 1 .. Len(log), NEW theirs \in [Ids -> Address],
         InstallSnapshot(k, theirs)
  PROVE  FollowInv'
<1> DEFINE stray == {i \in Ids : theirs[i] # AddressAt(i, k)}
<1>1. /\ UNCHANGED <<log, handled, book, status, closing, loop, strayBook, request>>
      /\ compacted' = k /\ installed' = k /\ members' = theirs /\ image' = theirs
      /\ strayDisk' = stray /\ strayImage' = stray
      /\ status = "up" /\ k > handled
  BY DEF InstallSnapshot, netVars, loopVars
<1>2. ChangesInv' /\ StatusInv' /\ LoopInv'
  BY <1>1 DEF FollowInv, ChangesInv, StatusInv, LoopInv, Idle
<1>3. Persisted' = k
  <2>1. k \in Nat /\ handled \in Nat
    BY DEF TypeOK
  <2>2. Persisted' = Max({k, IF loop = Idle THEN handled ELSE handled - 1})
    BY <1>1 DEF Persisted
  <2>3. (IF loop = Idle THEN handled ELSE handled - 1) \in Int
    BY <2>1
  <2>4. QED
    BY <1>1, <2>1, <2>2, <2>3, MaxOfTwo
<1>4. ASSUME NEW i \in Ids PROVE DiskInv(i)' /\ ImageInv(i)'
  <2>1. k \in Nat /\ Len(log) \in Nat /\ k <= Len(log)
    BY DEF TypeOK
  <2>2. i \notin stray /\ i \notin ToldOf(k, Len(log)) => theirs[i] = AddressAt(i, Len(log))
    BY <2>1, AddressStays DEF UntoldStay
  <2>3. image' # NoImage
    <3>1. DOMAIN theirs = Ids /\ DOMAIN NoImage = {}
      BY DEF NoImage
    <3>2. QED
      BY <1>1, <3>1
  <2> HIDE DEF stray
  <2>4. DiskInv(i)'
    BY <1>1, <1>3, <2>2, SameLog DEF DiskInv, DiskOk, Recovers
  <2>5. ImageInv(i)'
    BY <1>1, <2>2, <2>3, SameLog DEF ImageInv, ImageOk, Recovers
  <2>6. QED
    BY <2>4, <2>5
<1>5. QED
  BY <1>1, <1>2, <1>4, BookKept DEF FollowInv

LEMMA DownFollows ==
  ASSUME TypeOK, FollowInv, Down
  PROVE  FollowInv'
<1>1. /\ UNCHANGED <<log, members, image, compacted, strayDisk, strayImage>>
      /\ status' = "down" /\ request' = Idle /\ loop' = Idle /\ closing' = NotClosing
      /\ handled' = 0 /\ installed' = 0
  BY DEF Down, diskVars
<1>2. ChangesInv' /\ StatusInv' /\ LoopInv'
  BY <1>1 DEF FollowInv, ChangesInv, StatusInv, LoopInv, NotClosing, Idle
<1>3. Persisted' = 0
  BY <1>1, MaxOfTwo DEF Persisted
<1>4. ASSUME NEW i \in Ids PROVE DiskInv(i)'
  <2>1. ToldOf(Persisted, Len(log)) \subseteq ToldOf(0, Len(log))
    BY Numbers, ToldParts DEF FollowInv
  <2>2. DiskOk(i)' => DiskOk(i)
    BY <1>1, <1>3, <2>1, SameLog DEF DiskOk
  <2>3. QED
    BY <1>1, <2>2, SameLog, DiskStays DEF FollowInv
<1>5. ASSUME NEW i \in Ids PROVE BookInv(i)'
  BY <1>1 DEF BookInv
<1>6. QED
  BY <1>1, <1>2, <1>4, <1>5, ImageKept DEF FollowInv

LEMMA StopFollows ==
  ASSUME TypeOK, FollowInv, StopBegin \/ StopList \/ \E k \in Ids : StopWrite(k)
  PROVE  FollowInv'
<1>1. /\ UNCHANGED <<log, handled, installed, compacted, book, image, loop, strayBook, strayImage,
                     request>>
      /\ status' = "stopping" /\ status # "down"
  BY DEF StopBegin, StopList, StopWrite, netVars, loopVars, diskVars, histVars, FollowInv,
         StatusInv, TypeOK
<1>2. ChangesInv' /\ StatusInv' /\ LoopInv'
  BY <1>1 DEF FollowInv, ChangesInv, StatusInv, LoopInv, Idle
<1>3. Persisted' = Persisted
  BY <1>1, PersistedKept
<1>4. ASSUME StopBegin, NEW i \in Ids PROVE DiskInv(i)'
  <2>1. members' = members /\ closing'.copy[i] = book[i]
        /\ strayDisk' = strayDisk \cup strayBook \cup ToldOf(handled, installed)
    BY <1>4 DEF StopBegin, diskVars, TypeOK
  <2>2. ToldOf(handled, Len(log)) \subseteq
          ToldOf(handled, installed) \cup ToldOf(Persisted, Len(log))
    <3>1. /\ handled \in Nat /\ installed \in Nat /\ Persisted \in Nat /\ Len(log) \in Nat
          /\ Persisted <= handled \/ Persisted = installed
      BY Numbers DEF FollowInv, Own
    <3>2. CASE Persisted <= handled
      BY <3>1, <3>2, ToldParts
    <3>3. CASE Persisted = installed
      BY <3>1, <3>3, ToldParts
    <3>4. QED
      BY <3>1, <3>2, <3>3
  <2>3. DiskOk(i)' => DiskOk(i) /\ BookOk(i)
    BY <1>1, <1>3, <2>1, <2>2, SameLog DEF DiskOk, BookOk
  <2>4. DiskInv(i) /\ BookInv(i) /\ AddressAt(i, Len(log))' = AddressAt(i, Len(log))
    BY <1>1, SameLog DEF FollowInv
  <2>5. QED
    BY <1>1, <2>1, <2>3, <2>4 DEF DiskInv, BookInv, Follows, Recovers
<1>5. ASSUME StopList, NEW i \in Ids PROVE DiskInv(i)'
  <2>1. members' = members /\ closing'.copy = closing.copy /\ status = "stopping"
        /\ strayDisk' = strayDisk
    BY <1>5 DEF StopList, diskVars, histVars, TypeOK
  <2>2. QED
    BY <1>1, <1>3, <2>1, DiskKept
<1>6. ASSUME NEW k \in Ids, StopWrite(k), NEW i \in Ids PROVE DiskInv(i)'
  <2>1. /\ closing'.copy = closing.copy /\ status = "stopping" /\ strayDisk' = strayDisk
        /\ members'[i] = IF i = k THEN closing.copy[i] ELSE members[i]
    BY <1>6 DEF StopWrite, TypeOK, FollowInv, StatusInv, histVars
  <2>2. DiskInv(i) /\ AddressAt(i, Len(log))' = AddressAt(i, Len(log))
    BY <1>1, SameLog DEF FollowInv
  <2>3. DiskOk(i)' <=> DiskOk(i)
    BY <1>1, <1>3, <2>1, SameLog DEF DiskOk
  <2>4. QED
    BY <1>1, <2>1, <2>2, <2>3 DEF DiskInv, Recovers
<1>7. ASSUME NEW i \in Ids PROVE BookInv(i)' /\ ImageInv(i)'
  BY <1>1, BookKept, ImageKept
<1>8. QED
  BY <1>2, <1>4, <1>5, <1>6, <1>7 DEF FollowInv

\* What comes back is what Pebble has, or what the newest snapshot had, and raft
\* hands out again what that has not.
LEMMA StartFollows ==
  ASSUME TypeOK, FollowInv, Start
  PROVE  FollowInv'
<1> DEFINE stray == IF image = NoImage THEN strayDisk ELSE strayImage
<1>1. /\ UNCHANGED <<log, installed, compacted, image, closing, loop, strayImage, request>>
      /\ status = "down" /\ status' = "up" /\ book' = Started /\ members' = Started
      /\ strayBook' = stray /\ strayDisk' = stray
      /\ handled' = compacted
      /\ loop = Idle /\ installed = 0 /\ handled = 0
  BY DEF Start, FollowInv, StatusInv, boundVars
<1>2. ChangesInv' /\ StatusInv' /\ LoopInv'
  BY <1>1 DEF FollowInv, ChangesInv, StatusInv, LoopInv, Idle
<1>3. compacted \in Nat
  BY DEF TypeOK
<1>4. Persisted' = compacted /\ Persisted = 0
  <2>1. Persisted' = Max({0, compacted}) /\ Persisted = Max({0, 0})
    BY <1>1 DEF Persisted
  <2>2. QED
    BY <1>3, <2>1, MaxOfTwo
<1>5. ASSUME NEW i \in Ids, i \notin stray \cup ToldOf(compacted, Len(log))
      PROVE  \/ Started[i] = Config[i] /\ Config[i] # NoAddr
             \/ Started[i] = AddressAt(i, Len(log))
  <2>1. Recovers(i, Restored[i])
    <3>1. CASE image = NoImage
      <4>1. DiskOk(i)
        BY <1>4, <1>5, <3>1 DEF FollowInv, ImageInv, DiskOk
      <4>2. QED
        BY <3>1, <4>1 DEF FollowInv, DiskInv, Restored
    <3>2. CASE image # NoImage
      BY <1>5, <3>2 DEF FollowInv, ImageInv, ImageOk, Restored
    <3>3. QED
      BY <3>1, <3>2
  <2>2. QED
    BY <2>1 DEF Recovers, Started
<1> HIDE DEF stray
<1>6. ASSUME NEW i \in Ids PROVE BookInv(i)' /\ DiskInv(i)'
  <2>1. BookOk(i)' \/ DiskOk(i)' => i \notin stray \cup ToldOf(compacted, Len(log))
    BY <1>1, <1>4, SameLog DEF BookOk, DiskOk
  <2>2. QED
    BY <1>1, <1>5, <2>1, SameLog DEF BookInv, DiskInv, Follows, Recovers
<1>7. QED
  BY <1>1, <1>2, <1>6, ImageKept DEF FollowInv

LEMMA StepFollows ==
  ASSUME TypeOK, FollowInv, [Next]_vars
  PROVE  FollowInv'
<1>1. ASSUME NEW i \in Ids, NEW a \in Requested,
             AddLearner(i, a) \/ AddLearnerElsewhere(i, a) \/ PromoteLearner(i, a)
      PROVE  FollowInv'
  <2>1. CASE AddLearner(i, a)
    BY <2>1, HandlerFollows
  <2>2. CASE AddLearnerElsewhere(i, a) \/ PromoteLearner(i, a)
    <3>1. Add(i, a) \in Change /\ Add(i, a).type = "add"
      BY AddType DEF Add
    <3>2. QED
      BY <2>2, <3>1, CommitFollows DEF AddLearnerElsewhere, PromoteLearner
  <2>3. QED
    BY <1>1, <2>1, <2>2
<1>2. ASSUME NEW i \in Ids, RemoveMember(i) PROVE FollowInv'
  <2>1. Remove(i) \in Change /\ Remove(i).addr = NoAddr
    BY RemoveType DEF Remove
  <2>2. QED
    BY <1>2, <2>1, CommitFollows DEF RemoveMember
<1>3. CASE AddLearnerReset
  <2>1. /\ UNCHANGED <<log, handled, installed, compacted, book, members, image, status, closing,
                       loop, strayBook, strayDisk, strayImage>>
        /\ request # Idle /\ request'.change = request.change
    BY <1>3 DEF AddLearnerReset, loopVars, diskVars, procVars, histVars, Idle, TypeOK
  <2>2. QED
    BY <2>1, QuietStep DEF FollowInv, ChangesInv, StatusInv
<1>4. CASE AddLearnerPropose
  <2>1. /\ request' = Idle /\ request.pc = "propose" /\ request.change \in Change
        /\ request.change.type = "add"
    BY <1>4 DEF AddLearnerPropose, FollowInv, ChangesInv, TypeOK, Idle
  <2>2. CASE Commit(request.change)
    BY <2>1, <2>2, CommitFollows
  <2>3. CASE UNCHANGED <<log, netVars, loopVars, diskVars, procVars, histVars, boundVars>>
    BY <2>1, <2>3, QuietStep DEF netVars, loopVars, diskVars, procVars, histVars
  <2>4. QED
    BY <1>4, <2>2, <2>3 DEF AddLearnerPropose
<1>5. CASE (\E i \in Ids : Connect(i)) \/ UNCHANGED vars
  <2>1. UNCHANGED <<log, handled, installed, compacted, book, members, image, status, closing,
                    loop, strayBook, strayDisk, strayImage, request>>
    BY <1>5 DEF Connect, vars, netVars, loopVars, diskVars, procVars, histVars
  <2>2. QED
    BY <2>1, QuietStep DEF FollowInv, ChangesInv, StatusInv
<1>6. ASSUME NEW k \in 0 .. Len(log), Compact(k) PROVE FollowInv'
  BY <1>6, CompactFollows
<1>7. CASE LoopBook \/ LoopReset \/ LoopPersist \/ SkipChange
  BY <1>7, LoopBookFollows, LoopResetFollows, LoopPersistFollows, SkipFollows
<1>8. CASE Crash \/ StopEnd
  BY <1>8, DownFollows DEF Crash, StopEnd
<1>9. CASE StopBegin \/ StopList \/ \E i \in Ids : StopWrite(i)
  BY <1>9, StopFollows
<1>10. ASSUME NEW k \in 1 .. Len(log), NEW theirs \in [Ids -> Address],
              InstallSnapshot(k, theirs)
       PROVE  FollowInv'
  BY <1>10, InstallFollows
<1>11. CASE Start
  BY <1>11, StartFollows
<1>12. QED
  BY <1>1, <1>2, <1>3, <1>4, <1>5, <1>6, <1>7, <1>8, <1>9, <1>10, <1>11 DEF Next

LEMMA InitFollows == Init => FollowInv
<1> SUFFICES ASSUME Init PROVE FollowInv
  OBVIOUS
<1>1. Len(log) = 0 /\ \A j \in 1 .. 0 : FALSE
  BY DEF Init
<1>2. \A i \in Ids : AddressAt(i, 0) = Config[i]
  BY <1>1 DEF AddressAt
<1>3. \A i \in Ids : BookInv(i) /\ DiskInv(i) /\ ImageInv(i)
  BY <1>1, <1>2 DEF Init, BookInv, DiskInv, ImageInv, Follows, Recovers
<1>4. ChangesInv /\ LoopInv /\ StatusInv
  BY <1>1 DEF Init, ChangesInv, LoopInv, StatusInv, NotClosing
<1>5. QED
  BY <1>3, <1>4 DEF FollowInv

LEMMA OkWhenThrough == TypeOK /\ FollowInv => BookFollowsLog
<1> SUFFICES ASSUME TypeOK, FollowInv, NEW i \in Ids, status = "up", handled = Len(log),
                    i \notin strayBook
             PROVE  Follows(i, book[i])
  BY DEF BookFollowsLog, Follows
<1>1. ToldOf(handled, Len(log)) = {}
  <2>1. Len(log) \in Nat
    BY DEF TypeOK
  <2>2. handled + 1 .. Len(log) = {}
    BY <2>1
  <2>3. QED
    BY <2>2 DEF ToldOf
<1>2. QED
  BY <1>1 DEF FollowInv, BookInv, BookOk

(* A running node that is through with the log has the addresses that the  *)
(* log gave last, or its configuration: through crashes and stops at any   *)
(* step, snapshots whose addresses a restart puts back, compaction, changes*)
(* handed out again and changes that name no address; of every member that *)
(* did not go astray as BookFollowsLog says.                               *)
THEOREM BookFollowsLogAlways == Spec => []BookFollowsLog
<1>1. TypeOK /\ FollowInv /\ [Next]_vars => TypeOK' /\ FollowInv'
  BY StepTypeOK, StepFollows
<1>2. QED
  BY <1>1, InitTypeOK, InitFollows, OkWhenThrough, PTL DEF Spec

=============================================================================
