--------------------------- MODULE FileWALProofs ---------------------------
(***************************************************************************)
(* Proofs about FileWAL, for any length of the log, any size of segments   *)
(* and batches, and any number of crashes and of calls of the file system  *)
(* that fail: no record is newer than hardstate.bin, and as long as the    *)
(* files can be read an acknowledged entry is in them, but for those that  *)
(* a removal which failed half-way had removed.  As long as no call has    *)
(* returned an error, the files are one log and agree with the memory and  *)
(* with MemoryWAL.                                                         *)
(***************************************************************************)
EXTENDS FileWAL, SequenceTheorems, WellFoundedInduction, TLAPS

-----------------------------------------------------------------------------
\* The inductive invariant: what holds whatever fails.

\* The index identifies an entry, and no index is skipped.
Log(es) == (\A d, e \in es : d.index = e.index => d = e) /\ NoGap(es)

\* Segments by number cover the log from left to right.
Ordered(segs) ==
  /\ segs \subseteq Segment
  /\ \A r, s \in segs : r.id = s.id => r = s
  /\ \A r, s \in segs : r.id < s.id => r.last < s.first

\* The ends of a segment are entries.
Ends(segs, es) ==
  \A s \in segs : /\ s.first <= s.last
                  /\ \E e \in es : e.index = s.first
                  /\ \E e \in es : e.index = s.last

\* What is due to be on disk: all but what a removal that failed has lost.
Due == Index \ lost

\* The entry is in the range of the segment and, when due, its record in the file of
\* the segment among the files fs.
InFile(fs, due, e, s) ==
  /\ s.first <= e.index /\ e.index <= s.last
  /\ e.index \in due => s.id \in DOMAIN fs /\ e \in Range(fs[s.id])

Held(fs, due, es, segs) == \A e \in es : \E s \in segs : InFile(fs, due, e, s)

Present(fs, segs) == \A s \in segs : s.id \in DOMAIN fs

Written == batch \ todo

TypeInv ==
  /\ files \in [DOMAIN files -> Seq(Entry)] /\ DOMAIN files \subseteq Nat \ {0}
  /\ half \subseteq DOMAIN files /\ stub \subseteq DOMAIN files
  /\ state \in 0 .. MaxTerm /\ term \in 0 .. MaxTerm
  /\ entries \subseteq Entry /\ batch \subseteq Entry /\ todo \subseteq batch
  /\ pc \in {"closed", "idle", "append", "remove", "drop"}
  /\ fresh \in BOOLEAN /\ nextId \in Nat \ {0} /\ doomed \subseteq Nat \ {0}
  /\ floor \in 0 .. MaxIndex /\ raftLast \in 0 .. MaxIndex
  /\ mirror \subseteq Entry /\ mirrorState \in 0 .. MaxTerm
  /\ exposed \in 1 .. None /\ lost \subseteq Index
  /\ refused \in BOOLEAN
  /\ crashes \in 0 .. MaxCrashes /\ faults \in 0 .. MaxFaults

\* The memory, between the calls and inside them.
MemInv ==
  /\ Log(entries)
  /\ Ordered(segments) /\ Ends(segments, entries)
  /\ pc \in {"idle", "append"} => Held(files, Due, entries, segments)
  /\ pc = "closed" => segments = {}

\* An operation that is not at work has nothing in hand.
OpInv ==
  /\ pc # "append" => work = {} /\ todo = {} /\ fresh = TRUE
  /\ pc \notin {"append", "remove"} => batch = {}
  /\ pc \notin {"drop", "remove"} => keep = {} /\ doomed = {}

\* A segment into which nothing has been written yet, the last one.
Blank(s) ==
  /\ fresh = FALSE /\ files[s.id] = <<>> /\ s.last = s.first - 1
  /\ s.first = FirstOf(todo).index /\ \A r \in work : r.id <= s.id

(* appendEntriesIncremental: the segments end before what is yet to be     *)
(* written, and hold what has been, together with what was there before.   *)
AppendInv ==
  pc = "append" =>
    /\ Log(entries \cup batch) /\ todo # {}
    /\ \A e \in entries, b \in batch : e.index < b.index
    /\ \A d \in Written, e \in todo : d.index < e.index
    /\ Ordered(work) /\ Held(files, Due, entries \cup Written, work)
    /\ \A s \in work \cup segments : s.id < nextId
    /\ \A s \in work, e \in todo : s.last < e.index
    /\ \A s \in work : Ends({s}, entries \cup Written) \/ Blank(s)
    /\ fresh = FALSE => work # {}

\* rewriteTail: what stays is in the segments that stay.
RemoveInv ==
  pc = "remove" =>
    /\ exposed \in Index
    /\ keep \subseteq segments /\ Ends(keep, Below(entries, exposed))
    /\ Held(files, Due, Below(entries, exposed), keep)
    /\ Held(files, Due \ Gone, entries, segments)
    /\ \A s \in keep : s.id < nextId /\ s.last < exposed /\ s.id \notin doomed
    /\ \A b \in batch : b.index >= exposed
    /\ Log(Below(entries, exposed) \cup batch)

\* TruncatePrefix: what stays reaches the index.
DropInv ==
  pc = "drop" =>
    /\ keep \subseteq segments
    /\ Held(files, Due, From(entries, floor), keep)
    /\ Held(files, Due \ Gone, entries, segments)
    /\ \A s \in keep : s.last >= floor /\ s.id \notin doomed

\* AckedSurvive, whether or not a record is torn.
Survive ==
  \A e \in entries :
    floor <= e.index /\ e.index < exposed /\ e.index \notin lost => e \in OnDisk

\* The process is down.
ClosedInv == pc = "closed" => Survive

TermInv ==
  /\ \A f \in DOMAIN files : \A e \in Range(files[f]) : e.term <= state
  /\ \A e \in entries \cup batch : e.term <= state
  /\ pc # "closed" => state <= term

SafeInv ==
  TypeInv /\ MemInv /\ OpInv /\ AppendInv /\ RemoveInv /\ DropInv /\ ClosedInv /\ TermInv

-----------------------------------------------------------------------------
\* Operators.

LEMMA Bounds ==
  /\ MaxIndex \in Nat /\ MaxTerm \in Nat /\ MaxBatch \in Nat /\ MaxFaults \in Nat
  /\ SegmentRecords \in Nat /\ SegmentRecords >= 1 /\ MaxCrashes \in Nat
  /\ None = MaxIndex + 1 /\ Index = 1 .. MaxIndex
  /\ \A e \in Entry : e.index \in Index /\ e.term \in 1 .. MaxTerm
  /\ \A s \in Segment : s.id \in Nat /\ s.id # 0 /\ s.first \in Index /\ s.last \in 0 .. MaxIndex
BY ConstantsAssumption DEF None, Index, Entry, Segment

LEMMA NatHasMin ==
  ASSUME NEW S \in SUBSET Nat, S # {}
  PROVE  \E m \in S : \A x \in S : m <= x
<1>1. \E m \in S : \A x \in S : ~(<<x, m>> \in OpToRel(<, Nat))
  BY NatLessThanWellFounded, WFMin
<1>2. PICK m \in S : \A x \in S : ~(<<x, m>> \in OpToRel(<, Nat))
  BY <1>1
<1>3. ASSUME NEW x \in S PROVE m <= x
  <2>1. ~(x < m)
    BY <1>2 DEF OpToRel
  <2>2. QED
    BY <2>1
<1>4. QED
  BY <1>3

LEMMA BoundedHasMax ==
  ASSUME NEW m \in Nat, NEW S \in SUBSET (0 .. m), S # {}
  PROVE  \E x \in S : \A y \in S : y <= x
<1> DEFINE T == {k \in Nat : \A y \in S : y <= k}
<1>1. m \in T
  OBVIOUS
<1>2. PICK k \in T : \A l \in T : k <= l
  <2> HIDE DEF T
  <2>1. T \in SUBSET Nat
    BY DEF T
  <2>2. QED
    BY <1>1, <2>1, NatHasMin
<1>3. CASE k \in S
  BY <1>3
<1>4. CASE k \notin S
  <2>1. \A y \in S : y \in Nat /\ y <= k /\ y # k
    BY <1>4
  <2>2. k # 0 /\ k \in Nat
    <3>1. PICK y \in S : TRUE
      OBVIOUS
    <3>2. k \in Nat /\ y \in Nat /\ y <= k /\ y # k
      BY <1>2, <2>1, <3>1
    <3>3. QED
      BY <3>2
  <2> HIDE DEF T
  <2>3. k - 1 \in Nat /\ \A y \in S : y <= k - 1
    BY <2>1, <2>2
  <2>4. k - 1 \in T
    BY <2>3 DEF T
  <2>5. k <= k - 1 /\ k \in Nat
    BY <1>2, <2>4 DEF T
  <2>6. QED
    BY <2>5
<1>5. QED
  BY <1>3, <1>4

LEMMA MinIsMin ==
  ASSUME NEW S \in SUBSET Nat, S # {}
  PROVE  Min(S) \in S /\ \A x \in S : Min(S) <= x
<1>1. \E m \in S : \A x \in S : m <= x
  BY NatHasMin
<1>2. QED
  BY <1>1 DEF Min

LEMMA MaxIsMax ==
  ASSUME NEW S \in SUBSET Nat, NEW x \in S, \A y \in S : y <= x
  PROVE  Max(S) = x
<1>1. \A y \in S : x >= y
  OBVIOUS
<1>2. /\ Max(S) \in S /\ \A y \in S : Max(S) >= y
  BY <1>1 DEF Max
<1>3. Max(S) \in Nat /\ x \in Nat /\ Max(S) >= x /\ x >= Max(S)
  BY <1>1, <1>2
<1> HIDE DEF Max
<1>4. QED
  BY <1>3

LEMMA FirstOfIsFirst ==
  ASSUME NEW es \in SUBSET Entry, es # {}
  PROVE  FirstOf(es) \in es /\ \A d \in es : FirstOf(es).index <= d.index
<1> DEFINE S == {e.index : e \in es}
<1>1. S \in SUBSET Nat /\ S # {}
  BY Bounds
<1>2. PICK m \in S : \A x \in S : m <= x
  <2> HIDE DEF S
  <2>1. QED
    BY <1>1, NatHasMin
<1>3. \E e \in es : \A d \in es : e.index <= d.index
  BY <1>2
<1>4. QED
  BY <1>3 DEF FirstOf

LEMMA LastIndexIsLast ==
  ASSUME NEW es \in SUBSET Entry
  PROVE  /\ LastIndex(es) \in 0 .. MaxIndex
         /\ \A e \in es : e.index <= LastIndex(es)
         /\ es # {} => \E e \in es : e.index = LastIndex(es)
         /\ es = {} => LastIndex(es) = 0
<1> DEFINE S == {e.index : e \in es} \cup {0}
<1>1. S \in SUBSET (0 .. MaxIndex) /\ S # {} /\ MaxIndex \in Nat
  BY Bounds
<1>2. PICK x \in S : \A y \in S : y <= x
  <2> HIDE DEF S
  <2>1. QED
    BY <1>1, BoundedHasMax
<1>3. Max(S) = x /\ x \in 0 .. MaxIndex
  <2> HIDE DEF S
  <2>1. S \in SUBSET Nat
    BY <1>1
  <2>2. QED
    BY <1>1, <1>2, <2>1, MaxIsMax
<1>4. LastIndex(es) = x
  BY <1>3 DEF LastIndex
<1>5. \A e \in es : e.index \in S
  OBVIOUS
<1>6. \A e \in es : e.index >= 1 /\ e.index \in Nat
  BY Bounds
<1>7. x = 0 \/ \E e \in es : e.index = x
  BY <1>2
<1> HIDE DEF S
<1>8. QED
  BY <1>2, <1>3, <1>4, <1>5, <1>6, <1>7

LEMMA OldestIsOldest ==
  ASSUME NEW segs \in SUBSET Segment, segs # {}
  PROVE  Oldest(segs) \in segs /\ \A r \in segs : Oldest(segs).id <= r.id
<1> DEFINE S == {s.id : s \in segs}
<1>1. S \in SUBSET Nat /\ S # {}
  BY Bounds
<1>2. PICK m \in S : \A x \in S : m <= x
  <2> HIDE DEF S
  <2>1. QED
    BY <1>1, NatHasMin
<1>3. \E s \in segs : \A r \in segs : s.id <= r.id
  BY <1>2
<1>4. QED
  BY <1>3 DEF Oldest

\* The one with the last entries has the highest number.
LEMMA LatestIsLatest ==
  ASSUME NEW segs \in SUBSET Segment, segs # {},
         \A r, s \in segs : r.id < s.id => r.first < s.first
  PROVE  Latest(segs) \in segs /\ \A r \in segs : r.id <= Latest(segs).id
<1> DEFINE S == {s.first : s \in segs}
<1>1. S \in SUBSET (0 .. MaxIndex) /\ S # {} /\ MaxIndex \in Nat
  BY Bounds
<1>2. PICK x \in S : \A y \in S : y <= x
  <2> HIDE DEF S
  <2>1. QED
    BY <1>1, BoundedHasMax
<1>3. PICK s \in segs : s.first = x
  BY <1>2
<1>4. \A r \in segs : r.first <= s.first
  BY <1>2, <1>3
<1>5. \A r \in segs : r.id <= s.id
  BY <1>4, Bounds
<1>6. QED
  BY <1>5 DEF Latest

LEMMA NextSegmentIdIsNew ==
  ASSUME NEW segs \in SUBSET Segment,
         \A r, s \in segs : r.id < s.id => r.first < s.first
  PROVE  NextSegmentId(segs) \in Nat \ {0} /\ \A s \in segs : s.id < NextSegmentId(segs)
<1> DEFINE S == {s.id : s \in segs} \cup {0}
<1>1. S \in SUBSET Nat
  BY Bounds
<1>2. \E x \in S : \A y \in S : y <= x
  <2>1. CASE segs = {}
    BY <2>1
  <2>2. CASE segs # {}
    <3>1. Latest(segs) \in segs /\ \A r \in segs : r.id <= Latest(segs).id
      BY <2>2, LatestIsLatest
    <3>2. Latest(segs).id \in S /\ \A y \in S : y <= Latest(segs).id
      BY <3>1, Bounds
    <3>3. QED
      BY <3>2
  <2>3. QED
    BY <2>1, <2>2
<1>3. PICK x \in S : \A y \in S : y <= x
  BY <1>2
<1>4. Max(S) = x /\ x \in Nat
  <2> HIDE DEF S
  <2>1. QED
    BY <1>1, <1>3, MaxIsMax
<1>5. NextSegmentId(segs) = x + 1
  BY <1>4 DEF NextSegmentId
<1>6. \A s \in segs : s.id \in Nat /\ s.id <= x
  BY <1>3, Bounds
<1>7. QED
  BY <1>4, <1>5, <1>6

-----------------------------------------------------------------------------
\* Logs.

LEMMA LogSplit ==
  ASSUME NEW es \in SUBSET Entry, Log(es), NEW i \in Nat
  PROVE  Log(Below(es, i)) /\ Log(From(es, i))
<1>1. \A e \in es : e.index \in Nat
  BY Bounds
<1>2. NoGap(Below(es, i))
  BY <1>1 DEF Log, NoGap, Below
<1>3. NoGap(From(es, i))
  BY <1>1 DEF Log, NoGap, From
<1>4. QED
  BY <1>2, <1>3 DEF Log, Below, From

\* A log that begins where another one ends.
LEMMA LogJoin ==
  ASSUME NEW a \in SUBSET Entry, NEW b \in SUBSET Entry, Log(a), Log(b), NEW i \in Nat,
         \A e \in a : e.index < i, \A e \in b : e.index >= i,
         a # {} /\ b # {} => /\ \E e \in a : e.index = i - 1
                             /\ \E e \in b : e.index = i
  PROVE  Log(a \cup b)
<1>1. \A e \in a \cup b : e.index \in Nat
  BY Bounds
<1>2. ASSUME NEW d \in a \cup b, NEW e \in a \cup b, NEW j \in d.index .. e.index
      PROVE  \E c \in a \cup b : c.index = j
  <2>1. CASE d \in a /\ e \in a
    BY <2>1 DEF Log, NoGap
  <2>2. CASE d \in b /\ e \in b
    BY <2>2 DEF Log, NoGap
  <2>3. CASE d \in a /\ e \in b
    <3>1. PICK u \in a, v \in b : u.index = i - 1 /\ v.index = i
      BY <2>3
    <3>2. j \in Nat /\ (j \in d.index .. u.index \/ j \in v.index .. e.index)
      BY <1>1, <2>3, <3>1
    <3>3. QED
      BY <2>3, <3>2 DEF Log, NoGap
  <2>4. CASE d \in b /\ e \in a
    BY <1>1, <2>4
  <2>5. QED
    BY <2>1, <2>2, <2>3, <2>4
<1>3. \A d, e \in a \cup b : d.index = e.index => d = e
  BY <1>1 DEF Log
<1>4. QED
  BY <1>2, <1>3 DEF Log, NoGap

LEMMA EntriesAreLog ==
  ASSUME NEW i \in Index, NEW n \in 1 .. MaxBatch, NEW t \in 1 .. MaxTerm,
         i + n - 1 <= MaxIndex
  PROVE  /\ Entries(i, n, t) \in SUBSET Entry /\ Log(Entries(i, n, t))
         /\ \A e \in Entries(i, n, t) : i <= e.index /\ e.index <= i + n - 1 /\ e.term = t
         /\ \E e \in Entries(i, n, t) : e.index = i
         /\ \E e \in Entries(i, n, t) : e.index = i + n - 1
<1>1. i \in Nat /\ n \in Nat /\ n >= 1 /\ i >= 1 /\ MaxIndex \in Nat
  BY Bounds
<1>2. \A e \in Entries(i, n, t) : e.index \in i .. i + n - 1 /\ e.term = t
  BY DEF Entries
<1>3. \A j \in i .. i + n - 1 : \E e \in Entries(i, n, t) : e.index = j
  <2>1. \A j \in i .. i + n - 1 : [index |-> j, term |-> t] \in Entries(i, n, t)
    BY DEF Entries
  <2>2. \A j : [index |-> j, term |-> t].index = j
    OBVIOUS
  <2>3. QED
    BY <2>1, <2>2
<1>4. Entries(i, n, t) \in SUBSET Entry
  BY <1>1 DEF Entries, Entry, Index
<1>5. \A d, e \in Entries(i, n, t) : d.index = e.index => d = e
  <2>1. \A e \in Entries(i, n, t) : e = [index |-> e.index, term |-> t]
    BY DEF Entries
  <2>2. QED
    BY <2>1
<1>6. NoGap(Entries(i, n, t))
  <2> SUFFICES ASSUME NEW d \in Entries(i, n, t), NEW e \in Entries(i, n, t),
                      NEW j \in d.index .. e.index
               PROVE  \E c \in Entries(i, n, t) : c.index = j
    BY DEF NoGap
  <2>1. d.index \in i .. i + n - 1 /\ e.index \in i .. i + n - 1
    BY <1>2
  <2>2. j \in i .. i + n - 1
    BY <1>1, <2>1
  <2>3. QED
    BY <1>3, <2>2
<1>7. i \in i .. i + n - 1 /\ i + n - 1 \in i .. i + n - 1
  BY <1>1
<1>8. \A e \in Entries(i, n, t) : i <= e.index /\ e.index <= i + n - 1 /\ e.term = t
  BY <1>1, <1>2
<1>9. QED
  BY <1>3, <1>4, <1>5, <1>6, <1>7, <1>8 DEF Log

\* The boundary segment of TruncatePrefix.
LEMMA BetweenIsRun ==
  ASSUME NEW es \in SUBSET Entry, Log(es), NEW i \in Index, NEW j \in Index, i <= j,
         \E e \in es : e.index <= i, \E e \in es : e.index = j
  PROVE  /\ Between(es, i, j) \in Seq(Entry) /\ Len(Between(es, i, j)) = j - i + 1
         /\ \A k \in 1 .. j - i + 1 : /\ Between(es, i, j)[k] \in es
                                      /\ Between(es, i, j)[k].index = i + k - 1
         /\ Range(Between(es, i, j)) = {e \in es : i <= e.index /\ e.index <= j}
<1> DEFINE q == Between(es, i, j)
<1>1. i \in Nat /\ j \in Nat /\ j - i + 1 \in Nat /\ \A e \in es : e.index \in Nat
  BY Bounds
<1>2. \A k \in 1 .. j - i + 1 : \E e \in es : e.index = i + k - 1
  <2> SUFFICES ASSUME NEW k \in 1 .. j - i + 1 PROVE \E e \in es : e.index = i + k - 1
    OBVIOUS
  <2>1. PICK d \in es : d.index <= i
    OBVIOUS
  <2>2. PICK e \in es : e.index = j
    OBVIOUS
  <2>3. i + k - 1 \in d.index .. e.index
    BY <1>1, <2>1, <2>2
  <2>4. QED
    BY <2>3 DEF Log, NoGap
<1>3. q = [k \in 1 .. j - i + 1 |-> CHOOSE e \in es : e.index = i + k - 1]
  BY DEF Between
<1>4. \A k \in 1 .. j - i + 1 : q[k] \in es /\ q[k].index = i + k - 1
  <2> SUFFICES ASSUME NEW k \in 1 .. j - i + 1 PROVE q[k] \in es /\ q[k].index = i + k - 1
    OBVIOUS
  <2>1. q[k] = CHOOSE e \in es : e.index = i + k - 1
    BY <1>3
  <2>2. QED
    BY <1>2, <2>1
<1>5. q \in Seq(Entry) /\ Len(q) = j - i + 1 /\ DOMAIN q = 1 .. j - i + 1
  <2> HIDE DEF q
  <2>1. q \in [1 .. j - i + 1 -> Entry]
    BY <1>3, <1>4
  <2>2. QED
    BY <1>1, <2>1
<1> HIDE DEF q
<1>6. Range(q) = {e \in es : i <= e.index /\ e.index <= j}
  <2>1. ASSUME NEW e \in Range(q) PROVE e \in es /\ i <= e.index /\ e.index <= j
    <3>1. PICK k \in 1 .. j - i + 1 : e = q[k]
      BY <1>5 DEF Range
    <3>2. QED
      BY <1>1, <1>4, <3>1
  <2>2. ASSUME NEW e \in es, i <= e.index, e.index <= j PROVE e \in Range(q)
    <3>1. e.index - i + 1 \in 1 .. j - i + 1
      BY <1>1, <2>2
    <3>2. q[e.index - i + 1].index = i + (e.index - i + 1) - 1
      BY <1>4, <3>1
    <3>3. q[e.index - i + 1].index = e.index
      BY <1>1, <3>2
    <3>4. q[e.index - i + 1] = e
      BY <1>4, <3>1, <3>3 DEF Log
    <3>5. QED
      BY <1>5, <3>1, <3>4 DEF Range
  <2>3. QED
    BY <2>1, <2>2
<1>7. QED
  BY <1>4, <1>5, <1>6 DEF q

-----------------------------------------------------------------------------
\* Segments and files.

LEMMA OrderedFirsts ==
  ASSUME NEW segs, Ordered(segs), NEW es, Ends(segs, es)
  PROVE  /\ segs \in SUBSET Segment
         /\ \A r, s \in segs : r.id < s.id => r.first < s.first
<1>1. \A s \in segs : s.first <= s.last /\ s.first \in Nat /\ s.last \in Nat
  BY Bounds DEF Ordered, Ends
<1>2. QED
  BY <1>1 DEF Ordered

LEMMA OrderedPart ==
  ASSUME NEW segs, NEW some \in SUBSET segs, Ordered(segs), NEW es, Ends(segs, es)
  PROVE  Ordered(some) /\ Ends(some, es)
BY DEF Ordered, Ends

LEMMA HeldKept ==
  ASSUME NEW fs, NEW gs, NEW es, NEW ds \in SUBSET es, NEW segs, NEW due, NEW some \in SUBSET due,
         Held(fs, due, es, segs),
         \A s \in segs : s.id \in DOMAIN fs =>
                           s.id \in DOMAIN gs /\ Range(fs[s.id]) \subseteq Range(gs[s.id])
  PROVE  Held(gs, some, ds, segs)
BY DEF Held, InFile

LEMMA RangeAppend ==
  ASSUME NEW q \in Seq(Entry), NEW e \in Entry
  PROVE  Append(q, e) \in Seq(Entry) /\ Range(Append(q, e)) = Range(q) \cup {e}
<1>1. /\ Append(q, e) \in Seq(Entry) /\ Len(Append(q, e)) = Len(q) + 1 /\ Len(q) \in Nat
      /\ \A k \in 1 .. Len(q) : Append(q, e)[k] = q[k]
      /\ Append(q, e)[Len(q) + 1] = e
  BY AppendProperties
<1>2. DOMAIN q = 1 .. Len(q) /\ DOMAIN Append(q, e) = 1 .. Len(q) + 1
  BY <1>1
<1>3. 1 .. Len(q) + 1 = (1 .. Len(q)) \cup {Len(q) + 1}
  BY <1>1
<1> HIDE DEF Append
<1>4. QED
  BY <1>1, <1>2, <1>3 DEF Range

LEMMA OnDiskIs ==
  /\ \A f \in DOMAIN files : Range(files[f]) \subseteq OnDisk
  /\ \A e \in OnDisk : \E f \in DOMAIN files : e \in Range(files[f])
BY DEF OnDisk

LEMMA HeldIsOnDisk ==
  ASSUME NEW es, NEW segs, NEW due, Held(files, due, es, segs)
  PROVE  \A e \in es : e.index \in due => e \in OnDisk
BY OnDiskIs DEF Held, InFile

LEMMA SafeSurvives == SafeInv => Survive
<1> SUFFICES ASSUME SafeInv, NEW e \in entries, floor <= e.index, e.index < exposed,
                    e.index \notin lost
             PROVE  e \in OnDisk
  BY DEF Survive
<1>1. pc \in {"closed", "idle", "append", "remove", "drop"} /\ e.index \in Due
  BY Bounds DEF SafeInv, TypeInv, Due
<1>2. CASE pc \in {"idle", "append"}
  BY <1>1, <1>2, HeldIsOnDisk DEF SafeInv, MemInv
<1>3. CASE pc = "remove"
  <2>1. \A d \in Below(entries, exposed) : d.index \in Due => d \in OnDisk
    BY <1>3, HeldIsOnDisk DEF SafeInv, RemoveInv
  <2>2. QED
    BY <1>1, <2>1 DEF Below
<1>4. CASE pc = "drop"
  <2>1. \A d \in From(entries, floor) : d.index \in Due => d \in OnDisk
    BY <1>4, HeldIsOnDisk DEF SafeInv, DropInv
  <2>2. e.index >= floor
    BY Bounds DEF SafeInv, TypeInv
  <2>3. QED
    BY <1>1, <2>1, <2>2 DEF From
<1>5. CASE pc = "closed"
  BY <1>5 DEF SafeInv, ClosedInv, Survive
<1>6. QED
  BY <1>1, <1>2, <1>3, <1>4, <1>5

LEMMA SafeTypes == SafeInv => TypeOK
<1> SUFFICES ASSUME SafeInv PROVE TypeOK
  OBVIOUS
<1>1. \A segs : Ordered(segs) =>
        segs \subseteq Segment /\ \A r, s \in segs : r.id = s.id => r = s
  BY DEF Ordered
<1>2. Ordered(segments)
  BY DEF SafeInv, MemInv
<1>3. Ordered({})
  BY DEF Ordered
<1>4. Ordered(work)
  BY <1>3 DEF SafeInv, OpInv, AppendInv
<1>5. /\ keep \subseteq Segment
      /\ \A r, s \in keep : r.id = s.id => r = s
  BY <1>1, <1>2, <1>3 DEF SafeInv, OpInv, RemoveInv, DropInv
<1>6. QED
  BY <1>1, <1>2, <1>4, <1>5 DEF SafeInv, TypeInv, TypeOK

LEMMA SafeTerms == SafeInv => StateCoversEntries
BY OnDiskIs DEF SafeInv, TermInv, StateCoversEntries

-----------------------------------------------------------------------------
\* The steps.

LEMMA InitSafe == Init => SafeInv
<1> SUFFICES ASSUME Init PROVE SafeInv
  OBVIOUS
<1>1. TypeInv
  <2>1. files \in [DOMAIN files -> Seq(Entry)] /\ DOMAIN files = {}
    BY DEF Init
  <2>2. None \in 1 .. None /\ MaxTerm \in Nat /\ MaxIndex \in Nat
        /\ MaxCrashes \in Nat /\ MaxFaults \in Nat
    BY Bounds
  <2>3. /\ half = {} /\ state = 0 /\ entries = {} /\ batch = {} /\ todo = {}
        /\ pc = "closed" /\ fresh = TRUE /\ nextId = 1 /\ doomed = {} /\ floor = 0
        /\ raftLast = 0 /\ mirror = {} /\ exposed = None /\ refused = FALSE
        /\ crashes = 0 /\ faults = 0 /\ stub = {} /\ term = 0 /\ mirrorState = 0 /\ lost = {}
    BY DEF Init
  <2>4. state \in 0 .. MaxTerm /\ term \in 0 .. MaxTerm /\ mirrorState \in 0 .. MaxTerm /\ floor \in 0 .. MaxIndex /\ raftLast \in 0 .. MaxIndex
        /\ crashes \in 0 .. MaxCrashes /\ faults \in 0 .. MaxFaults
    BY <2>2, <2>3
  <2>5. DOMAIN files \subseteq Nat \ {0} /\ half \subseteq DOMAIN files
        /\ stub \subseteq DOMAIN files /\ lost \subseteq Index
    BY <2>1, <2>3
  <2>6. entries \subseteq Entry /\ batch \subseteq Entry /\ todo \subseteq batch
        /\ doomed \subseteq Nat \ {0} /\ mirror \subseteq Entry
    BY <2>3
  <2>7. exposed \in 1 .. None
    BY <2>2, <2>3
  <2>8. files \in [DOMAIN files -> Seq(Entry)]
    BY <2>1
  <2>9. /\ pc \in {"closed", "idle", "append", "remove", "drop"}
        /\ fresh \in BOOLEAN /\ refused \in BOOLEAN
    BY <2>3, Zenon
  <2>10. nextId \in Nat \ {0}
    BY <2>3
  <2>11. QED
    BY <2>4, <2>5, <2>6, <2>7, <2>8, <2>9, <2>10 DEF TypeInv
<1>2. MemInv
  BY DEF Init, MemInv, Log, NoGap, Ordered, Ends
<1>3. TermInv /\ ClosedInv
  BY DEF Init, TermInv, ClosedInv, Survive
<1>4. QED
  BY <1>1, <1>2, <1>3 DEF Init, SafeInv, OpInv, AppendInv, RemoveInv, DropInv

\* What is left to show of a step that changes neither files nor memory.
LEMMA SameMemory ==
  ASSUME SafeInv, UNCHANGED <<files, memVars, opVars, exposed, lost>>,
         pc = "idle" \/ floor' = floor
  PROVE  MemInv' /\ OpInv' /\ AppendInv' /\ RemoveInv' /\ DropInv' /\ ClosedInv'
<1>1. UNCHANGED <<files, entries, segments, pc, todo, batch, work, fresh, nextId, doomed,
                  keep, exposed, lost, Due, Gone>>
  BY DEF memVars, opVars, Due, Gone
<1>2. MemInv' /\ OpInv'
  BY <1>1 DEF SafeInv, MemInv, OpInv
<1>3. AppendInv'
  BY <1>1 DEF SafeInv, AppendInv, Written, Blank
<1>4. RemoveInv' /\ DropInv'
  BY <1>1 DEF SafeInv, RemoveInv, DropInv
<1>5. ClosedInv'
  BY <1>1 DEF SafeInv, ClosedInv, Survive, OnDisk
<1>6. QED
  BY <1>2, <1>3, <1>4, <1>5

\* The same of one that ends an operation.
LEMMA BackToIdle ==
  ASSUME pc' = "idle", todo' = {}, batch' = {}, work' = {}, fresh' = TRUE, doomed' = {},
         keep' = {}, Log(entries'), Ordered(segments'), Ends(segments', entries'),
         Held(files', Due', entries', segments')
  PROVE  MemInv' /\ OpInv' /\ AppendInv' /\ RemoveInv' /\ DropInv' /\ ClosedInv'
BY DEF MemInv, OpInv, AppendInv, RemoveInv, DropInv, ClosedInv

LEMMA RecordsAre ==
  ASSUME TypeInv, NEW f \in DOMAIN files
  PROVE  /\ files[f] \in Seq(Entry) /\ Len(files[f]) \in Nat
         /\ DOMAIN files[f] = 1 .. Len(files[f])
         /\ \A k \in 1 .. Len(files[f]) : /\ files[f][k] \in Entry
                                          /\ files[f][k].index \in Nat
                                          /\ files[f][k] \in Range(files[f])
         /\ \A e \in Range(files[f]) : \E k \in 1 .. Len(files[f]) : e = files[f][k]
         /\ Range(files[f]) \subseteq Entry
         /\ files[f] # <<>> <=> Len(files[f]) >= 1
<1>1. files[f] \in Seq(Entry)
  BY DEF TypeInv
<1>2. Len(files[f]) \in Nat /\ DOMAIN files[f] = 1 .. Len(files[f])
      /\ files[f] \in [1 .. Len(files[f]) -> Entry]
  BY <1>1
<1>3. files[f] # <<>> <=> Len(files[f]) >= 1
  BY <1>1, <1>2
<1>4. QED
  BY <1>1, <1>2, <1>3, Bounds DEF Range, Index

LEMMA LoadedSegmentsAre ==
  ASSUME TypeInv
  PROVE  /\ \A s \in LoadedSegments :
              /\ s \in Segment /\ s.id \in DOMAIN files /\ files[s.id] # <<>>
              /\ s.first = files[s.id][1].index
              /\ s.last = files[s.id][Len(files[s.id])].index
         /\ \A f \in DOMAIN files : files[f] # <<>> => \E s \in LoadedSegments : s.id = f
<1> DEFINE Loaded(f) == [id |-> f, first |-> files[f][1].index,
                         last |-> files[f][Len(files[f])].index]
<1>1. \A f \in DOMAIN files : files[f] # <<>> => Loaded(f) \in Segment
  <2> SUFFICES ASSUME NEW f \in DOMAIN files, files[f] # <<>> PROVE Loaded(f) \in Segment
    OBVIOUS
  <2>1. Len(files[f]) \in Nat /\ Len(files[f]) >= 1
    BY RecordsAre
  <2>2. files[f][1] \in Entry /\ files[f][Len(files[f])] \in Entry
    BY <2>1, RecordsAre
  <2>3. f \in Nat \ {0}
    BY DEF TypeInv
  <2>4. \A e \in Entry : e.index \in Index /\ e.index \in 0 .. MaxIndex
    BY Bounds
  <2>5. files[f][1].index \in Index /\ files[f][Len(files[f])].index \in 0 .. MaxIndex
    BY <2>2, <2>4
  <2>6. QED
    BY <2>3, <2>5 DEF Segment
<1>2. LoadedSegments = {Loaded(f) : f \in {g \in DOMAIN files : files[g] # <<>>}}
  BY DEF LoadedSegments
<1>3. \A f : Loaded(f).id = f /\ Loaded(f).first = files[f][1].index
             /\ Loaded(f).last = files[f][Len(files[f])].index
  OBVIOUS
<1> HIDE DEF Loaded
<1>4. QED
  BY <1>1, <1>2, <1>3

\* Files that go up make each index one entry's.
LEMMA AscendingIsLog ==
  ASSUME TypeInv, OneLog
  PROVE  Log(OnDisk)
<1> SUFFICES ASSUME NEW d \in OnDisk, NEW e \in OnDisk, d.index = e.index PROVE d = e
  BY DEF Log, OneLog
<1>1. PICK f \in DOMAIN files : d \in Range(files[f])
  BY OnDiskIs
<1>2. PICK g \in DOMAIN files : e \in Range(files[g])
  BY OnDiskIs
<1>3. PICK j \in 1 .. Len(files[f]) : d = files[f][j]
  BY <1>1, RecordsAre
<1>4. PICK k \in 1 .. Len(files[g]) : e = files[g][k]
  BY <1>2, RecordsAre
<1>5. f \in Nat /\ g \in Nat /\ d.index \in Nat /\ j \in Nat /\ k \in Nat
      /\ j \in DOMAIN files[f] /\ k \in DOMAIN files[g]
  <2>1. f \in Nat /\ g \in Nat
    BY DEF TypeInv
  <2>2. d.index \in Nat /\ j \in Nat /\ j \in DOMAIN files[f]
    BY <1>3, RecordsAre
  <2>3. k \in Nat /\ k \in DOMAIN files[g]
    BY <1>4, RecordsAre
  <2>4. QED
    BY <2>1, <2>2, <2>3
<1>6. /\ ~(f < g \/ (f = g /\ j < k))
      /\ ~(g < f \/ (g = f /\ k < j))
  BY <1>3, <1>4, <1>5 DEF OneLog, Ascending
<1>7. f = g /\ j = k
  BY <1>5, <1>6
<1>8. QED
  BY <1>3, <1>4, <1>7

LEMMA OpenSafe == ASSUME SafeInv, Open PROVE SafeInv'
<1>1. TypeInv /\ OpInv /\ TermInv /\ pc = "closed" /\ OneLog
  BY DEF SafeInv, Open
<1>2. /\ pc' = "idle" /\ entries' = OnDisk /\ segments' = LoadedSegments /\ exposed' = None
      /\ raftLast' = Max({floor, LastIndex(OnDisk)}) /\ mirror' = OnDisk
      /\ term' = state /\ mirrorState' = state /\ lost' = {}
      /\ UNCHANGED <<files, half, stub, state, todo, batch, work, fresh, nextId, doomed, keep,
                     floor, refused, crashes, faults>>
  BY DEF Open, diskVars, fileVars
<1>3. OnDisk \in SUBSET Entry
  BY <1>1, RecordsAre, OnDiskIs
<1>4. Log(OnDisk)
  BY <1>1, AscendingIsLog
<1>5. \A s \in LoadedSegments :
        /\ s \in Segment /\ s.id \in DOMAIN files /\ Len(files[s.id]) >= 1
        /\ Len(files[s.id]) \in Nat /\ s.id \in Nat
        /\ DOMAIN files[s.id] = 1 .. Len(files[s.id])
        /\ s.first = files[s.id][1].index /\ s.first \in Nat
        /\ s.last = files[s.id][Len(files[s.id])].index /\ s.last \in Nat
  <2> SUFFICES ASSUME NEW s \in LoadedSegments
               PROVE  /\ s \in Segment /\ s.id \in DOMAIN files /\ Len(files[s.id]) >= 1
                      /\ Len(files[s.id]) \in Nat /\ s.id \in Nat
                      /\ DOMAIN files[s.id] = 1 .. Len(files[s.id])
                      /\ s.first = files[s.id][1].index /\ s.first \in Nat
                      /\ s.last = files[s.id][Len(files[s.id])].index /\ s.last \in Nat
    OBVIOUS
  <2>1. /\ s \in Segment /\ s.id \in DOMAIN files /\ files[s.id] # <<>>
        /\ s.first = files[s.id][1].index
        /\ s.last = files[s.id][Len(files[s.id])].index
    BY <1>1, LoadedSegmentsAre
  <2>2. s.first \in Nat /\ s.last \in Nat /\ s.id \in Nat
    BY <2>1, Bounds
  <2>3. QED
    BY <1>1, <2>1, <2>2, RecordsAre
<1>6. Ordered(LoadedSegments)
  <2>1. \A r, s \in LoadedSegments : r.id < s.id => r.last < s.first
    BY <1>1, <1>5 DEF OneLog, Ascending
  <2>2. \A r, s \in LoadedSegments : r.id = s.id => r = s
    BY DEF LoadedSegments
  <2>3. QED
    BY <1>5, <2>1, <2>2 DEF Ordered
<1>7. Ends(LoadedSegments, OnDisk)
  <2> SUFFICES ASSUME NEW s \in LoadedSegments
               PROVE  /\ s.first <= s.last
                      /\ \E e \in OnDisk : e.index = s.first
                      /\ \E e \in OnDisk : e.index = s.last
    BY DEF Ends
  <2>1. files[s.id][1] \in OnDisk /\ files[s.id][Len(files[s.id])] \in OnDisk
    <3>1. 1 \in 1 .. Len(files[s.id]) /\ Len(files[s.id]) \in 1 .. Len(files[s.id])
      BY <1>5
    <3>2. files[s.id][1] \in Range(files[s.id])
          /\ files[s.id][Len(files[s.id])] \in Range(files[s.id])
      BY <1>1, <1>5, <3>1, RecordsAre
    <3>3. QED
      BY <1>5, <3>2, OnDiskIs
  <2>2. s.first <= s.last
    <3>1. CASE Len(files[s.id]) = 1
      BY <1>5, <3>1
    <3>2. CASE Len(files[s.id]) > 1
      BY <1>1, <1>5, <3>2 DEF OneLog, Ascending
    <3>3. QED
      BY <1>5, <3>1, <3>2
  <2>3. QED
    BY <1>5, <2>1, <2>2
<1>8. Held(files, Due', OnDisk, LoadedSegments)
  <2> SUFFICES ASSUME NEW e \in OnDisk
               PROVE  \E s \in LoadedSegments : InFile(files, Due', e, s)
    BY DEF Held
  <2>1. PICK f \in DOMAIN files : e \in Range(files[f])
    BY OnDiskIs
  <2>2. PICK k \in 1 .. Len(files[f]) : e = files[f][k]
    BY <1>1, <2>1, RecordsAre
  <2>3. Len(files[f]) \in Nat /\ k \in Nat /\ 1 <= k /\ k <= Len(files[f])
        /\ files[f] # <<>> /\ k \in DOMAIN files[f] /\ e.index \in Nat
    BY <1>1, <2>2, RecordsAre
  <2>4. PICK s \in LoadedSegments : s.id = f
    BY <1>1, <2>3, LoadedSegmentsAre
  <2>5. s.first <= e.index
    <3>1. CASE k = 1
      BY <1>5, <2>2, <2>4, <3>1
    <3>2. CASE 1 < k
      BY <1>1, <1>5, <2>2, <2>3, <2>4, <3>2 DEF OneLog, Ascending
    <3>3. QED
      BY <2>3, <3>1, <3>2
  <2>6. e.index <= s.last
    <3>1. CASE k = Len(files[f])
      BY <1>5, <2>2, <2>4, <3>1
    <3>2. CASE k < Len(files[f])
      BY <1>1, <1>5, <2>2, <2>3, <2>4, <3>2 DEF OneLog, Ascending
    <3>3. QED
      BY <2>3, <3>1, <3>2
  <2>7. QED
    BY <2>1, <2>4, <2>5, <2>6 DEF InFile
<1>10. MemInv' /\ OpInv' /\ AppendInv' /\ RemoveInv' /\ DropInv' /\ ClosedInv'
  <2>1. todo = {} /\ batch = {} /\ work = {} /\ fresh = TRUE /\ doomed = {} /\ keep = {}
    BY <1>1 DEF OpInv
  <2>2. QED
    BY <1>2, <1>4, <1>6, <1>7, <1>8, <2>1, BackToIdle
<1>11. TypeInv'
  <2>1. raftLast' \in 0 .. MaxIndex
    <3>1. floor \in Nat /\ LastIndex(OnDisk) \in Nat /\ floor \in 0 .. MaxIndex
          /\ LastIndex(OnDisk) \in 0 .. MaxIndex /\ MaxIndex \in Nat
      BY <1>1, <1>3, LastIndexIsLast, Bounds DEF TypeInv
    <3>2. \E x \in {floor, LastIndex(OnDisk)} : \A y \in {floor, LastIndex(OnDisk)} : y <= x
      BY <3>1
    <3>3. Max({floor, LastIndex(OnDisk)}) \in {floor, LastIndex(OnDisk)}
      BY <3>1, <3>2, MaxIsMax
    <3>4. QED
      BY <1>2, <3>1, <3>3
  <2>2. None \in 1 .. None
    BY Bounds
  <2>3. QED
    BY <1>1, <1>2, <1>3, <2>1, <2>2 DEF TypeInv
<1>12. TermInv'
  <2>1. state <= state
    BY <1>1, Bounds DEF TypeInv
  <2>2. QED
    BY <1>1, <1>2, <2>1, OnDiskIs DEF TermInv
<1>13. QED
  BY <1>10, <1>11, <1>12 DEF SafeInv

\* hardstate.bin may take a newer state.
LEMMA StateTypes ==
  ASSUME SafeInv, pc # "closed", NEW t \in term .. MaxTerm, NEW ok, PersistState(t, ok), term' = t
  PROVE  /\ state' \in 0 .. MaxTerm /\ term' \in 0 .. MaxTerm /\ faults' \in 0 .. MaxFaults
         /\ state \in 0 .. MaxTerm /\ state <= state' /\ state' <= term' /\ t \in 0 .. MaxTerm
         /\ ok => state' = t
         /\ \A f \in DOMAIN files : \A e \in Range(files[f]) : e.term <= state'
         /\ \A e \in entries \cup batch : e.term <= state'
<1>1. /\ state \in 0 .. MaxTerm /\ term \in 0 .. MaxTerm /\ faults \in 0 .. MaxFaults
      /\ state <= term /\ MaxTerm \in Nat /\ MaxFaults \in Nat /\ TypeInv /\ TermInv
  BY Bounds DEF SafeInv, TypeInv, TermInv
<1>2. /\ state' = t \/ state' = state
      /\ ok => state' = t
      /\ faults' = faults \/ (faults < MaxFaults /\ faults' = faults + 1)
  BY DEF PersistState, Fault
<1>3. /\ state' \in 0 .. MaxTerm /\ term' \in 0 .. MaxTerm /\ faults' \in 0 .. MaxFaults
      /\ state <= state' /\ state' <= term' /\ t \in 0 .. MaxTerm
  BY <1>1, <1>2
<1>4. \A f \in DOMAIN files : Range(files[f]) \subseteq Entry
  BY <1>1, RecordsAre
<1>5. entries \cup batch \subseteq Entry
  BY <1>1 DEF TypeInv
<1>6. \A e \in Entry : e.term <= state => e.term <= state'
  BY <1>1, <1>3, Bounds
<1>7. QED
  BY <1>1, <1>2, <1>3, <1>4, <1>5, <1>6 DEF TermInv

LEMMA SyncSafe == ASSUME SafeInv, NEW ok, Sync(ok) PROVE SafeInv'
<1>1. /\ pc = "idle" /\ PersistState(term, ok) /\ term' = term
      /\ UNCHANGED <<files, half, stub, entries, segments, opVars, floor, raftLast, mirror,
                     mirrorState, exposed, lost, refused, crashes>>
  BY DEF Sync, fileVars, memVars, logVars, pastVars
<1>2. term \in term .. MaxTerm
  BY Bounds DEF SafeInv, TypeInv
<1>3. MemInv' /\ OpInv' /\ AppendInv' /\ RemoveInv' /\ DropInv' /\ ClosedInv'
  BY <1>1, SameMemory DEF memVars
<1>4. TypeInv' /\ TermInv'
  BY <1>1, <1>2, StateTypes DEF SafeInv, TypeInv, TermInv, opVars
<1>5. QED
  BY <1>3, <1>4 DEF SafeInv

LEMMA AppendStateSafe == ASSUME SafeInv, NEW t, NEW ok, AppendState(t, ok) PROVE SafeInv'
<1>1. /\ pc = "idle" /\ PersistState(t, ok) /\ t \in term .. MaxTerm /\ term' = t
      /\ mirrorState' = t \/ mirrorState' = 0
      /\ UNCHANGED <<files, half, stub, entries, segments, opVars, floor, raftLast, mirror,
                     exposed, lost, refused, crashes>>
  BY DEF AppendState, HardState, fileVars, memVars, pastVars
<1>2. MemInv' /\ OpInv' /\ AppendInv' /\ RemoveInv' /\ DropInv' /\ ClosedInv'
  BY <1>1, SameMemory DEF memVars
<1>3. mirrorState' \in 0 .. MaxTerm
  BY <1>1, StateTypes, Bounds
<1>4. TypeInv' /\ TermInv'
  BY <1>1, <1>3, StateTypes DEF SafeInv, TypeInv, TermInv, opVars
<1>5. QED
  BY <1>2, <1>4 DEF SafeInv

\* The segments that reach an index are the last ones.
LEMMA ReachingIsTail ==
  ASSUME Ordered(segments), Ends(segments, entries), NEW i \in Nat
  PROVE  /\ Reaching(i) \in SUBSET segments /\ Reaching(i) \in SUBSET Segment
         /\ \A r \in Reaching(i) : r.last >= i
         /\ \A r \in segments \ Reaching(i) : r.last < i
         /\ \A r \in segments \ Reaching(i), s \in Reaching(i) : r.id < s.id /\ r.last < s.first
<1>1. \A s \in segments : /\ s \in Segment /\ s.id \in Nat /\ s.first \in Nat /\ s.last \in Nat
                          /\ s.first <= s.last
  BY Bounds DEF Ordered, Ends
<1>2. Reaching(i) \in SUBSET segments /\ Reaching(i) \in SUBSET Segment
  BY <1>1 DEF Reaching
<1>3. \A r \in segments : r \in Reaching(i) <=> \E q \in segments : q.id <= r.id /\ q.last >= i
  BY DEF Reaching
<1>4. ASSUME NEW r \in Reaching(i) PROVE r.last >= i
  <2>1. PICK q \in segments : q.id <= r.id /\ q.last >= i
    BY <1>2, <1>3, <1>4
  <2>2. CASE q.id = r.id
    BY <1>2, <2>1, <2>2 DEF Ordered
  <2>3. CASE q.id < r.id
    <3>1. q.last < r.first /\ r \in segments
      BY <1>2, <2>1, <2>3 DEF Ordered
    <3>2. QED
      BY <1>1, <2>1, <3>1
  <2>4. QED
    BY <1>1, <1>2, <2>1, <2>2, <2>3
<1>5. ASSUME NEW r \in segments \ Reaching(i) PROVE r.last < i
  BY <1>1, <1>3, <1>5
<1>6. ASSUME NEW r \in segments \ Reaching(i), NEW s \in Reaching(i)
      PROVE  r.id < s.id /\ r.last < s.first
  <2>1. PICK q \in segments : q.id <= s.id /\ q.last >= i
    BY <1>2, <1>3, <1>6
  <2>2. ~(q.id <= r.id) /\ s \in segments /\ r \in segments
    BY <1>2, <1>3, <1>6, <2>1
  <2>3. r.id < s.id
    BY <1>1, <2>1, <2>2
  <2>4. QED
    BY <2>2, <2>3 DEF Ordered
<1>7. QED
  BY <1>2, <1>4, <1>5, <1>6

LEMMA BeginFacts ==
  ASSUME SafeInv, NEW i \in Index, NEW n \in 1 .. MaxBatch, NEW t \in 1 .. MaxTerm,
         NEW ok, AppendBegin(i, n, t, ok)
  PROVE  /\ pc = "idle" /\ work = {} /\ todo = {} /\ batch = {} /\ keep = {} /\ doomed = {}
         /\ fresh = TRUE /\ exposed \in 1 .. None
         /\ UNCHANGED <<files, half, stub, entries, segments, floor, lost, Due, crashes>>
         /\ i \in Nat /\ i + n - 1 <= MaxIndex /\ raftLast' = i + n - 1
         /\ mirror' = Merged(mirror, i, Entries(i, n, t))
         /\ entries \in SUBSET Entry /\ mirror \in SUBSET Entry
         /\ Log(entries) /\ Ordered(segments) /\ Ends(segments, entries)
         /\ Held(files, Due, entries, segments)
<1>1. /\ pc = "idle" /\ i + n - 1 <= MaxIndex /\ raftLast' = i + n - 1
      /\ mirror' = Merged(mirror, i, Entries(i, n, t))
      /\ UNCHANGED <<files, half, stub, entries, segments, floor, lost, Due, crashes>>
  BY DEF AppendBegin, RaftAppends, memVars, fileVars, Due
<1>2. /\ work = {} /\ todo = {} /\ batch = {} /\ keep = {} /\ doomed = {} /\ fresh = TRUE
  BY <1>1 DEF SafeInv, OpInv
<1>3. entries \in SUBSET Entry /\ mirror \in SUBSET Entry /\ exposed \in 1 .. None
  BY DEF SafeInv, TypeInv
<1>4. /\ Log(entries) /\ Ordered(segments) /\ Ends(segments, entries)
      /\ Held(files, Due, entries, segments)
  BY <1>1 DEF SafeInv, MemInv
<1>5. i \in Nat
  BY Bounds
<1>6. QED
  BY <1>1, <1>2, <1>3, <1>4, <1>5

LEMMA BeginTypes ==
  ASSUME SafeInv, NEW i \in Index, NEW n \in 1 .. MaxBatch, NEW t \in 1 .. MaxTerm,
         NEW ok, AppendBegin(i, n, t, ok),
         batch' \subseteq entries \cup Entries(i, n, t), todo' \subseteq batch',
         pc' \in {"append", "remove", "idle"}, fresh' \in BOOLEAN, nextId' \in Nat \ {0},
         doomed' \subseteq Nat \ {0}, exposed' \in 1 .. None, refused' \in BOOLEAN,
         ok \/ batch' = batch
  PROVE  TypeInv' /\ TermInv'
<1>1. /\ UNCHANGED <<files, half, stub, entries, segments, floor, lost, crashes>>
      /\ i \in Nat /\ i + n - 1 <= MaxIndex /\ raftLast' = i + n - 1
      /\ mirror' = Merged(mirror, i, Entries(i, n, t))
      /\ entries \in SUBSET Entry /\ mirror \in SUBSET Entry /\ pc = "idle" /\ batch = {}
  BY BeginFacts
<1>2. /\ TypeInv /\ t \in term .. MaxTerm /\ term' = t /\ PersistState(t, ok)
      /\ mirrorState' = t \/ mirrorState' = 0
      /\ MaxTerm \in Nat /\ MaxIndex \in Nat /\ n \in Nat /\ n >= 1 /\ i >= 1
  <2>1. TypeInv /\ t \in term .. MaxTerm /\ term' = t /\ PersistState(t, ok)
        /\ (mirrorState' = t \/ mirrorState' = 0)
    BY DEF SafeInv, AppendBegin, HardState
  <2>2. QED
    BY <2>1, Bounds
<1>3. /\ Entries(i, n, t) \in SUBSET Entry
      /\ \A e \in Entries(i, n, t) : e.term = t
  BY <1>1, EntriesAreLog
<1>4. batch' \subseteq Entry /\ mirror' \subseteq Entry
  BY <1>1, <1>3 DEF Merged, Below
<1>5. /\ state' \in 0 .. MaxTerm /\ term' \in 0 .. MaxTerm /\ faults' \in 0 .. MaxFaults
      /\ state' <= term' /\ (ok => state' = t)
      /\ \A f \in DOMAIN files : \A e \in Range(files[f]) : e.term <= state'
      /\ \A e \in entries : e.term <= state'
      /\ t \in 0 .. MaxTerm
  BY <1>1, <1>2, StateTypes
<1>6. mirrorState' \in 0 .. MaxTerm /\ raftLast' \in 0 .. MaxIndex
  BY <1>1, <1>2, <1>5
<1>7. TypeInv'
  <2>1. pc' \in {"closed", "idle", "append", "remove", "drop"}
    OBVIOUS
  <2>2. QED
    BY <1>1, <1>2, <1>4, <1>5, <1>6, <2>1 DEF TypeInv
<1>8. TermInv'
  <2>1. \A e \in batch' : e.term <= state'
    <3>1. CASE batch' = batch
      BY <1>1, <3>1
    <3>2. CASE ok
      <4>1. t <= t /\ state' = t
        BY <1>5, <3>2
      <4>2. \A e \in batch' : e \in entries \/ e.term = t
        BY <1>3
      <4>3. QED
        BY <1>5, <4>1, <4>2
    <3>3. QED
      BY <3>1, <3>2
  <2>2. QED
    BY <1>1, <1>5, <2>1 DEF TermInv
<1>9. QED
  BY <1>7, <1>8

\* Nothing but raft's own log has changed when Append returns an error at once.
LEMMA NothingAppendedSafe ==
  ASSUME SafeInv, NEW i \in Index, NEW n \in 1 .. MaxBatch, NEW t \in 1 .. MaxTerm,
         NEW ok, AppendBegin(i, n, t, ok),
         UNCHANGED <<opVars, exposed>>, refused' = TRUE \/ refused' = refused
  PROVE  SafeInv'
<1>1. /\ pc = "idle" /\ UNCHANGED <<files, entries, segments, floor, lost>> /\ TypeInv
      /\ batch = {}
  BY BeginFacts DEF SafeInv
<1>2. MemInv' /\ OpInv' /\ AppendInv' /\ RemoveInv' /\ DropInv' /\ ClosedInv'
  BY <1>1, SameMemory DEF memVars
<1>3. UNCHANGED <<pc, todo, batch, fresh, nextId, doomed, exposed>>
  BY DEF opVars
<1>4. /\ batch' \subseteq entries \cup Entries(i, n, t) /\ todo' \subseteq batch'
      /\ pc' \in {"append", "remove", "idle"} /\ fresh' \in BOOLEAN
      /\ nextId' \in Nat \ {0} /\ doomed' \subseteq Nat \ {0} /\ exposed' \in 1 .. None
  BY <1>1, <1>3 DEF TypeInv
<1>5. refused' \in BOOLEAN
  BY <1>1 DEF TypeInv
<1>6. TypeInv' /\ TermInv'
  BY <1>3, <1>4, <1>5, BeginTypes
<1>7. QED
  BY <1>2, <1>6 DEF SafeInv

LEMMA AppendNextSafe ==
  ASSUME SafeInv, NEW i \in Index, NEW n \in 1 .. MaxBatch, NEW t \in 1 .. MaxTerm,
         NEW ok, ok, AppendBegin(i, n, t, ok), AppendNext(i, Entries(i, n, t))
  PROVE  SafeInv'
<1> DEFINE es == Entries(i, n, t)
<1>1. /\ pc = "idle" /\ keep = {} /\ doomed = {} /\ exposed \in 1 .. None
      /\ UNCHANGED <<files, half, stub, entries, segments, floor, lost, Due>>
      /\ i \in Nat /\ i + n - 1 <= MaxIndex /\ entries \in SUBSET Entry
      /\ Log(entries) /\ Ordered(segments) /\ Ends(segments, entries)
      /\ Held(files, Due, entries, segments)
  BY BeginFacts
<1>2. /\ entries = {} \/ i = LastIndex(entries) + 1
      /\ pc' = "append" /\ todo' = es /\ batch' = es /\ work' = segments
      /\ nextId' = NextSegmentId(segments) /\ fresh' = ~(segments # {})
      /\ UNCHANGED <<doomed, keep, exposed, refused>>
  BY DEF AppendNext, Write
<1>3. /\ es \in SUBSET Entry /\ Log(es)
      /\ \A e \in es : i <= e.index /\ e.index \in Nat
      /\ \E e \in es : e.index = i
  BY <1>1, EntriesAreLog, Bounds
<1> HIDE DEF es
<1>4. \A e \in entries : e.index < i /\ e.index \in Nat
  BY <1>1, <1>2, LastIndexIsLast, Bounds
<1>5. Log(entries \cup es)
  <2>1. entries # {} => \E e \in entries : e.index = i - 1
    BY <1>1, <1>2, LastIndexIsLast
  <2>2. \A e \in es : e.index >= i
    BY <1>1, <1>3
  <2>3. QED
    BY <1>1, <1>3, <1>4, <2>1, <2>2, LogJoin
<1>6. \A s \in segments : s.last < i /\ s.last \in Nat
  BY <1>1, <1>4, Bounds DEF Ends, Ordered
<1>7. NextSegmentId(segments) \in Nat \ {0}
      /\ \A s \in segments : s.id < NextSegmentId(segments)
  BY <1>1, OrderedFirsts, NextSegmentIdIsNew
<1>8. MemInv'
  BY <1>1, <1>2 DEF MemInv
<1>9. OpInv'
  BY <1>1, <1>2 DEF OpInv
<1>10. AppendInv'
  <2>1. Written' = {} /\ entries' \cup Written' = entries
    BY <1>1, <1>2 DEF Written
  <2>2. /\ Log(entries' \cup batch') /\ todo' # {}
        /\ \A e \in entries', b \in batch' : e.index < b.index
    BY <1>1, <1>2, <1>3, <1>4, <1>5
  <2>3. \A s \in work', e \in todo' : s.last < e.index
    BY <1>1, <1>2, <1>3, <1>6
  <2>4. \A s \in work' : Ends({s}, entries' \cup Written')
    BY <1>1, <1>2, <2>1 DEF Ends
  <2>5. Ordered(work') /\ Held(files', Due', entries' \cup Written', work')
    BY <1>1, <1>2, <2>1
  <2>6. \A s \in work' \cup segments' : s.id < nextId'
    BY <1>1, <1>2, <1>7
  <2>7. fresh' = FALSE => work' # {}
    BY <1>2
  <2>8. \A d \in Written', e \in todo' : d.index < e.index
    BY <2>1
  <2>9. QED
    BY <2>2, <2>3, <2>4, <2>5, <2>6, <2>7, <2>8 DEF AppendInv
<1>11. RemoveInv' /\ DropInv' /\ ClosedInv'
  BY <1>2 DEF RemoveInv, DropInv, ClosedInv
<1>12. TypeInv' /\ TermInv'
  <2>1. batch' \subseteq entries \cup Entries(i, n, t) /\ todo' \subseteq batch'
    BY <1>2 DEF es
  <2>2. /\ pc' \in {"append", "remove", "idle"} /\ fresh' \in BOOLEAN
        /\ nextId' \in Nat \ {0} /\ doomed' \subseteq Nat \ {0} /\ exposed' \in 1 .. None
        /\ refused' \in BOOLEAN
    BY <1>1, <1>2, <1>7 DEF SafeInv, TypeInv
  <2>3. QED
    BY <2>1, <2>2, BeginTypes
<1>13. QED
  BY <1>8, <1>9, <1>10, <1>11, <1>12 DEF SafeInv

\* Where the segments that rewriteTail replaces begin: not after the entries that
\* arrive, unless the log itself does.
LEMMA OverlapFacts ==
  ASSUME SafeInv, NEW i \in Index, NEW n \in 1 .. MaxBatch, NEW t \in 1 .. MaxTerm,
         NEW es, es = Entries(i, n, t), NEW hit, hit = Reaching(i), NEW s, s = Oldest(hit),
         NEW ok, AppendBegin(i, n, t, ok), AppendOverlap(i, es)
  PROVE  /\ hit \in SUBSET segments /\ hit \in SUBSET Segment /\ s \in hit
         /\ \A r \in segments \ hit : r.id < s.id /\ r.last < s.first
         /\ \A e \in entries :
              e.index < s.first => \E r \in segments \ hit : InFile(files, Due, e, r)
         /\ \A d \in entries : \A j \in Nat :
              d.index <= j /\ j <= i => \E c \in entries : c.index = j
         /\ s.first <= i =>
              Below(entries, s.first) \cup From(Merged(entries, i, es), s.first)
                = Below(entries, i) \cup es
         /\ i < s.first => \A d \in entries : ~(d.index < s.first)
<1>1. /\ i \in Nat /\ i + n - 1 <= MaxIndex /\ entries \in SUBSET Entry
      /\ Log(entries) /\ Ordered(segments) /\ Ends(segments, entries)
      /\ Held(files, Due, entries, segments)
  BY BeginFacts
<1>2. entries # {} /\ i <= LastIndex(entries) /\ hit # {}
  BY DEF AppendOverlap
<1>3. \A e \in es : i <= e.index /\ e.index \in Nat
  BY <1>1, EntriesAreLog, Bounds
<1>4. /\ hit \in SUBSET segments /\ hit \in SUBSET Segment
      /\ \A r \in hit : r.last >= i
      /\ \A r \in segments \ hit : r.last < i
      /\ \A r \in segments \ hit, q \in hit : r.id < q.id /\ r.last < q.first
  BY <1>1, ReachingIsTail
<1>5. s \in hit /\ \A r \in hit : s.id <= r.id
  BY <1>2, <1>4, OldestIsOldest
<1>6. \A r \in segments : /\ r.id \in Nat /\ r.first \in Nat /\ r.last \in Nat
                          /\ r.first <= r.last
  BY <1>1, Bounds DEF Ordered, Ends, Segment
<1>7. ASSUME NEW r \in hit PROVE s.first <= r.first
  <2>1. CASE s.id = r.id
    BY <1>1, <1>4, <1>5, <1>6, <1>7, <2>1 DEF Ordered
  <2>2. CASE s.id < r.id
    <3>1. s.last < r.first
      BY <1>1, <1>4, <1>5, <2>2 DEF Ordered
    <3>2. QED
      BY <1>4, <1>5, <1>6, <3>1
  <2>3. QED
    BY <1>4, <1>5, <1>6, <2>1, <2>2
<1>8. \A e \in entries : e.index \in Nat
  BY <1>1, Bounds
\* What begins before the oldest of them stays.
<1>9. ASSUME NEW e \in entries, e.index < s.first
      PROVE  \E r \in segments \ hit : InFile(files, Due, e, r)
  <2>1. PICK r \in segments : InFile(files, Due, e, r)
    BY <1>1, <1>9 DEF Held
  <2>2. r.first <= e.index
    BY <2>1 DEF InFile
  <2>3. r \notin hit
    BY <1>4, <1>5, <1>6, <1>7, <1>8, <1>9, <2>2
  <2>4. QED
    BY <2>1, <2>3
<1>10. LastIndex(entries) \in Nat /\ \E e \in entries : e.index = LastIndex(entries)
  BY <1>1, <1>2, LastIndexIsLast
\* A log that begins before i has an entry at i.
<1>11. ASSUME NEW d \in entries, NEW j \in Nat, d.index <= j, j <= i
       PROVE  \E c \in entries : c.index = j
  <2>1. PICK e \in entries : e.index = LastIndex(entries)
    BY <1>10
  <2>2. j \in d.index .. e.index
    BY <1>1, <1>2, <1>8, <1>10, <1>11, <2>1
  <2>3. QED
    BY <1>1, <2>2 DEF Log, NoGap
<1>12. s.first \in Nat
  BY <1>4, <1>5, <1>6
<1>13. ASSUME s.first <= i
       PROVE  Below(entries, s.first) \cup From(Merged(entries, i, es), s.first)
                = Below(entries, i) \cup es
  <2>1. \A e \in Below(entries, s.first) : e \in Below(entries, i)
    BY <1>1, <1>8, <1>12, <1>13 DEF Below
  <2>2. \A e \in es : e \in From(Merged(entries, i, es), s.first)
    BY <1>1, <1>3, <1>12, <1>13 DEF From, Merged
  <2>3. \A e \in Below(entries, i) :
          e \in Below(entries, s.first) \cup From(Merged(entries, i, es), s.first)
    BY <1>8, <1>12 DEF From, Merged, Below
  <2>4. \A e \in From(Merged(entries, i, es), s.first) : e \in Below(entries, i) \cup es
    BY DEF From, Merged
  <2>5. QED
    BY <2>1, <2>2, <2>3, <2>4
<1>14. ASSUME i < s.first, NEW d \in entries, d.index < s.first PROVE FALSE
  <2>1. PICK r \in segments \ hit : InFile(files, Due, d, r)
    BY <1>9, <1>14
  <2>2. d.index <= i
    BY <1>1, <1>4, <1>6, <1>8, <2>1 DEF InFile
  <2>3. PICK c \in entries : c.index = i
    BY <1>1, <1>11, <2>2
  <2>4. PICK q \in segments \ hit : InFile(files, Due, c, q)
    BY <1>9, <1>14, <2>3
  <2>5. QED
    BY <1>1, <1>4, <1>6, <2>3, <2>4 DEF InFile
<1>15. \A r \in segments \ hit : r.id < s.id /\ r.last < s.first
  BY <1>4, <1>5
<1>16. QED
  BY <1>4, <1>5, <1>9, <1>11, <1>13, <1>14, <1>15

LEMMA AppendOverlapSafe ==
  ASSUME SafeInv, NEW i \in Index, NEW n \in 1 .. MaxBatch, NEW t \in 1 .. MaxTerm,
         NEW ok, ok, AppendBegin(i, n, t, ok), AppendOverlap(i, Entries(i, n, t))
  PROVE  SafeInv'
<1> DEFINE es == Entries(i, n, t)
           hit == Reaching(i)
           s == Oldest(hit)
<1>1. /\ pc = "idle" /\ work = {} /\ todo = {} /\ batch = {} /\ fresh = TRUE
      /\ UNCHANGED <<files, half, stub, entries, segments, floor, lost, Due>>
      /\ i \in Nat /\ i + n - 1 <= MaxIndex /\ entries \in SUBSET Entry
      /\ Log(entries) /\ Ordered(segments) /\ Ends(segments, entries)
      /\ Held(files, Due, entries, segments)
  BY BeginFacts
<1>2. /\ entries # {} /\ i <= LastIndex(entries) /\ hit # {}
      /\ pc' = "remove" /\ keep' = segments \ hit /\ doomed' = IdsOf(hit)
      /\ batch' = From(Merged(entries, i, es), s.first)
      /\ nextId' = s.id /\ exposed' = s.first
      /\ UNCHANGED <<todo, work, fresh, refused>>
  BY DEF AppendOverlap
<1>3. /\ es \in SUBSET Entry /\ Log(es)
      /\ \A e \in es : i <= e.index /\ e.index \in Nat
      /\ \E e \in es : e.index = i
  BY <1>1, EntriesAreLog, Bounds
<1>4. /\ hit \in SUBSET segments /\ hit \in SUBSET Segment /\ s \in hit
      /\ \A r \in segments \ hit : r.id < s.id /\ r.last < s.first
      /\ \A e \in entries :
           e.index < s.first => \E r \in segments \ hit : InFile(files, Due, e, r)
      /\ \A d \in entries : \A j \in Nat :
           d.index <= j /\ j <= i => \E c \in entries : c.index = j
      /\ s.first <= i =>
           Below(entries, s.first) \cup From(Merged(entries, i, es), s.first)
             = Below(entries, i) \cup es
      /\ i < s.first => \A d \in entries : ~(d.index < s.first)
  BY OverlapFacts
<1> HIDE DEF es, hit, s
<1>5. \A r \in segments : /\ r.id \in Nat \ {0} /\ r.first \in Index /\ r.first \in Nat
                          /\ r.last \in Nat /\ r.first <= r.last
  BY <1>1, Bounds DEF Ordered, Ends, Segment
<1>6. \A e \in entries \cup es : e.index \in Nat
  BY <1>1, <1>3, Bounds
<1>7. /\ Below(entries, s.first) \in SUBSET Entry
      /\ \A e \in Below(entries, s.first) : e \in entries /\ e.index < s.first
      /\ \A e \in entries : e.index < s.first => e \in Below(entries, s.first)
  BY <1>1 DEF Below
<1>8. Due' \ Gone' = Due
  <2>1. segments' \ keep' = hit
    BY <1>1, <1>2, <1>4
  <2>2. \A r \in hit : r.id \in doomed'
    BY <1>2 DEF IdsOf
  <2>3. Gone' = {}
    BY <2>1, <2>2 DEF Gone
  <2>4. QED
    BY <1>1, <2>3
<1>9. Ends(segments \ hit, Below(entries, s.first))
  <2> SUFFICES ASSUME NEW r \in segments \ hit
               PROVE  /\ r.first <= r.last
                      /\ \E e \in Below(entries, s.first) : e.index = r.first
                      /\ \E e \in Below(entries, s.first) : e.index = r.last
    BY DEF Ends
  <2>1. PICK e \in entries : e.index = r.first
    BY <1>1 DEF Ends
  <2>2. PICK d \in entries : d.index = r.last
    BY <1>1 DEF Ends
  <2>3. r.first <= r.last /\ r.last < s.first /\ r.first < s.first
    BY <1>4, <1>5
  <2>4. QED
    BY <1>7, <2>1, <2>2, <2>3
<1>10. Held(files, Due, Below(entries, s.first), segments \ hit)
  BY <1>4, <1>7 DEF Held
<1>11. \A r \in segments \ hit : r.id < s.id /\ r.last < s.first /\ r.id \notin IdsOf(hit)
  BY <1>1, <1>4 DEF IdsOf, Ordered
<1>12. \A b \in From(Merged(entries, i, es), s.first) :
         b \in entries \cup es /\ b.index >= s.first
  BY DEF From, Merged, Below
<1>13. Log(Below(entries, s.first) \cup From(Merged(entries, i, es), s.first))
  <2>1. s.first \in Nat
    BY <1>4, <1>5
  <2>2. CASE s.first <= i
    <3>2. /\ Below(entries, i) \in SUBSET Entry /\ Log(Below(entries, i))
          /\ \A e \in Below(entries, i) : e \in entries /\ e.index < i
          /\ \A e \in entries : e.index < i => e \in Below(entries, i)
      BY <1>1, LogSplit DEF Below
    <3>3. Below(entries, i) # {} => \E e \in Below(entries, i) : e.index = i - 1
      <4> SUFFICES ASSUME NEW d \in Below(entries, i)
                   PROVE  \E e \in Below(entries, i) : e.index = i - 1
        OBVIOUS
      <4>1. d \in entries /\ d.index < i /\ d.index \in Nat /\ i - 1 \in Nat
            /\ d.index <= i - 1 /\ i - 1 <= i /\ i - 1 < i
        BY <1>1, <1>6, <3>2
      <4>2. PICK c \in entries : c.index = i - 1
        BY <1>4, <4>1
      <4>3. QED
        BY <3>2, <4>1, <4>2
    <3>4. \A e \in es : e.index >= i
      BY <1>1, <1>3
    <3>5. QED
      <4>1. Log(Below(entries, i) \cup es)
        BY <1>1, <1>3, <3>2, <3>3, <3>4, LogJoin
      <4>2. QED
        BY <1>4, <2>2, <4>1
  <2>3. CASE i < s.first
    <3>1. \A d \in entries : ~(d.index < s.first)
      BY <1>4, <2>3
    <3>2. Below(entries, s.first) \cup From(Merged(entries, i, es), s.first)
            = From(es, s.first)
      <4>1. Below(entries, s.first) = {}
        BY <3>1 DEF Below
      <4>2. \A e \in From(Merged(entries, i, es), s.first) : e \in From(es, s.first)
        <5> SUFFICES ASSUME NEW e \in Merged(entries, i, es), e.index >= s.first
                     PROVE  e \in es
          BY DEF From
        <5>1. CASE e \in entries
          BY <1>1, <1>6, <2>1, <2>3, <5>1 DEF Merged, Below
        <5>2. QED
          BY <5>1 DEF Merged, Below
      <4>3. \A e \in From(es, s.first) : e \in From(Merged(entries, i, es), s.first)
        BY DEF From, Merged
      <4>4. QED
        BY <4>1, <4>2, <4>3
    <3>3. QED
      BY <1>3, <2>1, <3>2, LogSplit
  <2>4. QED
    BY <1>1, <2>1, <2>2, <2>3
<1>14. exposed' \in Index /\ nextId' \in Nat \ {0} /\ doomed' \subseteq Nat \ {0}
  BY <1>2, <1>4, <1>5 DEF IdsOf
<1>15. MemInv'
  BY <1>1, <1>2 DEF MemInv
<1>16. OpInv'
  BY <1>1, <1>2 DEF OpInv
<1>17. RemoveInv'
  <2>1. Below(entries', exposed') = Below(entries, s.first) /\ keep' = segments \ hit
        /\ files' = files /\ nextId' = s.id /\ exposed' = s.first /\ doomed' = IdsOf(hit)
        /\ batch' = From(Merged(entries, i, es), s.first)
    BY <1>1, <1>2
  <2>2. keep' \subseteq segments' /\ Held(files', Due' \ Gone', entries', segments')
        /\ Due' = Due
    BY <1>1, <1>2, <1>8
  <2>3. QED
    BY <1>9, <1>10, <1>11, <1>12, <1>13, <1>14, <2>1, <2>2 DEF RemoveInv
<1>18. AppendInv' /\ DropInv' /\ ClosedInv'
  BY <1>2 DEF AppendInv, DropInv, ClosedInv
<1>19. TypeInv' /\ TermInv'
  <2>1. batch' \subseteq entries \cup Entries(i, n, t)
    BY <1>2, <1>12 DEF es
  <2>2. exposed' \in 1 .. None
    BY <1>14, Bounds
  <2>3. /\ pc' \in {"append", "remove", "idle"} /\ fresh' \in BOOLEAN
        /\ refused' \in BOOLEAN /\ todo' \subseteq batch'
    BY <1>1, <1>2 DEF SafeInv, TypeInv
  <2>4. QED
    BY <1>14, <2>1, <2>2, <2>3, BeginTypes
<1>20. QED
  BY <1>15, <1>16, <1>17, <1>18, <1>19 DEF SafeInv

LEMMA AppendBeginSafe ==
  ASSUME SafeInv, NEW i \in Index, NEW n \in 1 .. MaxBatch, NEW t \in 1 .. MaxTerm,
         NEW ok, AppendBegin(i, n, t, ok)
  PROVE  SafeInv'
<1>1. CASE ok /\ AppendNext(i, Entries(i, n, t))
  BY <1>1, AppendNextSafe
<1>2. CASE ok /\ AppendOverlap(i, Entries(i, n, t))
  BY <1>2, AppendOverlapSafe
<1>3. CASE AppendGap(i) \/ UNCHANGED <<opVars, exposed, refused>>
  <2>1. UNCHANGED <<opVars, exposed>> /\ (refused' = TRUE \/ refused' = refused)
    BY <1>3 DEF AppendGap
  <2>2. QED
    BY <2>1, NothingAppendedSafe
<1>4. QED
  BY <1>1, <1>2, <1>3 DEF AppendBegin

\* What the steps of appendEntriesIncremental start from.
LEMMA AppendFacts ==
  ASSUME SafeInv, pc = "append"
  PROVE  /\ todo \in SUBSET Entry /\ batch \in SUBSET Entry /\ entries \in SUBSET Entry
         /\ todo \subseteq batch /\ Written \in SUBSET Entry
         /\ nextId \in Nat \ {0}
         /\ FirstOf(todo) \in todo /\ FirstOf(todo) \in Entry
         /\ \A e \in todo : FirstOf(todo).index <= e.index
         /\ FirstOf(todo).index \in Index /\ FirstOf(todo).index \in Nat
         /\ \A e \in entries \cup batch : e.index \in Nat
         /\ work \in SUBSET Segment
         /\ \A s \in work : s.id \in Nat /\ s.first \in Nat /\ s.last \in Nat
         /\ \A s \in work : Ends({s}, entries \cup Written) => s.first <= s.last
         /\ work # {} => Latest(work) \in work /\ \A r \in work : r.id <= Latest(work).id
         /\ keep = {} /\ doomed = {}
<1>1. TypeInv /\ OpInv /\ AppendInv
  BY DEF SafeInv
<1>2. /\ todo \in SUBSET Entry /\ batch \in SUBSET Entry /\ entries \in SUBSET Entry
      /\ todo \subseteq batch /\ Written \in SUBSET Entry /\ nextId \in Nat \ {0}
  BY <1>1 DEF TypeInv, Written
<1>3. FirstOf(todo) \in todo /\ \A e \in todo : FirstOf(todo).index <= e.index
  BY <1>1, <1>2, FirstOfIsFirst DEF AppendInv
<1>4. FirstOf(todo) \in Entry /\ FirstOf(todo).index \in Index
      /\ FirstOf(todo).index \in Nat
  BY <1>2, <1>3, Bounds
<1>5. \A e \in entries \cup batch : e.index \in Nat
  BY <1>2, Bounds
<1>6. /\ work \in SUBSET Segment
      /\ \A s \in work : s.id \in Nat /\ s.first \in Nat /\ s.last \in Nat
  BY <1>1, Bounds DEF AppendInv, Ordered
<1>7. \A s \in work : Ends({s}, entries \cup Written) => s.first <= s.last
  BY DEF Ends
<1>8. \A r, s \in work : r.id < s.id => r.first < s.first
  <2> SUFFICES ASSUME NEW r \in work, NEW s \in work, r.id < s.id PROVE r.first < s.first
    OBVIOUS
  <2>1. ~Blank(r)
    BY <1>6 DEF Blank
  <2>2. r.first <= r.last
    BY <1>1, <1>7, <2>1 DEF AppendInv
  <2>3. r.last < s.first
    BY <1>1 DEF AppendInv, Ordered
  <2>4. QED
    BY <1>6, <2>2, <2>3
<1>9. work # {} => Latest(work) \in work /\ \A r \in work : r.id <= Latest(work).id
  BY <1>6, <1>8, LatestIsLatest
<1>10. keep = {} /\ doomed = {}
  BY <1>1 DEF OpInv
<1>11. QED
  BY <1>2, <1>3, <1>4, <1>5, <1>6, <1>7, <1>9, <1>10

\* A segment that is full or missing is not one without a record.
LEMMA NoneIsBlank ==
  ASSUME SafeInv, pc = "append", NeedsSegment, NEW s \in work
  PROVE  Ends({s}, entries \cup Written)
<1>1. ASSUME Blank(s) PROVE FALSE
  <2>1. fresh = FALSE /\ files[s.id] = <<>> /\ \A r \in work : r.id <= s.id
    BY <1>1 DEF Blank
  <2>2. Latest(work) \in work /\ Latest(work).id = s.id
    BY <2>1, AppendFacts
  <2>3. Len(files[s.id]) >= SegmentRecords
    BY <2>1, <2>2 DEF NeedsSegment
  <2>4. Len(files[s.id]) = 0
    BY <2>1
  <2>5. QED
    BY <2>3, <2>4, Bounds
<1>2. QED
  BY <1>1 DEF SafeInv, AppendInv

LEMMA CreateSegmentSafe == ASSUME SafeInv, CreateSegment PROVE SafeInv'
<1> DEFINE i == FirstOf(todo).index
           b == [id |-> nextId, first |-> i, last |-> i - 1]
<1>1. /\ pc = "append" /\ NeedsSegment
      /\ files' = [f \in DOMAIN files \cup {nextId} |->
                     IF f = nextId THEN <<>> ELSE files[f]]
      /\ half' = half \ {nextId} /\ stub' = stub \ {nextId} /\ work' = work \cup {b}
      /\ fresh' = FALSE /\ nextId' = nextId + 1
      /\ UNCHANGED <<state, term, entries, segments, pc, todo, batch, doomed, keep, floor,
                     raftLast, mirror, mirrorState, exposed, lost, Due, refused, crashes,
                     faults>>
  BY DEF CreateSegment, memVars, logVars, pastVars, Due
<1>2. TypeInv /\ MemInv /\ OpInv /\ AppendInv /\ TermInv
  BY DEF SafeInv
<1>3. /\ todo \in SUBSET Entry /\ nextId \in Nat \ {0}
      /\ \A e \in todo : i <= e.index /\ e.index \in Nat
      /\ i \in Index /\ i \in Nat /\ FirstOf(todo) \in todo
      /\ work \in SUBSET Segment
      /\ \A s \in work : s.id \in Nat /\ s.first \in Nat /\ s.last \in Nat
  BY <1>1, AppendFacts
<1>4. b.id = nextId /\ b.first = i /\ b.last = i - 1
  OBVIOUS
<1>5. b \in Segment
  <2>1. i - 1 \in 0 .. MaxIndex
    BY <1>3, Bounds DEF Index
  <2>2. QED
    BY <1>3, <2>1 DEF Segment
<1>6. i = FirstOf(todo).index
  OBVIOUS
<1> HIDE DEF b, i
<1>7. /\ DOMAIN files' = DOMAIN files \cup {nextId}
      /\ \A f \in DOMAIN files : f # nextId => files'[f] = files[f]
      /\ files'[nextId] = <<>> /\ Range(files'[nextId]) = {}
  BY <1>1 DEF Range
<1>8. \A s \in work \cup segments : s.id # nextId /\ s.id < nextId
  BY <1>1, <1>2, <1>3, Bounds DEF AppendInv, MemInv, Ordered
<1>9. \A s \in work : s.last < i
  BY <1>1, <1>2, <1>3, <1>6 DEF AppendInv
<1>10. Ordered(work \cup {b})
  <2>1. \A r, s \in work \cup {b} : r.id = s.id => r = s
    BY <1>1, <1>2, <1>4, <1>8 DEF AppendInv, Ordered
  <2>2. \A r, s \in work \cup {b} : r.id < s.id => r.last < s.first
    BY <1>1, <1>2, <1>3, <1>4, <1>8, <1>9 DEF AppendInv, Ordered
  <2>3. QED
    BY <1>3, <1>5, <2>1, <2>2 DEF Ordered
<1>11. Written' = Written
  BY <1>1 DEF Written
<1>12. Held(files', Due, entries \cup Written, work \cup {b})
  <2>1. Held(files, Due, entries \cup Written, work)
    BY <1>1, <1>2 DEF AppendInv
  <2>2. Held(files', Due, entries \cup Written, work)
    BY <1>7, <1>8, <2>1, HeldKept
  <2>3. QED
    BY <2>2 DEF Held
<1>14. \A s \in work \cup {b} \cup segments : s.id < nextId + 1
  BY <1>2, <1>3, <1>4, <1>8, Bounds DEF MemInv, Ordered
<1>15. \A s \in work \cup {b}, e \in todo : s.last < e.index
  BY <1>3, <1>4, <1>9
<1>16. \A s \in work \cup {b} : Ends({s}, entries \cup Written) \/ Blank(s)'
  <2>1. \A s \in work : Ends({s}, entries \cup Written)
    BY <1>1, NoneIsBlank
  <2>2. \A r \in work' : r.id <= b.id
    BY <1>1, <1>3, <1>4, <1>8
  <2>3. fresh' = FALSE /\ files'[b.id] = <<>> /\ b.last = b.first - 1
        /\ b.first = FirstOf(todo').index
    BY <1>1, <1>4, <1>6, <1>7
  <2>4. ASSUME NEW s \in {b} PROVE Blank(s)'
    BY <2>2, <2>3, <2>4 DEF Blank
  <2>5. QED
    BY <2>1, <2>4
<1>17. AppendInv'
  <2>1. /\ Log(entries' \cup batch') /\ todo' # {}
        /\ \A e \in entries', d \in batch' : e.index < d.index
        /\ \A d \in Written', e \in todo' : d.index < e.index
    BY <1>1, <1>2, <1>11 DEF AppendInv
  <2>2. Ordered(work') /\ Held(files', Due', entries' \cup Written', work')
    BY <1>1, <1>10, <1>11, <1>12
  <2>3. /\ \A s \in work' \cup segments' : s.id < nextId'
        /\ \A s \in work', e \in todo' : s.last < e.index
    BY <1>1, <1>14, <1>15
  <2>4. /\ \A s \in work' : Ends({s}, entries' \cup Written') \/ Blank(s)'
        /\ work' # {}
    BY <1>1, <1>11, <1>16
  <2>5. QED
    BY <2>1, <2>2, <2>3, <2>4 DEF AppendInv
<1>18. MemInv'
  <2>1. Held(files', Due, entries, segments)
    <3>1. Held(files, Due, entries, segments)
      BY <1>1, <1>2 DEF MemInv
    <3>2. QED
      BY <1>7, <1>8, <3>1, HeldKept
  <2>2. QED
    BY <1>1, <1>2, <2>1 DEF MemInv
<1>19. OpInv'
  BY <1>1, <1>2 DEF OpInv
<1>20. RemoveInv' /\ DropInv' /\ ClosedInv'
  BY <1>1 DEF RemoveInv, DropInv, ClosedInv
<1>21. TypeInv'
  <2>1. files' \in [DOMAIN files' -> Seq(Entry)]
    <3>1. \A f \in DOMAIN files' : files'[f] \in Seq(Entry)
      <4>1. <<>> \in Seq(Entry)
        OBVIOUS
      <4>2. QED
        BY <1>2, <1>7, <4>1 DEF TypeInv
    <3>2. files' = [f \in DOMAIN files' |-> files'[f]]
      BY <1>1
    <3>3. QED
      BY <3>1, <3>2
  <2>2. DOMAIN files' \subseteq Nat \ {0} /\ half' \subseteq DOMAIN files'
        /\ stub' \subseteq DOMAIN files' /\ nextId' \in Nat \ {0}
    BY <1>1, <1>2, <1>3, <1>7 DEF TypeInv
  <2>3. fresh' \in BOOLEAN
    BY <1>1
  <2>4. QED
    BY <1>1, <1>2, <2>1, <2>2, <2>3 DEF TypeInv
<1>22. TermInv'
  <2>1. \A f \in DOMAIN files' : \A e \in Range(files'[f]) : e.term <= state
    <3> SUFFICES ASSUME NEW f \in DOMAIN files', NEW e \in Range(files'[f])
                 PROVE  e.term <= state
      OBVIOUS
    <3>1. f # nextId /\ f \in DOMAIN files /\ files'[f] = files[f]
      BY <1>7
    <3>2. QED
      BY <1>2, <3>1 DEF TermInv
  <2>2. QED
    BY <1>1, <1>2, <2>1 DEF TermInv
<1>23. QED
  BY <1>17, <1>18, <1>19, <1>20, <1>21, <1>22 DEF SafeInv

LEMMA AppendRecordSafe == ASSUME SafeInv, AppendRecord PROVE SafeInv'
<1> DEFINE e == FirstOf(todo)
           s == Latest(work)
           w == [s EXCEPT !.last = e.index]
           written == (work \ {s}) \cup {w}
<1>1. /\ pc = "append" /\ ~NeedsSegment /\ ~Missing
      /\ files' = [files EXCEPT ![s.id] = Append(@, e)]
      /\ half' = half \cup (stub \cap {s.id})
      /\ \/ /\ todo = {e} /\ Return /\ segments' = written /\ entries' = entries \cup batch
            /\ exposed' = None
         \/ /\ todo # {e} /\ todo' = todo \ {e} /\ work' = written
            /\ UNCHANGED <<entries, segments, pc, batch, fresh, nextId, doomed, keep, exposed>>
      /\ UNCHANGED <<stub, state, term, floor, raftLast, mirror, mirrorState, lost, Due, refused,
                     crashes, faults>>
  BY DEF AppendRecord, CanWrite, WriteRecord, memVars, logVars, Due
<1>2. TypeInv /\ MemInv /\ OpInv /\ AppendInv /\ TermInv
  BY DEF SafeInv
<1>3. /\ todo \in SUBSET Entry /\ batch \in SUBSET Entry /\ todo \subseteq batch
      /\ entries \in SUBSET Entry /\ Written \in SUBSET Entry
      /\ e \in todo /\ e \in Entry /\ e \in batch
      /\ \A d \in todo : e.index <= d.index
      /\ \A d \in entries \cup batch : d.index \in Nat
      /\ e.index \in Nat /\ e.index \in Index
      /\ work \in SUBSET Segment
      /\ \A r \in work : r.id \in Nat /\ r.first \in Nat /\ r.last \in Nat
  BY <1>1, AppendFacts
<1>4. fresh = FALSE /\ s \in work /\ \A r \in work : r.id <= s.id
  <2>1. fresh = FALSE
    BY <1>1, <1>2 DEF NeedsSegment, TypeInv
  <2>2. QED
    BY <1>1, <1>2, <2>1, AppendFacts DEF AppendInv
<1> HIDE DEF e, s
<1>5. s.id \in DOMAIN files /\ s \in Segment /\ s.last < e.index
  <2>1. s.id \in DOMAIN files
    BY <1>1, <1>4 DEF Missing, s
  <2>2. QED
    BY <1>1, <1>2, <1>3, <1>4, <2>1 DEF AppendInv
<1>6. w \in Segment /\ w.id = s.id /\ w.first = s.first /\ w.last = e.index
  BY <1>3, <1>5, Bounds DEF Segment, Index
<1> HIDE DEF w
<1>7. /\ DOMAIN files' = DOMAIN files
      /\ \A f \in DOMAIN files : f # s.id => files'[f] = files[f]
      /\ files'[s.id] = Append(files[s.id], e)
      /\ files'[s.id] \in Seq(Entry)
      /\ Range(files'[s.id]) = Range(files[s.id]) \cup {e}
  <2>1. files[s.id] \in Seq(Entry)
    BY <1>2, <1>5 DEF TypeInv
  <2>2. /\ DOMAIN files' = DOMAIN files
        /\ \A f \in DOMAIN files : f # s.id => files'[f] = files[f]
        /\ files'[s.id] = Append(files[s.id], e)
    BY <1>1, <1>5
  <2>3. QED
    BY <1>3, <2>1, <2>2, RangeAppend
<1>8. \A f \in DOMAIN files : f \in DOMAIN files' /\ Range(files[f]) \subseteq Range(files'[f])
  BY <1>7
<1>9. ASSUME NEW r \in work, r.id = s.id PROVE r = s
  BY <1>1, <1>2, <1>4, <1>9 DEF AppendInv, Ordered
<1>10. \A r \in written : r = w \/ (r \in work /\ r # s /\ r.id # s.id)
  BY <1>9
<1>11. w \in written /\ \A r \in work : r # s => r \in written
  OBVIOUS
<1> HIDE DEF written
<1>12. Ordered(written)
  <2>1. written \subseteq Segment
    BY <1>3, <1>6, <1>10
  <2>2. ASSUME NEW r \in written, NEW q \in written, r.id = q.id PROVE r = q
    BY <1>1, <1>2, <1>6, <1>10, <2>2 DEF AppendInv, Ordered
  <2>3. ASSUME NEW r \in written, NEW q \in written, r.id < q.id PROVE r.last < q.first
    <3>1. \A x, y \in work : x.id < y.id => x.last < y.first
      BY <1>1, <1>2 DEF AppendInv, Ordered
    <3>2. CASE r = w
      <4>1. r.id = s.id /\ q.id <= s.id /\ r.id \in Nat /\ q.id \in Nat
        BY <1>3, <1>4, <1>6, <1>10, <3>2
      <4>2. QED
        BY <2>3, <4>1
    <3>3. CASE r # w /\ q = w
      BY <1>4, <1>6, <1>10, <2>3, <3>1, <3>3
    <3>4. CASE r # w /\ q # w
      BY <1>10, <2>3, <3>1, <3>4
    <3>5. QED
      BY <3>2, <3>3, <3>4
  <2>4. QED
    BY <2>1, <2>2, <2>3 DEF Ordered
<1>13. Held(files', Due, entries \cup Written \cup {e}, written)
  <2> SUFFICES ASSUME NEW d \in entries \cup Written \cup {e}
               PROVE  \E r \in written : InFile(files', Due, d, r)
    BY DEF Held
  <2>1. CASE d = e
    <3>1. s.first <= e.index
      <4>1. CASE Blank(s)
        BY <1>3, <4>1 DEF Blank, e
      <4>2. CASE Ends({s}, entries \cup Written)
        BY <1>3, <1>4, <1>5, <4>2 DEF Ends
      <4>3. QED
        BY <1>1, <1>2, <1>4, <4>1, <4>2 DEF AppendInv
    <3>2. InFile(files', Due, d, w)
      BY <1>3, <1>5, <1>6, <1>7, <2>1, <3>1 DEF InFile
    <3>3. QED
      BY <1>11, <3>2
  <2>2. CASE d \in entries \cup Written
    <3>1. PICK r \in work : InFile(files, Due, d, r)
      BY <1>1, <1>2, <2>2 DEF AppendInv, Held
    <3>2. CASE r = s
      <4>1. d.index \in Nat
        BY <1>3, <2>2, Bounds
      <4>2. s.first <= d.index /\ d.index <= s.last
            /\ (d.index \in Due => d \in Range(files[s.id]))
        BY <3>1, <3>2 DEF InFile
      <4>3. InFile(files', Due, d, w)
        BY <1>3, <1>4, <1>5, <1>6, <1>7, <4>1, <4>2 DEF InFile
      <4>4. QED
        BY <1>11, <4>3
    <3>3. CASE r # s
      <4>1. InFile(files', Due, d, r)
        BY <1>8, <3>1 DEF InFile
      <4>2. QED
        BY <1>11, <3>3, <4>1
    <3>4. QED
      BY <3>2, <3>3
  <2>3. QED
    BY <2>1, <2>2
<1>15. \A r \in written : Ends({r}, entries \cup Written \cup {e})
  <2> SUFFICES ASSUME NEW r \in written PROVE Ends({r}, entries \cup Written \cup {e})
    OBVIOUS
  <2>1. CASE r = w
    <3>1. CASE Blank(s)
      BY <1>3, <1>6, <2>1, <3>1 DEF Blank, Ends, e
    <3>2. CASE Ends({s}, entries \cup Written)
      <4>1. s.first <= s.last /\ \E d \in entries \cup Written : d.index = s.first
        BY <3>2 DEF Ends
      <4>2. w.first <= w.last /\ \E d \in entries \cup Written \cup {e} : d.index = w.first
        BY <1>3, <1>4, <1>5, <1>6, <4>1
      <4>3. \E d \in entries \cup Written \cup {e} : d.index = w.last
        BY <1>6
      <4>4. QED
        BY <2>1, <4>2, <4>3 DEF Ends
    <3>3. QED
      BY <1>1, <1>2, <1>4, <3>1, <3>2 DEF AppendInv
  <2>2. CASE r # w
    <3>1. r \in work /\ r.id # s.id
      BY <1>10, <2>2
    <3>2. ~Blank(r)
      BY <1>3, <1>4, <3>1 DEF Blank
    <3>3. Ends({r}, entries \cup Written)
      BY <1>1, <1>2, <3>1, <3>2 DEF AppendInv
    <3>4. QED
      BY <3>3 DEF Ends
  <2>3. QED
    BY <2>1, <2>2
<1>16. TypeInv'
  <2>1. files' \in [DOMAIN files' -> Seq(Entry)] /\ DOMAIN files' = DOMAIN files
        /\ half' \subseteq DOMAIN files'
    BY <1>1, <1>2, <1>3, <1>5, <1>7 DEF TypeInv
  <2>2. /\ entries' \subseteq Entry /\ batch' \subseteq Entry /\ todo' \subseteq batch'
        /\ pc' \in {"idle", "append"} /\ exposed' \in 1 .. None
    BY <1>1, <1>2, <1>3, Bounds DEF TypeInv, Return
  <2>3. fresh' \in BOOLEAN /\ nextId' \in Nat \ {0} /\ doomed' \subseteq Nat \ {0}
    <3>1. /\ fresh' = TRUE \/ fresh' = fresh
          /\ nextId' = 1 \/ nextId' = nextId
          /\ doomed' = {} \/ doomed' = doomed
      BY <1>1 DEF Return
    <3>2. fresh' \in BOOLEAN
      BY <1>2, <3>1, Zenon DEF TypeInv
    <3>3. nextId' \in Nat \ {0} /\ doomed' \subseteq Nat \ {0}
      BY <1>2, <3>1 DEF TypeInv
    <3>4. QED
      BY <3>2, <3>3
  <2>4. QED
    BY <1>1, <1>2, <2>1, <2>2, <2>3 DEF TypeInv
<1>17. TermInv'
  <2>1. e.term <= state
    BY <1>2, <1>3 DEF TermInv
  <2>2. \A f \in DOMAIN files' : \A d \in Range(files'[f]) : d.term <= state
    BY <1>2, <1>5, <1>7, <2>1 DEF TermInv
  <2>3. \A d \in entries' \cup batch' : d.term <= state
    BY <1>1, <1>2 DEF TermInv, Return
  <2>4. state' <= term'
    BY <1>1, <1>2 DEF TermInv
  <2>5. QED
    BY <1>1, <2>2, <2>3, <2>4 DEF TermInv
<1>18. CASE todo = {e} /\ Return /\ segments' = written /\ entries' = entries \cup batch
  <2>1. entries \cup Written \cup {e} = entries \cup batch
    BY <1>3, <1>18 DEF Written
  <2>2. Held(files', Due', entries', segments') /\ Ordered(segments')
    BY <1>1, <1>12, <1>13, <1>18, <2>1
  <2>3. Ends(segments', entries')
    BY <1>15, <1>18, <2>1 DEF Ends
  <2>4. Log(entries')
    BY <1>1, <1>2, <1>18 DEF AppendInv
  <2>5. /\ pc' = "idle" /\ todo' = {} /\ batch' = {} /\ work' = {} /\ fresh' = TRUE
        /\ doomed' = {} /\ keep' = {}
    BY <1>18 DEF Return
  <2>6. MemInv' /\ OpInv' /\ AppendInv' /\ RemoveInv' /\ DropInv' /\ ClosedInv'
    BY <2>2, <2>3, <2>4, <2>5, BackToIdle
  <2>7. QED
    BY <1>16, <1>17, <2>6 DEF SafeInv
<1>19. CASE /\ todo # {e} /\ todo' = todo \ {e} /\ work' = written
            /\ UNCHANGED <<entries, segments, pc, batch, fresh, nextId, doomed, keep, exposed>>
  <2>1. Written' = Written \cup {e} /\ entries' \cup Written' = entries \cup Written \cup {e}
    BY <1>3, <1>19 DEF Written
  <2>2. /\ Log(entries' \cup batch') /\ todo' # {}
        /\ \A x \in entries', d \in batch' : x.index < d.index
    BY <1>1, <1>2, <1>3, <1>19 DEF AppendInv
  <2>3. \A x \in todo' : e.index < x.index
    <3> SUFFICES ASSUME NEW x \in todo, x # e PROVE e.index < x.index
      BY <1>19
    <3>1. e.index # x.index
      BY <1>1, <1>2, <1>3 DEF AppendInv, Log
    <3>2. e.index <= x.index /\ x.index \in Nat
      BY <1>3
    <3>3. QED
      BY <1>3, <3>1, <3>2
  <2>4. \A d \in Written', x \in todo' : d.index < x.index
    BY <1>1, <1>2, <1>19, <2>1, <2>3 DEF AppendInv
  <2>5. Ordered(work') /\ Held(files', Due', entries' \cup Written', work')
    BY <1>1, <1>12, <1>13, <1>19, <2>1
  <2>6. \A r \in work' \cup segments' : r.id < nextId'
    BY <1>1, <1>2, <1>4, <1>6, <1>10, <1>19 DEF AppendInv
  <2>7. \A r \in work', x \in todo' : r.last < x.index
    <3> SUFFICES ASSUME NEW r \in written, NEW x \in todo, x # e PROVE r.last < x.index
      BY <1>19
    <3>1. CASE r = w
      BY <1>6, <1>19, <2>3, <3>1
    <3>2. CASE r # w
      BY <1>1, <1>2, <1>10, <3>2 DEF AppendInv
    <3>3. QED
      BY <3>1, <3>2
  <2>8. \A r \in work' : Ends({r}, entries' \cup Written')
    BY <1>15, <1>19, <2>1
  <2>9. fresh' = FALSE => work' # {}
    BY <1>11, <1>19
  <2>10. AppendInv'
    BY <2>2, <2>4, <2>5, <2>6, <2>7, <2>8, <2>9 DEF AppendInv
  <2>11. MemInv'
    <3>1. Held(files', Due, entries, segments)
      BY <1>1, <1>2, <1>8, HeldKept DEF MemInv
    <3>2. QED
      BY <1>1, <1>2, <1>19, <3>1 DEF MemInv
  <2>12. OpInv'
    BY <1>1, <1>2, <1>19 DEF OpInv
  <2>13. RemoveInv' /\ DropInv' /\ ClosedInv'
    BY <1>1, <1>19 DEF RemoveInv, DropInv, ClosedInv
  <2>14. QED
    BY <1>16, <1>17, <2>10, <2>11, <2>12, <2>13 DEF SafeInv
<1>20. QED
  BY <1>1, <1>18, <1>19

LEMMA RemoveFileSafe == ASSUME SafeInv, RemoveFile PROVE SafeInv'
<1> DEFINE x == Min(doomed)
<1>1. /\ pc \in {"remove", "drop"} /\ doomed # {}
      /\ files' = [g \in DOMAIN files \ {x} |-> files[g]]
      /\ half' = half \ {x} /\ stub' = stub \ {x} /\ doomed' = doomed \ {x}
      /\ UNCHANGED <<state, term, entries, segments, pc, todo, batch, work, fresh, nextId, keep,
                     floor, raftLast, mirror, mirrorState, exposed, lost, Due, refused, crashes,
                     faults>>
  BY DEF RemoveFile, Remove, memVars, logVars, pastVars, Due
<1>2. TypeInv /\ MemInv /\ OpInv /\ RemoveInv /\ DropInv /\ TermInv
  BY DEF SafeInv
<1>3. x \in doomed
  <2>1. doomed \in SUBSET Nat
    BY <1>2 DEF TypeInv
  <2>2. QED
    BY <1>1, <2>1, MinIsMin
<1> HIDE DEF x
<1>4. /\ DOMAIN files' = DOMAIN files \ {x}
      /\ \A f \in DOMAIN files' : files'[f] = files[f]
  BY <1>1
<1>5. \A s \in keep : s.id \notin doomed /\ s.id # x
  BY <1>1, <1>2, <1>3 DEF RemoveInv, DropInv
\* The entries of the segment that goes join those that are gone.
<1>6. Held(files, Due \ Gone, entries, segments) =>
        Held(files', Due' \ Gone', entries', segments')
  <2> SUFFICES ASSUME Held(files, Due \ Gone, entries, segments), NEW e \in entries
               PROVE  \E s \in segments : InFile(files', Due' \ Gone', e, s)
    BY <1>1 DEF Held
  <2>1. PICK s \in segments : InFile(files, Due \ Gone, e, s)
    BY DEF Held
  <2>2. \A j \in Index : j \in Gone => j \in Gone'
    BY <1>1 DEF Gone
  <2>3. e.index \in Due \ Gone' => e.index \in Due \ Gone /\ e.index \in Index
    BY <2>2 DEF Due
  <2>4. ASSUME s.id = x, e.index \in Due \ Gone' PROVE FALSE
    <3>1. s \in segments \ keep /\ s.id \notin doomed'
      BY <1>1, <1>5, <2>4
    <3>2. e.index \in Gone'
      BY <1>1, <2>1, <2>3, <2>4, <3>1 DEF InFile, Gone
    <3>3. QED
      BY <2>4, <3>2
  <2>5. InFile(files', Due' \ Gone', e, s)
    BY <1>1, <1>4, <2>1, <2>3, <2>4 DEF InFile
  <2>6. QED
    BY <2>5
<1>7. \A s \in keep : s.id \in DOMAIN files =>
        s.id \in DOMAIN files' /\ Range(files[s.id]) \subseteq Range(files'[s.id])
  BY <1>4, <1>5
<1>8. MemInv' /\ OpInv'
  BY <1>1, <1>2 DEF MemInv, OpInv
<1>9. RemoveInv'
  <2>1. pc = "remove" => Held(files', Due', Below(entries, exposed), keep)
    BY <1>1, <1>2, <1>7, HeldKept DEF RemoveInv
  <2>2. QED
    BY <1>1, <1>2, <1>6, <2>1 DEF RemoveInv
<1>10. DropInv'
  <2>1. pc = "drop" => Held(files', Due', From(entries, floor), keep)
    BY <1>1, <1>2, <1>7, HeldKept DEF DropInv
  <2>2. QED
    BY <1>1, <1>2, <1>6, <2>1 DEF DropInv
<1>11. AppendInv' /\ ClosedInv'
  BY <1>1 DEF AppendInv, ClosedInv
<1>12. TypeInv'
  <2>1. files' \in [DOMAIN files' -> Seq(Entry)]
    BY <1>1, <1>2, <1>4 DEF TypeInv
  <2>2. QED
    BY <1>1, <1>2, <1>4, <2>1 DEF TypeInv
<1>13. TermInv'
  BY <1>1, <1>2, <1>4 DEF TermInv
<1>14. QED
  BY <1>8, <1>9, <1>10, <1>11, <1>12, <1>13 DEF SafeInv

LEMMA RewriteTailSafe == ASSUME SafeInv, RewriteTail PROVE SafeInv'
<1> DEFINE es == Below(entries, exposed)
<1>1. /\ pc = "remove" /\ doomed = {} /\ segments' = keep /\ entries' = es
      /\ \/ batch = {} /\ Return /\ exposed' = None
         \/ /\ batch # {} /\ pc' = "append" /\ todo' = batch /\ batch' = batch
            /\ work' = keep /\ nextId' = nextId /\ fresh' = TRUE
            /\ keep' = {} /\ UNCHANGED <<doomed, exposed>>
      /\ lost' = {j \in lost : j < exposed}
      /\ UNCHANGED <<files, half, stub, state, term, floor, raftLast, mirror, mirrorState, refused,
                     crashes, faults>>
  BY DEF RewriteTail, Write, diskVars, fileVars, logVars
<1>2. TypeInv /\ OpInv /\ RemoveInv /\ TermInv
  BY DEF SafeInv
<1>3. /\ exposed \in Index /\ exposed \in Nat
      /\ Ordered(keep) /\ Ends(keep, es) /\ Held(files, Due, es, keep)
      /\ \A s \in keep : s.id < nextId /\ s.last < exposed
      /\ \A b \in batch : b.index >= exposed
      /\ Log(es \cup batch)
  <2>1. Ordered(segments) /\ keep \in SUBSET segments
    BY <1>1, <1>2 DEF SafeInv, MemInv, RemoveInv
  <2>2. Ordered(keep)
    BY <2>1 DEF Ordered
  <2>3. QED
    BY <1>1, <1>2, <2>2, Bounds DEF RemoveInv, Index
<1>4. /\ es \in SUBSET entries /\ es \in SUBSET Entry /\ batch \in SUBSET Entry
      /\ \A e \in es : e.index < exposed
  BY <1>2 DEF TypeInv, Below
<1>5. \A e \in es \cup batch : e.index \in Nat
  BY <1>4, Bounds
<1>6. \A s \in keep : s.last \in Nat
  BY <1>3, Bounds DEF Ordered
\* What was lost is not in the log any more, or before what is removed.
<1>lost. Held(files', Due', es, keep)
  <2> SUFFICES ASSUME NEW e \in es PROVE \E s \in keep : InFile(files', Due', e, s)
    BY DEF Held
  <2>1. PICK s \in keep : InFile(files, Due, e, s)
    BY <1>3 DEF Held
  <2>2. e.index \in Due' => e.index \in Due
    BY <1>1, <1>4 DEF Due
  <2>3. InFile(files', Due', e, s)
    BY <1>1, <2>1, <2>2 DEF InFile
  <2>4. QED
    BY <2>3
<1> HIDE DEF es
<1>7. TypeInv'
  <2>1. /\ entries' \subseteq Entry /\ batch' \subseteq Entry /\ todo' \subseteq batch'
        /\ pc' \in {"idle", "append"} /\ exposed' \in 1 .. None /\ lost' \subseteq Index
    BY <1>1, <1>2, <1>4, Bounds DEF TypeInv, Return
  <2>2. fresh' = TRUE /\ nextId' \in Nat \ {0} /\ doomed' = {}
    BY <1>1, <1>2 DEF TypeInv, Return
  <2>3. QED
    BY <1>1, <1>2, <2>1, <2>2 DEF TypeInv
<1>8. TermInv'
  <2>1. \A e \in entries' \cup batch' : e \in entries \cup batch
    BY <1>1, <1>4 DEF Return
  <2>2. QED
    BY <1>1, <1>2, <2>1 DEF TermInv
<1>9. CASE batch = {} /\ Return
  <2>1. Log(es)
    <3>1. es \cup batch = es
      BY <1>9
    <3>2. QED
      BY <1>3, <3>1
  <2>2. /\ pc' = "idle" /\ todo' = {} /\ batch' = {} /\ work' = {} /\ fresh' = TRUE
        /\ doomed' = {} /\ keep' = {}
    BY <1>9 DEF Return
  <2>3. /\ Log(entries') /\ Ordered(segments') /\ Ends(segments', entries')
        /\ Held(files', Due', entries', segments')
    BY <1>1, <1>3, <1>lost, <2>1
  <2>4. MemInv' /\ OpInv' /\ AppendInv' /\ RemoveInv' /\ DropInv' /\ ClosedInv'
    BY <2>2, <2>3, BackToIdle
  <2>5. QED
    BY <1>7, <1>8, <2>4 DEF SafeInv
<1>10. CASE /\ batch # {} /\ pc' = "append" /\ todo' = batch /\ batch' = batch
            /\ work' = keep /\ nextId' = nextId /\ fresh' = TRUE
            /\ keep' = {} /\ UNCHANGED <<doomed, exposed>>
  <2>1. Written' = {} /\ entries' \cup Written' = es
    BY <1>1, <1>10 DEF Written
  <2>2. /\ Log(entries' \cup batch') /\ todo' # {}
        /\ \A e \in entries', b \in batch' : e.index < b.index
        /\ \A d \in Written', e \in todo' : d.index < e.index
    BY <1>1, <1>3, <1>4, <1>5, <1>10, <2>1
  <2>3. Ordered(work') /\ Held(files', Due', entries' \cup Written', work')
    BY <1>1, <1>3, <1>10, <1>lost, <2>1
  <2>4. /\ \A s \in work' \cup segments' : s.id < nextId'
        /\ \A s \in work', e \in todo' : s.last < e.index
    BY <1>1, <1>3, <1>5, <1>6, <1>10
  <2>5. \A s \in work' : Ends({s}, entries' \cup Written')
    BY <1>3, <1>10, <2>1 DEF Ends
  <2>6. AppendInv'
    BY <1>10, <2>2, <2>3, <2>4, <2>5 DEF AppendInv
  <2>7. MemInv'
    <3>1. Log(es)
      <4>1. es = Below(es \cup batch, exposed)
        BY <1>3, <1>4, <1>5 DEF Below
      <4>2. es \cup batch \in SUBSET Entry
        BY <1>4
      <4>3. QED
        BY <1>3, <4>1, <4>2, LogSplit
    <3>2. QED
      BY <1>1, <1>3, <1>10, <1>lost, <3>1 DEF MemInv
  <2>8. OpInv'
    BY <1>1, <1>10 DEF OpInv
  <2>9. RemoveInv' /\ DropInv' /\ ClosedInv'
    BY <1>10 DEF RemoveInv, DropInv, ClosedInv
  <2>10. QED
    BY <1>7, <1>8, <2>6, <2>7, <2>8, <2>9 DEF SafeInv
<1>11. QED
  BY <1>1, <1>9, <1>10

LEMMA TruncateBeginSafe ==
  ASSUME SafeInv, NEW i \in Index, NEW ok, TruncateBegin(i, ok) PROVE SafeInv'
<1>1. /\ pc = "idle" /\ floor' = i /\ raftLast' = Max({raftLast, i})
      /\ mirror' = MirrorTruncated(i)
      /\ \/ PersistState(term, ok) /\ UNCHANGED opVars
         \/ /\ pc' = "drop" /\ doomed' = IdsOf(segments \ Reaching(i)) /\ keep' = Reaching(i)
            /\ UNCHANGED <<state, todo, batch, work, fresh, nextId, faults>>
      /\ UNCHANGED <<files, half, stub, term, entries, segments, mirrorState, exposed, lost, Due,
                     refused, crashes>>
  BY DEF TruncateBegin, fileVars, memVars, pastVars, Due
<1>2. TypeInv /\ MemInv /\ OpInv /\ TermInv
  BY DEF SafeInv
<1>3. i \in Nat /\ i \in 0 .. MaxIndex
  BY Bounds
<1>4. /\ entries \in SUBSET Entry /\ \A e \in entries : e.index \in Nat
      /\ \A s \in segments : s \in Segment /\ s.id \in Nat \ {0} /\ s.last \in Nat
  <2>1. entries \in SUBSET Entry /\ segments \in SUBSET Segment
    BY <1>2 DEF TypeInv, MemInv, Ordered
  <2>2. /\ \A e \in Entry : e.index \in Nat
        /\ \A s \in Segment : s.id \in Nat \ {0} /\ s.last \in Nat
    BY Bounds
  <2>3. QED
    BY <2>1, <2>2
<1>5. /\ Reaching(i) \in SUBSET segments
      /\ \A r \in Reaching(i) : r.last >= i
      /\ \A r \in segments \ Reaching(i) : r.last < i
  BY <1>2, <1>3, ReachingIsTail DEF MemInv
<1>6. raftLast' \in 0 .. MaxIndex
  <2>1. raftLast \in Nat /\ raftLast \in 0 .. MaxIndex
    BY <1>2, Bounds DEF TypeInv
  <2>2. \E x \in {raftLast, i} : \A y \in {raftLast, i} : y <= x
    BY <1>3, <2>1
  <2>3. Max({raftLast, i}) \in {raftLast, i}
    BY <1>3, <2>1, <2>2, MaxIsMax
  <2>4. QED
    BY <1>1, <1>3, <2>1, <2>3
<1>7. mirror' \subseteq Entry
  BY <1>1, <1>2 DEF MirrorTruncated, From, TypeInv
<1>8. CASE PersistState(term, ok) /\ UNCHANGED opVars
  <2>1. TypeInv' /\ TermInv'
    <3>1. term \in term .. MaxTerm
      BY <1>2, Bounds DEF TypeInv
    <3>2. /\ state' \in 0 .. MaxTerm /\ faults' \in 0 .. MaxFaults /\ state' <= term'
          /\ \A f \in DOMAIN files : \A e \in Range(files[f]) : e.term <= state'
          /\ \A e \in entries \cup batch : e.term <= state'
      BY <1>1, <1>8, <3>1, StateTypes
    <3>3. QED
      BY <1>1, <1>2, <1>3, <1>6, <1>7, <1>8, <3>2 DEF TypeInv, TermInv, opVars
  <2>2. MemInv' /\ OpInv' /\ AppendInv' /\ RemoveInv' /\ DropInv' /\ ClosedInv'
    BY <1>1, <1>8, SameMemory DEF memVars
  <2>3. QED
    BY <2>1, <2>2 DEF SafeInv
<1>9. CASE /\ pc' = "drop" /\ doomed' = IdsOf(segments \ Reaching(i)) /\ keep' = Reaching(i)
           /\ UNCHANGED <<state, todo, batch, work, fresh, nextId, faults>>
  <2>1. TypeInv'
    <3>1. doomed' \subseteq Nat \ {0}
      BY <1>4, <1>9 DEF IdsOf
    <3>2. pc' \in {"closed", "idle", "append", "remove", "drop"}
      BY <1>9
    <3>3. QED
      BY <1>1, <1>2, <1>3, <1>6, <1>7, <1>9, <3>1, <3>2 DEF TypeInv
  <2>2. TermInv'
    BY <1>1, <1>2, <1>9 DEF TermInv
  <2>3. Held(files, Due, From(entries, i), Reaching(i))
    <3> SUFFICES ASSUME NEW e \in entries, e.index >= i
                 PROVE  \E s \in Reaching(i) : InFile(files, Due, e, s)
      BY DEF Held, From
    <3>1. PICK s \in segments : InFile(files, Due, e, s)
      BY <1>1, <1>2 DEF MemInv, Held
    <3>2. ~(s.last < i)
      BY <1>3, <1>4, <3>1 DEF InFile
    <3>3. QED
      BY <1>5, <3>1, <3>2
  <2>4. \A s \in Reaching(i) : s.id \notin IdsOf(segments \ Reaching(i))
    BY <1>2, <1>5 DEF MemInv, Ordered, IdsOf
  <2>5. Held(files', Due' \ Gone', entries', segments')
    <3>1. Gone' = {}
      BY <1>1, <1>9 DEF Gone, IdsOf
    <3>2. QED
      BY <1>1, <1>2, <3>1 DEF MemInv
  <2>6. DropInv'
    BY <1>1, <1>5, <1>9, <2>3, <2>4, <2>5 DEF DropInv
  <2>7. MemInv' /\ OpInv'
    BY <1>1, <1>2, <1>9 DEF MemInv, OpInv
  <2>8. AppendInv' /\ RemoveInv' /\ ClosedInv'
    BY <1>9 DEF AppendInv, RemoveInv, ClosedInv
  <2>9. QED
    BY <2>1, <2>2, <2>6, <2>7, <2>8 DEF SafeInv
<1>10. QED
  BY <1>1, <1>8, <1>9

LEMMA TruncateFinishSafe == ASSUME SafeInv, NEW ok, TruncateFinish(ok) PROVE SafeInv'
<1> DEFINE s == Oldest(keep)
           w == [s EXCEPT !.first = floor]
           es == From(entries, floor)
<1>1. /\ pc = "drop" /\ doomed = {} /\ entries' = es
      /\ \/ /\ keep # {} /\ s.first < floor /\ segments' = (keep \ {s}) \cup {w}
            /\ RewriteSegment(s.id, Between(entries, floor, s.last))
         \/ /\ keep = {} \/ ~(s.first < floor)
            /\ segments' = keep /\ files' = files /\ half' = half /\ stub' = stub
      /\ Return /\ PersistState(term, ok)
      /\ UNCHANGED <<term, floor, raftLast, mirror, mirrorState, exposed, lost, Due, refused,
                     crashes>>
  BY DEF TruncateFinish, logVars, pastVars, fileVars, Due
<1>2. TypeInv /\ MemInv /\ OpInv /\ DropInv /\ TermInv
  BY DEF SafeInv
<1>3. /\ pc' = "idle" /\ todo' = {} /\ batch' = {} /\ work' = {} /\ fresh' = TRUE
      /\ nextId' = 1 /\ doomed' = {} /\ keep' = {}
  BY <1>1 DEF Return
<1>4. /\ keep \in SUBSET segments /\ keep \in SUBSET Segment /\ Ordered(keep)
      /\ Held(files, Due, es, keep)
      /\ \A r \in keep : /\ r.last >= floor /\ r.first <= r.last
                         /\ r.id \in Nat /\ r.first \in Nat /\ r.last \in Nat
                         /\ \E e \in entries : e.index = r.first
                         /\ \E e \in entries : e.index = r.last
  BY <1>1, <1>2, Bounds DEF MemInv, DropInv, Ordered, Ends
<1>5. /\ entries \in SUBSET Entry /\ Log(entries) /\ \A e \in entries : e.index \in Nat
      /\ floor \in Nat /\ floor \in 0 .. MaxIndex /\ MaxIndex \in Nat
  BY <1>2, Bounds DEF TypeInv, MemInv
<1>6. Log(es) /\ es \in SUBSET entries /\ \A e \in entries : e.index >= floor => e \in es
  BY <1>5, LogSplit DEF From
<1>7. \A e \in es : e.index >= floor
  BY DEF From
<1> HIDE DEF es
<1>8. keep # {} => s \in keep /\ \A r \in keep : s.id <= r.id
  BY <1>4, OldestIsOldest
<1> HIDE DEF s
<1>9. \A r \in keep : r = s \/ (keep # {} /\ s.id < r.id /\ s.last < r.first)
  <2> SUFFICES ASSUME NEW r \in keep, r # s PROVE s.id < r.id /\ s.last < r.first
    OBVIOUS
  <2>1. s \in keep /\ s.id <= r.id
    BY <1>8
  <2>2. s.id # r.id
    BY <1>4, <2>1 DEF Ordered
  <2>3. s.id < r.id
    BY <1>4, <2>1, <2>2
  <2>4. QED
    BY <1>4, <2>1, <2>3 DEF Ordered
<1>state. /\ state' \in 0 .. MaxTerm /\ faults' \in 0 .. MaxFaults /\ state' <= term'
          /\ \A f \in DOMAIN files : \A e \in Range(files[f]) : e.term <= state'
          /\ \A e \in entries \cup batch : e.term <= state'
  <2>1. term \in term .. MaxTerm /\ pc # "closed" /\ PersistState(term, ok) /\ term' = term
    BY <1>1, <1>2, Bounds DEF TypeInv
  <2>2. QED
    BY <2>1, StateTypes
<1>10. CASE \/ keep = {}
            \/ ~(s.first < floor) /\ segments' = keep /\ files' = files /\ half' = half
               /\ stub' = stub
  <2>1. segments' = keep /\ files' = files /\ half' = half /\ stub' = stub
    BY <1>1, <1>10
  <2>2. \A r \in keep : r.first >= floor
    BY <1>4, <1>5, <1>8, <1>9, <1>10
  <2>3. Ends(keep, es)
    BY <1>4, <1>6, <2>2 DEF Ends
  <2>4. MemInv' /\ OpInv' /\ AppendInv' /\ RemoveInv' /\ DropInv' /\ ClosedInv'
    BY <1>1, <1>3, <1>4, <1>6, <2>1, <2>3, BackToIdle
  <2>5. TypeInv'
    BY <1>1, <1>2, <1>3, <1>5, <1>6, <1>state, <2>1 DEF TypeInv
  <2>6. TermInv'
    BY <1>1, <1>2, <1>3, <1>6, <1>state, <2>1 DEF TermInv
  <2>7. QED
    BY <2>4, <2>5, <2>6 DEF SafeInv
<1>11. CASE /\ keep # {} /\ s.first < floor /\ segments' = (keep \ {s}) \cup {w}
            /\ RewriteSegment(s.id, Between(entries, floor, s.last))
  <2> DEFINE q == Between(entries, floor, s.last)
  <2>1. /\ s \in keep /\ s \in Segment /\ s.id \in Nat \ {0}
        /\ s.last >= floor /\ s.last \in Nat /\ s.first \in Nat
    BY <1>4, <1>8, <1>11, Bounds
  <2>2. floor \in Index /\ s.last \in Index
    BY <1>5, <1>11, <2>1, Bounds
  <2>3. q \in Seq(Entry) /\ Range(q) = {e \in entries : floor <= e.index /\ e.index <= s.last}
        /\ Len(q) = s.last - floor + 1
        /\ \A k \in 1 .. s.last - floor + 1 : q[k] \in entries /\ q[k].index = floor + k - 1
    <3>1. PICK a \in entries : a.index = s.first
      BY <1>4, <2>1
    <3>2. PICK z \in entries : z.index = s.last
      BY <1>4, <2>1
    <3>3. a.index <= floor
      BY <1>5, <1>11, <2>1, <3>1
    <3>4. \E e \in entries : e.index <= floor
      BY <3>3
    <3>5. \E e \in entries : e.index = s.last
      BY <3>2
    <3>6. floor <= s.last
      BY <1>5, <2>1
    <3>7. QED
      <4>1. entries \in SUBSET Entry /\ Log(entries)
        BY <1>5
      <4>2. /\ Between(entries, floor, s.last) \in Seq(Entry)
            /\ Len(Between(entries, floor, s.last)) = s.last - floor + 1
            /\ \A k \in 1 .. s.last - floor + 1 :
                 /\ Between(entries, floor, s.last)[k] \in entries
                 /\ Between(entries, floor, s.last)[k].index = floor + k - 1
            /\ Range(Between(entries, floor, s.last)) =
                 {e \in entries : floor <= e.index /\ e.index <= s.last}
        BY <2>2, <3>4, <3>5, <3>6, <4>1, BetweenIsRun
      <4>3. QED
        BY <4>2
  <2> HIDE DEF q
  <2>4. /\ files' = [f \in DOMAIN files \cup {s.id} |-> IF f = s.id THEN q ELSE files[f]]
        /\ DOMAIN files' = DOMAIN files \cup {s.id} /\ files'[s.id] = q
        /\ \A f \in DOMAIN files : f # s.id => files'[f] = files[f]
        /\ half' = half \ {s.id} /\ stub' = stub \ {s.id}
    <3>1. /\ files' = [f \in DOMAIN files \cup {s.id} |-> IF f = s.id THEN q ELSE files[f]]
          /\ half' = half \ {s.id} /\ stub' = stub \ {s.id}
      BY <1>11 DEF q, RewriteSegment
    <3>2. QED
      BY <3>1
  <2>5. w \in Segment /\ w.id = s.id /\ w.first = floor /\ w.last = s.last
    BY <2>1, <2>2 DEF Segment
  <2> HIDE DEF w
  <2>6. \A r \in segments' : r = w \/ (r \in keep /\ r # s /\ s.id < r.id /\ s.last < r.first)
    BY <1>9, <1>11
  <2>7. Ordered(segments')
    <3>1. segments' \subseteq Segment
      BY <1>4, <1>11, <2>5
    <3>2. \A r, u \in segments' : r.id = u.id => r = u
      BY <1>4, <2>1, <2>5, <2>6 DEF Ordered
    <3>3. \A r, u \in segments' : r.id < u.id => r.last < u.first
      BY <1>4, <2>1, <2>5, <2>6 DEF Ordered
    <3>4. QED
      BY <3>1, <3>2, <3>3 DEF Ordered
  <2>8. Ends(segments', es)
    <3> SUFFICES ASSUME NEW r \in segments'
                 PROVE  /\ r.first <= r.last
                        /\ \E e \in es : e.index = r.first
                        /\ \E e \in es : e.index = r.last
      BY DEF Ends
    <3>1. CASE r = w
      <4>1. \E e \in es : e.index = s.last
        BY <1>4, <1>6, <2>1
      <4>2. \E e \in es : e.index = floor
        <5>1. 1 \in 1 .. s.last - floor + 1
          BY <1>5, <2>1
        <5>2. q[1] \in entries /\ q[1].index = floor
          BY <1>5, <2>3, <5>1
        <5>3. QED
          BY <1>5, <1>6, <5>2
      <4>3. QED
        BY <1>5, <2>1, <2>5, <3>1, <4>1, <4>2
    <3>2. CASE r # w
      <4>1. r \in keep /\ r.first >= floor /\ r.last >= floor
        BY <1>4, <1>5, <2>1, <2>6, <3>2
      <4>2. QED
        BY <1>4, <1>6, <4>1
    <3>3. QED
      BY <3>1, <3>2
  <2>9. Held(files', Due', es, segments')
    <3> SUFFICES ASSUME NEW e \in es PROVE \E r \in segments' : InFile(files', Due, e, r)
      BY <1>1 DEF Held
    <3>1. PICK r \in keep : InFile(files, Due, e, r)
      BY <1>4 DEF Held
    <3>2. e \in entries /\ e.index >= floor /\ e.index \in Nat
      BY <1>5, <1>6, <1>7
    <3>3. CASE r = s
      <4>1. e \in Range(files'[s.id])
        BY <1>5, <2>3, <2>4, <3>1, <3>2, <3>3 DEF InFile
      <4>2. InFile(files', Due, e, w)
        BY <1>5, <2>1, <2>4, <2>5, <3>1, <3>2, <3>3, <4>1 DEF InFile
      <4>3. QED
        BY <1>11, <4>2
    <3>4. CASE r # s
      <4>1. r.id # s.id
        BY <1>4, <2>1, <3>4 DEF Ordered
      <4>2. InFile(files', Due, e, r)
        BY <2>4, <3>1, <4>1 DEF InFile
      <4>3. QED
        BY <1>11, <3>4, <4>2
    <3>5. QED
      BY <3>3, <3>4
  <2>11. MemInv' /\ OpInv' /\ AppendInv' /\ RemoveInv' /\ DropInv' /\ ClosedInv'
    BY <1>1, <1>3, <1>6, <2>7, <2>8, <2>9, BackToIdle
  <2>12. TypeInv'
    <3>1. files' \in [DOMAIN files' -> Seq(Entry)] /\ DOMAIN files' \subseteq Nat \ {0}
      BY <1>2, <2>1, <2>3, <2>4 DEF TypeInv
    <3>2. half' \subseteq DOMAIN files' /\ stub' \subseteq DOMAIN files' /\ entries' \subseteq Entry
      BY <1>1, <1>2, <1>5, <1>6, <2>4 DEF TypeInv
    <3>3. QED
      BY <1>1, <1>2, <1>3, <1>state, <3>1, <3>2 DEF TypeInv
  <2>13. TermInv'
    <3>1. \A f \in DOMAIN files' : \A e \in Range(files'[f]) : e.term <= state'
      BY <1>state, <2>3, <2>4
    <3>2. QED
      BY <1>1, <1>3, <1>6, <1>state, <3>1 DEF TermInv
  <2>14. QED
    BY <2>11, <2>12, <2>13 DEF SafeInv
<1>12. QED
  BY <1>1, <1>10, <1>11

\* Where an operation breaks off a record may have been added, or cut short, in the
\* file of the last segment.
LEMMA BreakOffFacts ==
  ASSUME SafeInv, BreaksOff
  PROVE  /\ files' \in [DOMAIN files' -> Seq(Entry)] /\ DOMAIN files' = DOMAIN files
         /\ half' \subseteq DOMAIN files /\ stub' \subseteq DOMAIN files
         /\ \A f \in DOMAIN files : Range(files[f]) \subseteq Range(files'[f])
         /\ \A f \in DOMAIN files' : \A e \in Range(files'[f]) : e.term <= state
<1> DEFINE x == Latest(work).id
           d == FirstOf(todo)
<1>1. TypeInv /\ TermInv /\ AppendInv
  BY DEF SafeInv
<1>2. CASE UNCHANGED fileVars
  BY <1>1, <1>2 DEF fileVars, TypeInv, TermInv
<1>3. CASE CanWrite /\ (TearRecord(x) \/ WriteRecord(x))
  <2>1. x \in DOMAIN files
    BY <1>1, <1>3 DEF CanWrite, Missing, NeedsSegment, TypeInv
  <2>2. d \in todo /\ d \in batch /\ d \in Entry
    <3>1. todo \in SUBSET Entry /\ todo # {} /\ todo \subseteq batch
      BY <1>1, <1>3 DEF CanWrite, TypeInv, AppendInv
    <3>2. QED
      BY <3>1, FirstOfIsFirst
  <2>3. d.term <= state
    BY <1>1, <2>2 DEF TermInv
  <2> HIDE DEF d, x
  <2>4. CASE TearRecord(x)
    <3>1. files' = files
      BY <2>4 DEF TearRecord
    <3>2. half' \subseteq DOMAIN files /\ stub' \subseteq DOMAIN files
      BY <1>1, <2>1, <2>4 DEF TearRecord, TypeInv
    <3>3. QED
      BY <1>1, <3>1, <3>2 DEF TypeInv, TermInv
  <2>5. CASE WriteRecord(x)
    <3>1. files' = [files EXCEPT ![x] = Append(@, d)] /\ half' = half \cup (stub \cap {x})
          /\ stub' = stub
      BY <2>5 DEF WriteRecord, d
    <3>2. files[x] \in Seq(Entry)
      BY <1>1, <2>1 DEF TypeInv
    <3>3. Append(files[x], d) \in Seq(Entry)
      BY <2>2, <3>2
    <3>4. Range(Append(files[x], d)) = Range(files[x]) \cup {d}
      BY <2>2, <3>2, RangeAppend
    <3>5. /\ files' \in [DOMAIN files' -> Seq(Entry)] /\ DOMAIN files' = DOMAIN files
          /\ files'[x] = Append(files[x], d)
          /\ \A f \in DOMAIN files : f # x => files'[f] = files[f]
      BY <1>1, <2>1, <3>1, <3>3 DEF TypeInv
    <3>6. half' \subseteq DOMAIN files /\ stub' \subseteq DOMAIN files
      BY <1>1, <2>1, <3>1 DEF TypeInv
    <3>7. \A f \in DOMAIN files : Range(files[f]) \subseteq Range(files'[f])
      BY <3>4, <3>5
    <3>8. \A f \in DOMAIN files' : \A e \in Range(files'[f]) : e.term <= state
      <4> SUFFICES ASSUME NEW f \in DOMAIN files', NEW e \in Range(files'[f])
                   PROVE  e.term <= state
        OBVIOUS
      <4>1. CASE f = x
        BY <1>1, <2>1, <2>3, <3>4, <3>5, <4>1 DEF TermInv
      <4>2. CASE f # x
        BY <1>1, <3>5, <4>2 DEF TermInv
      <4>3. QED
        BY <4>1, <4>2
    <3>9. QED
      BY <3>5, <3>6, <3>7, <3>8
  <2>6. QED
    BY <1>3, <2>4, <2>5
<1>4. QED
  BY <1>2, <1>3 DEF BreaksOff

\* What was in the files still is.
LEMMA HeldGrows ==
  ASSUME NEW es, NEW segs, NEW due, Held(files, due, es, segs), DOMAIN files' = DOMAIN files,
         \A f \in DOMAIN files : Range(files[f]) \subseteq Range(files'[f])
  PROVE  Held(files', due, es, segs)
<1> SUFFICES ASSUME NEW e \in es PROVE \E s \in segs : InFile(files', due, e, s)
  BY DEF Held
<1>1. PICK s \in segs : InFile(files, due, e, s)
  BY DEF Held
<1>2. InFile(files', due, e, s)
  BY <1>1 DEF InFile
<1>3. QED
  BY <1>2

LEMMA WriteFailsSafe == ASSUME SafeInv, WriteFails PROVE SafeInv'
<1>1. /\ pc = "append"
      /\ \/ refused' = TRUE /\ UNCHANGED <<fileVars, faults>>
         \/ faults < MaxFaults /\ faults' = faults + 1 /\ BreaksOff /\ refused' = refused
      /\ exposed' = None
      /\ UNCHANGED <<state, term, entries, segments, floor, raftLast, mirror, mirrorState, lost,
                     Due, crashes>>
  BY DEF WriteFails, Fault, memVars, logVars, Due
<1>2. /\ pc' = "idle" /\ todo' = {} /\ batch' = {} /\ work' = {} /\ fresh' = TRUE
      /\ nextId' = 1 /\ doomed' = {} /\ keep' = {}
  BY DEF WriteFails, Return
<1>3. TypeInv /\ TermInv /\ MemInv
  BY DEF SafeInv
<1>4. /\ files' \in [DOMAIN files' -> Seq(Entry)] /\ DOMAIN files' = DOMAIN files
      /\ half' \subseteq DOMAIN files /\ stub' \subseteq DOMAIN files
      /\ \A f \in DOMAIN files : Range(files[f]) \subseteq Range(files'[f])
      /\ \A f \in DOMAIN files' : \A e \in Range(files'[f]) : e.term <= state
  <2>1. BreaksOff
    BY <1>1 DEF BreaksOff
  <2>2. QED
    BY <2>1, BreakOffFacts
<1>5. Held(files', Due', entries', segments')
  BY <1>1, <1>3, <1>4, HeldGrows DEF MemInv
<1>6. MemInv' /\ OpInv' /\ AppendInv' /\ RemoveInv' /\ DropInv' /\ ClosedInv'
  BY <1>1, <1>2, <1>3, <1>5, BackToIdle DEF MemInv
<1>7. TypeInv'
  <2>1. faults' \in 0 .. MaxFaults /\ refused' \in BOOLEAN /\ exposed' \in 1 .. None
    <3>1. faults \in 0 .. MaxFaults /\ refused \in BOOLEAN /\ MaxFaults \in Nat
      BY <1>3, Bounds DEF TypeInv
    <3>2. faults' \in 0 .. MaxFaults
      BY <1>1, <3>1
    <3>3. refused' \in BOOLEAN
      BY <1>1, <3>1
    <3>4. exposed' \in 1 .. None
      BY <1>1, Bounds
    <3>5. QED
      BY <3>2, <3>3, <3>4
  <2>2. QED
    BY <1>1, <1>2, <1>3, <1>4, <2>1 DEF TypeInv
<1>8. TermInv'
  BY <1>1, <1>2, <1>3, <1>4 DEF TermInv
<1>9. QED
  BY <1>6, <1>7, <1>8 DEF SafeInv

LEMMA ReplaceFailsSafe == ASSUME SafeInv, ReplaceFails PROVE SafeInv'
<1>1. /\ pc \in {"remove", "drop"}
      /\ faults < MaxFaults /\ faults' = faults + 1
      /\ lost' = lost \cup Gone /\ exposed' = None
      /\ UNCHANGED <<files, half, stub, state, term, entries, segments, floor, raftLast, mirror,
                     mirrorState, refused, crashes>>
  BY DEF ReplaceFails, Fault, diskVars, fileVars, memVars, logVars
<1>2. /\ pc' = "idle" /\ todo' = {} /\ batch' = {} /\ work' = {} /\ fresh' = TRUE
      /\ nextId' = 1 /\ doomed' = {} /\ keep' = {}
  BY DEF ReplaceFails, Return
<1>3. TypeInv /\ TermInv /\ MemInv
  BY DEF SafeInv
<1>4. Due' = Due \ Gone
  BY <1>1 DEF Due
<1>5. Held(files', Due', entries', segments')
  BY <1>1, <1>4 DEF SafeInv, RemoveInv, DropInv
<1>6. MemInv' /\ OpInv' /\ AppendInv' /\ RemoveInv' /\ DropInv' /\ ClosedInv'
  BY <1>1, <1>2, <1>3, <1>5, BackToIdle DEF MemInv
<1>7. TypeInv'
  <2>1. faults' \in 0 .. MaxFaults /\ exposed' \in 1 .. None
    BY <1>1, <1>3, Bounds DEF TypeInv
  <2>2. lost' \subseteq Index
    BY <1>1, <1>3 DEF TypeInv, Gone
  <2>3. QED
    BY <1>1, <1>2, <1>3, <2>1, <2>2 DEF TypeInv
<1>8. TermInv'
  BY <1>1, <1>2, <1>3 DEF TermInv
<1>9. QED
  BY <1>6, <1>7, <1>8 DEF SafeInv

LEMMA CrashSafe == ASSUME SafeInv, Crash PROVE SafeInv'
<1>1. /\ crashes < MaxCrashes /\ crashes' = crashes + 1 /\ BreaksOff
      /\ pc' = "closed" /\ todo' = {} /\ batch' = {} /\ work' = {} /\ fresh' = TRUE
      /\ nextId' = 1 /\ doomed' = {} /\ keep' = {} /\ segments' = {} /\ term' = 0
      /\ UNCHANGED <<state, entries, floor, raftLast, mirror, mirrorState, exposed, lost, refused,
                     faults>>
  BY DEF Crash, logVars, pastVars
<1>2. /\ files' \in [DOMAIN files' -> Seq(Entry)] /\ DOMAIN files' = DOMAIN files
      /\ half' \subseteq DOMAIN files /\ stub' \subseteq DOMAIN files
      /\ \A f \in DOMAIN files : Range(files[f]) \subseteq Range(files'[f])
      /\ \A f \in DOMAIN files' : \A e \in Range(files'[f]) : e.term <= state
  BY <1>1, BreakOffFacts
<1>3. MemInv'
  BY <1>1 DEF SafeInv, MemInv, Ordered, Ends
<1>4. OpInv' /\ AppendInv' /\ RemoveInv' /\ DropInv'
  BY <1>1 DEF OpInv, AppendInv, RemoveInv, DropInv
<1>5. ClosedInv'
  <2>1. \A e \in OnDisk : e \in OnDisk'
    BY <1>2 DEF OnDisk
  <2>2. QED
    BY <1>1, <2>1, SafeSurvives DEF ClosedInv, Survive
<1>6. TypeInv'
  <2>1. crashes' \in 0 .. MaxCrashes /\ 0 \in 0 .. MaxTerm
    BY <1>1, Bounds DEF SafeInv, TypeInv
  <2>2. pc' \in {"closed", "idle", "append", "remove", "drop"} /\ nextId' \in Nat \ {0}
        /\ fresh' \in BOOLEAN
    BY <1>1
  <2>3. QED
    BY <1>1, <1>2, <2>1, <2>2 DEF SafeInv, TypeInv
<1>7. TermInv'
  BY <1>1, <1>2 DEF SafeInv, TermInv
<1>8. QED
  BY <1>3, <1>4, <1>5, <1>6, <1>7 DEF SafeInv

LEMMA StutterSafe == ASSUME SafeInv, UNCHANGED vars PROVE SafeInv'
<1>1. MemInv' /\ OpInv' /\ AppendInv' /\ RemoveInv' /\ DropInv' /\ ClosedInv'
  BY SameMemory DEF vars, diskVars, fileVars, logVars, pastVars
<1>2. TypeInv' /\ TermInv'
  BY DEF SafeInv, TypeInv, TermInv, vars, diskVars, fileVars, memVars, opVars, logVars, pastVars
<1>3. QED
  BY <1>1, <1>2 DEF SafeInv

LEMMA NextSafe == ASSUME SafeInv, [Next]_vars PROVE SafeInv'
<1>1. CASE Open
  BY <1>1, OpenSafe
<1>2. CASE \E ok \in BOOLEAN : Sync(ok)
  BY <1>2, SyncSafe
<1>3. CASE \E ok \in BOOLEAN, t \in 1 .. MaxTerm : AppendState(t, ok)
  BY <1>3, AppendStateSafe
<1>4. CASE \E ok \in BOOLEAN, i \in Index, n \in 1 .. MaxBatch, t \in 1 .. MaxTerm :
             AppendBegin(i, n, t, ok)
  BY <1>4, AppendBeginSafe
<1>5. CASE CreateSegment
  BY <1>5, CreateSegmentSafe
<1>6. CASE AppendRecord
  BY <1>6, AppendRecordSafe
<1>7. CASE RemoveFile
  BY <1>7, RemoveFileSafe
<1>8. CASE RewriteTail
  BY <1>8, RewriteTailSafe
<1>9. CASE \E ok \in BOOLEAN, i \in Index : TruncateBegin(i, ok)
  BY <1>9, TruncateBeginSafe
<1>10. CASE \E ok \in BOOLEAN : TruncateFinish(ok)
  BY <1>10, TruncateFinishSafe
<1>11. CASE WriteFails
  BY <1>11, WriteFailsSafe
<1>12. CASE ReplaceFails
  BY <1>12, ReplaceFailsSafe
<1>13. CASE Crash
  BY <1>13, CrashSafe
<1>14. CASE UNCHANGED vars
  BY <1>14, StutterSafe
<1>15. QED
  BY <1>1, <1>2, <1>3, <1>4, <1>5, <1>6, <1>7, <1>8, <1>9, <1>10, <1>11, <1>12, <1>13, <1>14
     DEF Next

LEMMA SpecSafe == Spec => []SafeInv
BY InitSafe, NextSafe, PTL DEF Spec

\* Every variable keeps its type in every behaviour; no number is given to two
\* segments (wal.go:21-34).
THEOREM TypeCorrect == Spec => []TypeOK
BY SpecSafe, SafeTypes, PTL

\* Whatever fails and whenever the process dies, as long as no file holds a record
\* cut short that readSegment would misread (wal.go:396-411), each entry that the
\* node was told is stored and that no snapshot covers is on disk, up to the first
\* segment that rewriteTail was about to write again and apart from the segments it
\* had removed when the removal of another one failed (wal.go:564-589).
THEOREM AckedSurviveAlways == Spec => []AckedSurvive
<1>1. SafeInv => AckedSurvive
  BY SafeSurvives DEF Survive, AckedSurvive
<1>2. QED
  BY <1>1, SpecSafe, PTL

\* No record on disk is newer than the Term of hardstate.bin (wal.go:150-155).
THEOREM StateCoversEntriesAlways == Spec => []StateCoversEntries
BY SpecSafe, SafeTerms, PTL

-----------------------------------------------------------------------------
\* The inductive invariant, continued: what holds as long as no call has
\* returned an error.

\* The index range of a segment is that of the records in its file.
Exact(fs, segs) ==
  \A s \in segs : fs[s.id] # <<>> =>
    fs[s.id][1].index = s.first /\ fs[s.id][Len(fs[s.id])].index = s.last

\* The files with a record.
Used(fs) == {f \in DOMAIN fs : fs[f] # <<>>}

\* A file is a run of consecutive entries that fits.
RunInv ==
  \A f \in DOMAIN files :
    /\ Len(files[f]) <= SegmentRecords
    /\ \A k \in 1 .. Len(files[f]) : files[f][k].index = files[f][1].index + k - 1

\* raft's log begins at the snapshot and ends where raft believes it to end.
RaftInv ==
  pc # "closed" =>
    /\ floor <= raftLast /\ \A e \in mirror : e.index <= raftLast
    /\ raftLast # floor => \E e \in mirror : e.index = raftLast
    /\ mirror # {} => \E e \in mirror : e.index <= floor + 1

(* The records on disk and the entries of MemoryWAL, between the calls and *)
(* inside them.                                                            *)
FilesInv ==
  /\ pc = "closed" /\ exposed = None => NoGap(OnDisk)
  /\ pc = "idle" =>
       /\ Used(files) = IdsOf(segments) /\ Exact(files, segments)
       /\ OnDisk = entries /\ mirror = entries
  /\ pc = "append" =>
       /\ Used(files) \subseteq IdsOf(work) /\ Exact(files, work) /\ Present(files, work)
       /\ OnDisk = entries \cup Written /\ mirror = entries \cup batch
  /\ pc = "remove" =>
       /\ Used(files) = IdsOf(keep) \cup doomed /\ Exact(files, keep)
       /\ \A s \in keep : Range(files[s.id]) \subseteq Below(entries, exposed)
       /\ mirror = Below(entries, exposed) \cup batch
  /\ pc = "drop" =>
       /\ Used(files) = IdsOf(keep) \cup doomed /\ Exact(files, keep)
       /\ \A f \in doomed, s \in keep : f < s.id
       /\ OnDisk \subseteq entries /\ NoGap(OnDisk)
       /\ mirror = From(entries, floor)

DataInv == Ascending /\ RunInv /\ RaftInv /\ FilesInv /\ lost = {}

\* MemoryWAL has the HardState of hardstate.bin, or has forgotten it.
StateInv == pc # "closed" => term = state /\ mirrorState \in {0, state}

SoundInv == Sound => DataInv /\ StateInv

-----------------------------------------------------------------------------
\* Files and their records.

\* A record has a file that is in use.
LEMMA RecordIsUsed ==
  ASSUME TypeInv, NEW e \in OnDisk
  PROVE  \E f \in Used(files) : e \in Range(files[f])
<1>1. PICK f \in DOMAIN files : e \in Range(files[f])
  BY OnDiskIs
<1>2. PICK k \in 1 .. Len(files[f]) : e = files[f][k]
  BY <1>1, RecordsAre
<1>3. files[f] # <<>>
  BY <1>2, RecordsAre
<1>4. QED
  BY <1>1, <1>3 DEF Used

LEMMA UsedIsRecord ==
  ASSUME NEW f \in DOMAIN files, NEW e \in Range(files[f]), TypeInv
  PROVE  f \in Used(files)
<1>1. PICK k \in 1 .. Len(files[f]) : e = files[f][k]
  BY RecordsAre
<1>2. files[f] # <<>>
  BY <1>1, RecordsAre
<1>3. QED
  BY <1>2 DEF Used

\* The records of a file are in the index range of its segment.
LEMMA RecordsInRange ==
  ASSUME TypeInv, Ascending, NEW segs, Exact(files, segs), NEW s \in segs,
         s.id \in DOMAIN files, NEW e \in Range(files[s.id])
  PROVE  /\ s.first <= e.index /\ e.index <= s.last
         /\ s.first \in Nat /\ s.last \in Nat /\ e.index \in Nat
<1> DEFINE q == files[s.id]
           l == Len(files[s.id])
<1>1. PICK k \in 1 .. l : e = q[k]
  BY RecordsAre
<1>2. /\ l \in Nat /\ k \in Nat /\ 1 <= k /\ k <= l /\ DOMAIN q = 1 .. l
      /\ q # <<>> /\ \A j \in 1 .. l : q[j].index \in Nat
  BY <1>1, RecordsAre
<1>3. q[1].index = s.first /\ q[l].index = s.last
  BY <1>2 DEF Exact
<1>4. \A j, m \in DOMAIN q : j < m => q[j].index < q[m].index
  BY DEF Ascending
<1> HIDE DEF q, l
<1>5. 1 \in DOMAIN q /\ l \in DOMAIN q /\ k \in DOMAIN q
  BY <1>2
<1>6. s.first <= e.index
  <2>1. CASE k = 1
    BY <1>1, <1>2, <1>3, <2>1
  <2>2. CASE 1 < k
    BY <1>1, <1>2, <1>3, <1>4, <1>5, <2>2
  <2>3. QED
    BY <1>2, <2>1, <2>2
<1>7. e.index <= s.last
  <2>1. CASE k = l
    BY <1>1, <1>2, <1>3, <2>1
  <2>2. CASE k < l
    BY <1>1, <1>2, <1>3, <1>4, <1>5, <2>2
  <2>3. QED
    BY <1>2, <2>1, <2>2
<1>8. QED
  BY <1>1, <1>2, <1>3, <1>5, <1>6, <1>7

\* A segment whose first entry is held has a record of its own.
LEMMA HasRecord ==
  ASSUME NEW segs, Ordered(segs), NEW es \in SUBSET Entry, Held(files, Due, es, segs), TypeInv,
         lost = {}, NEW s \in segs, Ends({s}, es)
  PROVE  s.id \in Used(files)
<1>1. PICK d \in es : d.index = s.first /\ s.first <= s.last
  BY DEF Ends
<1>2. PICK r \in segs : InFile(files, Due, d, r)
  BY DEF Held
<1>3. /\ r.id \in Nat /\ r.first \in Nat /\ r.last \in Nat
      /\ s.id \in Nat /\ s.first \in Nat /\ s.last \in Nat
  BY Bounds DEF Ordered
<1>4. r.first <= s.first /\ s.first <= r.last
  BY <1>1, <1>2 DEF InFile
<1>5. ~(r.id < s.id) /\ ~(s.id < r.id)
  BY <1>1, <1>3, <1>4 DEF Ordered
<1>6. r = s
  BY <1>3, <1>5 DEF Ordered
<1>7. s.id \in DOMAIN files /\ d \in Range(files[s.id])
  BY <1>1, <1>2, <1>6, Bounds DEF InFile, Due
<1>8. QED
  BY <1>7, UsedIsRecord

\* Up to the last record that was written, nothing of a log is missing.
LEMMA WrittenIsLog ==
  ASSUME SafeInv, pc = "append"
  PROVE  NoGap(entries \cup Written)
<1> SUFFICES ASSUME NEW d \in entries \cup Written, NEW e \in entries \cup Written,
                    NEW i \in d.index .. e.index
             PROVE  \E c \in entries \cup Written : c.index = i
  BY DEF NoGap
<1>1. AppendInv /\ d \in entries \cup batch /\ e \in entries \cup batch
  BY DEF SafeInv, Written
<1>2. PICK c \in entries \cup batch : c.index = i
  BY <1>1 DEF AppendInv, Log, NoGap
<1>3. c.index <= e.index /\ c.index \in Nat /\ e.index \in Nat
  BY <1>1, <1>2, AppendFacts
<1>4. c \notin todo
  <2> SUFFICES ASSUME c \in todo PROVE FALSE
    OBVIOUS
  <2>1. e.index < c.index
    BY <1>1, AppendFacts DEF AppendInv
  <2>2. QED
    BY <1>3, <2>1
<1>5. QED
  BY <1>2, <1>4 DEF Written

\* What does not change the files, and what of the rest stays.
LEMMA SameFiles ==
  ASSUME Ascending, RunInv, UNCHANGED files
  PROVE  Ascending' /\ RunInv' /\ OnDisk' = OnDisk
BY DEF Ascending, RunInv, OnDisk

LEMMA SameRaft ==
  ASSUME RaftInv, pc # "closed", UNCHANGED <<floor, raftLast, mirror>>
  PROVE  RaftInv'
BY DEF RaftInv

-----------------------------------------------------------------------------
\* The steps.

LEMMA InitSound == Init => SoundInv
<1> SUFFICES ASSUME Init PROVE SoundInv
  OBVIOUS
<1>1. DOMAIN files = {} /\ pc = "closed"
  BY DEF Init
<1>2. Ascending /\ RunInv /\ RaftInv
  BY <1>1 DEF Ascending, RunInv, RaftInv
<1>3. NoGap(OnDisk)
  BY <1>1, OnDiskIs DEF NoGap
<1>4. QED
  BY <1>1, <1>2, <1>3 DEF Init, SoundInv, DataInv, FilesInv, StateInv

LEMMA OpenData == ASSUME SafeInv, DataInv, Open PROVE DataInv'
<1>1. /\ pc = "closed" /\ pc' = "idle" /\ entries' = OnDisk /\ segments' = LoadedSegments
      /\ mirror' = OnDisk /\ raftLast' = Max({floor, LastIndex(OnDisk)})
      /\ OnDisk # {} => \E e \in OnDisk : e.index <= floor + 1
      /\ UNCHANGED <<files, floor>> /\ lost' = {}
  BY DEF Open, diskVars, fileVars
<1>2. TypeInv
  BY DEF SafeInv
<1>3. Ascending' /\ RunInv' /\ OnDisk' = OnDisk
  BY <1>1, SameFiles DEF DataInv
<1>4. RaftInv'
  <2> DEFINE l == LastIndex(OnDisk)
  <2>1. OnDisk \in SUBSET Entry
    BY <1>2, RecordsAre, OnDiskIs
  <2>2. /\ l \in Nat /\ floor \in Nat
        /\ \A e \in OnDisk : e.index <= l /\ e.index \in Nat
        /\ OnDisk # {} => \E e \in OnDisk : e.index = l
        /\ OnDisk = {} => l = 0
    <3>1. floor \in 0 .. MaxIndex
      BY <1>2 DEF TypeInv
    <3>2. \A e \in OnDisk : e.index \in Nat
      BY <2>1, Bounds
    <3>3. QED
      BY <2>1, <3>1, <3>2, LastIndexIsLast, Bounds
  <2> HIDE DEF l
  <2>3. \/ Max({floor, l}) = l /\ floor <= l
        \/ Max({floor, l}) = floor /\ l <= floor
    <3>1. CASE floor <= l
      <4>1. \A y \in {floor, l} : y <= l
        BY <2>2, <3>1
      <4>2. QED
        BY <2>2, <3>1, <4>1, MaxIsMax
    <3>2. CASE l <= floor
      <4>1. \A y \in {floor, l} : y <= floor
        BY <2>2, <3>2
      <4>2. QED
        BY <2>2, <3>2, <4>1, MaxIsMax
    <3>3. QED
      BY <2>2, <3>1, <3>2
  <2>4. raftLast' = Max({floor, l})
    BY <1>1 DEF l
  <2>5. /\ floor <= raftLast' /\ \A e \in OnDisk : e.index <= raftLast'
        /\ raftLast' # floor => raftLast' = l /\ OnDisk # {}
    <3>1. CASE raftLast' = l /\ floor <= l
      BY <2>2, <3>1
    <3>2. CASE raftLast' = floor /\ l <= floor
      <4>1. \A e \in OnDisk : e.index <= floor
        BY <2>2, <3>2
      <4>2. QED
        BY <2>2, <3>2, <4>1
    <3>3. QED
      BY <2>3, <2>4, <3>1, <3>2
  <2>6. QED
    BY <1>1, <2>2, <2>5 DEF RaftInv
<1>5. FilesInv'
  <2>1. Exact(files, LoadedSegments)
    BY <1>2, LoadedSegmentsAre DEF Exact
  <2>2. Used(files) = IdsOf(LoadedSegments)
    BY <1>2, LoadedSegmentsAre DEF Used, IdsOf
  <2>3. QED
    BY <1>1, <1>3, <2>1, <2>2 DEF FilesInv
<1>6. QED
  BY <1>1, <1>3, <1>4, <1>5 DEF DataInv

\* raft's log after raft has appended to it.
LEMMA BeginRaft ==
  ASSUME SafeInv, DataInv, NEW i \in Index, NEW n \in 1 .. MaxBatch, NEW t \in 1 .. MaxTerm,
         NEW ok, AppendBegin(i, n, t, ok)
  PROVE  RaftInv'
<1> DEFINE es == Entries(i, n, t)
<1>1. /\ pc = "idle" /\ floor' = floor /\ i \in Nat /\ i + n - 1 <= MaxIndex
      /\ raftLast' = i + n - 1 /\ mirror \in SUBSET Entry
      /\ mirror' = Merged(mirror, i, es)
  BY BeginFacts
<1>2. /\ floor \in Nat /\ raftLast \in Nat /\ n \in Nat /\ n >= 1
      /\ \A e \in mirror : e.index \in Nat
      /\ i >= floor + 1 /\ i <= raftLast + 1
  <2>1. /\ floor \in 0 .. MaxIndex /\ raftLast \in 0 .. MaxIndex
        /\ i \in floor + 1 .. raftLast + 1
    BY DEF SafeInv, TypeInv, AppendBegin, RaftAppends
  <2>2. QED
    BY <1>1, <2>1, Bounds
<1>3. /\ \A e \in es : i <= e.index /\ e.index <= i + n - 1
      /\ \E e \in es : e.index = i
      /\ \E e \in es : e.index = i + n - 1
  BY <1>1, EntriesAreLog
<1>4. mirror' = Below(mirror, i) \cup es
  BY <1>1 DEF Merged
<1> HIDE DEF es
<1>5. /\ \A e \in mirror' : (e \in mirror /\ e.index < i) \/ e \in es
      /\ \A e \in mirror : e.index < i => e \in mirror'
      /\ \A e \in es : e \in mirror'
  BY <1>4 DEF Below
<1>6. floor' <= raftLast' /\ \A e \in mirror' : e.index <= raftLast'
  BY <1>1, <1>2, <1>3, <1>5
<1>7. \E e \in mirror' : e.index = raftLast'
  BY <1>1, <1>3, <1>5
<1>8. \E e \in mirror' : e.index <= floor + 1
  <2>1. CASE i = floor + 1
    BY <1>2, <1>3, <1>5, <2>1
  <2>2. CASE i > floor + 1
    <3>1. raftLast # floor
      BY <1>1, <1>2, <2>2
    <3>2. PICK e \in mirror : e.index <= floor + 1
      BY <1>1, <3>1 DEF DataInv, RaftInv
    <3>3. e.index < i
      BY <1>1, <1>2, <2>2, <3>2
    <3>4. QED
      BY <1>5, <3>2, <3>3
  <2>3. QED
    BY <1>1, <1>2, <2>1, <2>2
<1>9. QED
  BY <1>1, <1>6, <1>7, <1>8 DEF RaftInv

LEMMA AppendNextData ==
  ASSUME SafeInv, DataInv, NEW i \in Index, NEW n \in 1 .. MaxBatch, NEW t \in 1 .. MaxTerm,
         NEW ok, AppendBegin(i, n, t, ok), AppendNext(i, Entries(i, n, t))
  PROVE  DataInv'
<1> DEFINE es == Entries(i, n, t)
<1>1. /\ pc = "idle" /\ UNCHANGED <<files, entries, segments, lost>>
      /\ i \in Nat /\ entries \in SUBSET Entry /\ mirror' = Merged(mirror, i, es)
  BY BeginFacts
<1>2. /\ entries = {} \/ i = LastIndex(entries) + 1
      /\ pc' = "append" /\ todo' = es /\ batch' = es /\ work' = segments
      /\ mirror' = Below(mirror, i) \cup es
  BY <1>1 DEF AppendNext, Write, Merged
<1>3. RaftInv'
  BY BeginRaft
<1>4. Ascending' /\ RunInv' /\ OnDisk' = OnDisk
  BY <1>1, SameFiles DEF DataInv
<1>5. /\ Used(files) = IdsOf(segments) /\ Exact(files, segments)
      /\ OnDisk = entries /\ mirror = entries
  BY <1>1 DEF DataInv, FilesInv
<1> HIDE DEF es
<1>6. Below(entries, i) = entries
  <2>1. \A e \in entries : e.index < i
    BY <1>1, <1>2, LastIndexIsLast, Bounds
  <2>2. QED
    BY <2>1 DEF Below
<1>7. FilesInv'
  <2>1. Written' = {}
    BY <1>2 DEF Written
  <2>2. QED
    <3>1. Present(files, segments)
      BY <1>5 DEF Present, Used, IdsOf
    <3>2. QED
      BY <1>1, <1>2, <1>4, <1>5, <1>6, <2>1, <3>1 DEF FilesInv
<1>8. QED
  BY <1>1, <1>3, <1>4, <1>7 DEF DataInv

LEMMA AppendOverlapData ==
  ASSUME SafeInv, DataInv, NEW i \in Index, NEW n \in 1 .. MaxBatch, NEW t \in 1 .. MaxTerm,
         NEW ok, AppendBegin(i, n, t, ok), AppendOverlap(i, Entries(i, n, t))
  PROVE  DataInv'
<1> DEFINE es == Entries(i, n, t)
           hit == Reaching(i)
           s == Oldest(hit)
<1>1. /\ pc = "idle" /\ UNCHANGED <<files, entries, segments, lost>>
      /\ i \in Nat /\ entries \in SUBSET Entry
      /\ Ordered(segments) /\ mirror' = Merged(mirror, i, es)
  BY BeginFacts
<1>2. /\ entries # {}
      /\ pc' = "remove" /\ keep' = segments \ hit /\ doomed' = IdsOf(hit)
      /\ batch' = From(Merged(entries, i, es), s.first) /\ exposed' = s.first
      /\ mirror' = Below(mirror, i) \cup es
  BY <1>1 DEF AppendOverlap, Merged
<1>3. RaftInv'
  BY BeginRaft
<1>4. Ascending' /\ RunInv' /\ OnDisk' = OnDisk /\ Ascending
  BY <1>1, SameFiles DEF DataInv
<1>5. /\ Used(files) = IdsOf(segments) /\ Exact(files, segments)
      /\ OnDisk = entries /\ mirror = entries
  BY <1>1 DEF DataInv, FilesInv
<1>6. /\ hit \in SUBSET segments /\ hit \in SUBSET Segment /\ s \in hit
      /\ \A r \in segments \ hit : r.last < s.first
      /\ \A d \in entries : \A j \in Nat :
           d.index <= j /\ j <= i => \E c \in entries : c.index = j
      /\ s.first <= i =>
           Below(entries, s.first) \cup From(Merged(entries, i, es), s.first)
             = Below(entries, i) \cup es
      /\ i < s.first => \A d \in entries : ~(d.index < s.first)
  BY OverlapFacts
<1> HIDE DEF es, hit, s
<1>7. s.first \in Nat /\ \A e \in entries : e.index \in Nat
  BY <1>1, <1>6, Bounds
\* The log begins at the snapshot, so what arrives touches it.
<1>8. s.first <= i
  <2>1. PICK e \in entries : e.index <= floor + 1
    BY <1>1, <1>2, <1>5 DEF DataInv, RaftInv
  <2>2. e.index <= i
    <3>1. floor \in Nat /\ i >= floor + 1
      BY Bounds DEF SafeInv, TypeInv, AppendBegin, RaftAppends
    <3>2. QED
      BY <1>1, <1>7, <2>1, <3>1
  <2>3. PICK c \in entries : c.index = i
    BY <1>1, <1>6, <1>7, <2>1, <2>2
  <2>4. QED
    BY <1>1, <1>6, <1>7, <2>3
<1>9. Used(files) = IdsOf(segments \ hit) \cup IdsOf(hit)
  BY <1>5, <1>6 DEF IdsOf
<1>10. Exact(files, segments \ hit)
  BY <1>5 DEF Exact
<1>11. ASSUME NEW r \in segments \ hit, NEW e \in Range(files[r.id])
       PROVE  e \in Below(entries, s.first)
  <2>1. r.id \in DOMAIN files
    BY <1>5 DEF Used, IdsOf
  <2>2. e \in entries
    BY <1>5, <2>1, OnDiskIs
  <2>3. e.index <= r.last /\ r.last \in Nat /\ TypeInv
    BY <1>4, <1>5, <2>1, RecordsInRange DEF SafeInv
  <2>4. e.index < s.first
    BY <1>6, <1>7, <2>2, <2>3
  <2>5. QED
    BY <2>2, <2>4 DEF Below
<1>12. FilesInv'
  <2>1. Below(entries', exposed') = Below(entries, s.first)
    BY <1>1, <1>2
  <2>2. mirror' = Below(entries', exposed') \cup batch'
    BY <1>2, <1>5, <1>6, <1>8, <2>1
  <2>3. /\ Used(files') = IdsOf(keep') \cup doomed' /\ Exact(files', keep')
        /\ \A r \in keep' : Range(files'[r.id]) \subseteq Below(entries', exposed')
    BY <1>1, <1>2, <1>9, <1>10, <1>11, <2>1
  <2>4. QED
    BY <1>2, <2>2, <2>3 DEF FilesInv
<1>13. QED
  BY <1>1, <1>3, <1>4, <1>12 DEF DataInv

\* A call of the file system that fails is remembered.
LEMMA SoundWrites ==
  ASSUME SafeInv, NEW t, NEW ok, PersistState(t, ok), Sound'
  PROVE  ok /\ state' = t
<1>1. faults \in Nat
  BY Bounds DEF SafeInv, TypeInv
<1>2. faults' = 0
  BY DEF Sound
<1>3. faults' # faults + 1
  BY <1>1, <1>2
<1>4. QED
  BY <1>3 DEF PersistState, Fault

LEMMA AppendBeginData ==
  ASSUME SafeInv, DataInv, NEW i \in Index, NEW n \in 1 .. MaxBatch, NEW t \in 1 .. MaxTerm,
         NEW ok, AppendBegin(i, n, t, ok), Sound'
  PROVE  DataInv' /\ StateInv'
<1>1. /\ HardState(t) /\ PersistState(t, ok)
      /\ ok => AppendNext(i, Entries(i, n, t)) \/ AppendGap(i) \/ AppendOverlap(i, Entries(i, n, t))
  BY DEF AppendBegin
<1>2. ok /\ state' = t /\ term' = t
  BY <1>1, SoundWrites DEF HardState
<1>3. ~AppendGap(i)
  BY DEF AppendGap, Sound
<1>4. DataInv'
  BY <1>1, <1>2, <1>3, AppendNextData, AppendOverlapData
<1>5. StateInv'
  BY <1>1, <1>2 DEF HardState, StateInv
<1>6. QED
  BY <1>4, <1>5

LEMMA CreateSegmentData == ASSUME SafeInv, DataInv, CreateSegment PROVE DataInv'
<1> DEFINE i == FirstOf(todo).index
           b == [id |-> nextId, first |-> i, last |-> i - 1]
<1>1. /\ pc = "append" /\ work' = work \cup {b}
      /\ files' = [f \in DOMAIN files \cup {nextId} |->
                     IF f = nextId THEN <<>> ELSE files[f]]
      /\ UNCHANGED <<entries, pc, todo, batch, floor, raftLast, mirror, lost>>
  BY DEF CreateSegment, memVars, logVars, pastVars
<1>2. TypeInv /\ AppendInv /\ Ascending /\ RunInv /\ RaftInv
  BY DEF SafeInv, DataInv
<1>3. /\ Used(files) \subseteq IdsOf(work) /\ Exact(files, work) /\ Present(files, work)
      /\ OnDisk = entries \cup Written /\ mirror = entries \cup batch
  BY <1>1 DEF DataInv, FilesInv
<1>4. b.id = nextId
  OBVIOUS
<1> HIDE DEF b, i
<1>5. /\ DOMAIN files' = DOMAIN files \cup {nextId}
      /\ \A f \in DOMAIN files : f # nextId => files'[f] = files[f]
      /\ files'[nextId] = <<>> /\ Range(files'[nextId]) = {}
      /\ Len(files'[nextId]) = 0 /\ DOMAIN files'[nextId] = {}
  BY <1>1 DEF Range
<1>6. \A s \in work : s.id # nextId
  <2>1. nextId \in Nat /\ \A s \in work : s.id \in Nat /\ s.id < nextId
    BY <1>1, <1>2, AppendFacts DEF AppendInv
  <2>2. QED
    BY <2>1
<1>7. nextId \notin Used(files)
  BY <1>3, <1>6 DEF IdsOf
<1>8. OnDisk' = OnDisk
  <2>1. ASSUME NEW e \in OnDisk PROVE e \in OnDisk'
    <3>1. PICK f \in Used(files) : e \in Range(files[f])
      BY <1>2, RecordIsUsed
    <3>2. f \in DOMAIN files' /\ files'[f] = files[f]
      BY <1>5, <1>7, <3>1 DEF Used
    <3>3. QED
      BY <3>1, <3>2 DEF OnDisk
  <2>2. ASSUME NEW e \in OnDisk' PROVE e \in OnDisk
    <3>1. PICK f \in DOMAIN files' : e \in Range(files'[f])
      BY DEF OnDisk
    <3>2. f \in DOMAIN files /\ files'[f] = files[f]
      BY <1>5, <3>1
    <3>3. QED
      BY <3>1, <3>2 DEF OnDisk
  <2>3. QED
    BY <2>1, <2>2
<1>9. Ascending'
  BY <1>2, <1>5 DEF Ascending
<1>10. RunInv'
  <2> SUFFICES ASSUME NEW f \in DOMAIN files'
               PROVE  /\ Len(files'[f]) <= SegmentRecords
                      /\ \A k \in 1 .. Len(files'[f]) :
                           files'[f][k].index = files'[f][1].index + k - 1
    BY DEF RunInv
  <2>1. CASE f = nextId
    BY <1>5, <2>1, Bounds
  <2>2. CASE f # nextId
    BY <1>2, <1>5, <2>2 DEF RunInv
  <2>3. QED
    BY <2>1, <2>2
<1>11. RaftInv'
  BY <1>1, <1>2, SameRaft
<1>12. FilesInv'
  <2>1. Used(files') \subseteq IdsOf(work')
    <3>1. ASSUME NEW f \in Used(files') PROVE f \in Used(files)
      BY <1>5 DEF Used
    <3>2. QED
      BY <1>1, <1>3, <3>1 DEF IdsOf
  <2>2. Exact(files', work')
    <3> SUFFICES ASSUME NEW s \in work', files'[s.id] # <<>>
                 PROVE  /\ files'[s.id][1].index = s.first
                        /\ files'[s.id][Len(files'[s.id])].index = s.last
      BY DEF Exact
    <3>1. s \in work /\ s.id # nextId
      BY <1>1, <1>4, <1>5, <1>6
    <3>2. files'[s.id] = files[s.id]
      BY <1>3, <1>5, <3>1 DEF Present
    <3>3. QED
      BY <1>3, <3>1, <3>2 DEF Exact
  <2>3. Written' = Written
    BY <1>1 DEF Written
  <2>4. Present(files', work')
    BY <1>1, <1>3, <1>4, <1>5 DEF Present
  <2>5. QED
    BY <1>1, <1>3, <1>8, <2>1, <2>2, <2>3, <2>4 DEF FilesInv
<1>13. QED
  BY <1>1, <1>9, <1>10, <1>11, <1>12 DEF DataInv

\* A record comes after all the others and continues its file, whether or not
\* appendRecord returns.
LEMMA WriteRecordData ==
  ASSUME SafeInv, DataInv, CanWrite, WriteRecord(Latest(work).id)
  PROVE  /\ Ascending' /\ RunInv' /\ OnDisk' = OnDisk \cup {FirstOf(todo)}
         /\ NoGap(OnDisk')
         /\ Used(files') = Used(files) \cup {Latest(work).id}
<1> DEFINE e == FirstOf(todo)
           s == Latest(work)
           q == files[s.id]
           l == Len(files[s.id])
<1>1. /\ pc = "append" /\ ~NeedsSegment /\ ~Missing
      /\ files' = [files EXCEPT ![s.id] = Append(@, e)]
  BY DEF CanWrite, WriteRecord
<1>2. TypeInv /\ AppendInv /\ Ascending /\ RunInv /\ RaftInv
  BY DEF SafeInv, DataInv
<1>3. /\ todo \subseteq batch /\ e \in todo /\ e \in Entry /\ e \in batch
      /\ \A d \in todo : e.index <= d.index
      /\ \A d \in entries \cup batch : d.index \in Nat
      /\ e.index \in Nat
      /\ \A r \in work : r.id \in Nat /\ r.first \in Nat /\ r.last \in Nat
      /\ work \in SUBSET Segment
  BY <1>1, AppendFacts
<1>present. Present(files, work)
  BY <1>1 DEF DataInv, FilesInv
<1>4. /\ fresh = FALSE /\ s \in work /\ \A r \in work : r.id <= s.id
      /\ l < SegmentRecords
  <2>1. fresh = FALSE /\ ~(l >= SegmentRecords)
    BY <1>1, <1>2 DEF NeedsSegment, TypeInv
  <2>2. s \in work /\ \A r \in work : r.id <= s.id
    BY <1>1, <1>2, <2>1, AppendFacts DEF AppendInv
  <2>3. l \in Nat
    BY <1>2, <1>present, <2>2, RecordsAre DEF Present
  <2>4. QED
    BY <2>1, <2>2, <2>3, Bounds
<1>5. /\ Used(files) \subseteq IdsOf(work) /\ Exact(files, work)
      /\ OnDisk = entries \cup Written /\ mirror = entries \cup batch
      /\ Ordered(work) /\ Present(files, work) /\ Held(files, Due, entries \cup Written, work)
      /\ lost = {}
  BY <1>1, <1>2 DEF DataInv, FilesInv, AppendInv
<1>6. e = FirstOf(todo)
  OBVIOUS
<1> HIDE DEF e, s
<1>7. s.id \in DOMAIN files /\ s \in Segment /\ s.last < e.index /\ s.id \in Nat
      /\ s.first \in Nat /\ s.last \in Nat
  BY <1>1, <1>2, <1>3, <1>4, <1>present DEF AppendInv, Present
<1>9. /\ q \in Seq(Entry) /\ l \in Nat /\ DOMAIN q = 1 .. l
      /\ \A k \in 1 .. l : q[k].index \in Nat /\ q[k] \in OnDisk
      /\ q # <<>> <=> l >= 1
  BY <1>2, <1>7, RecordsAre, OnDiskIs
<1>10. /\ DOMAIN files' = DOMAIN files
       /\ \A f \in DOMAIN files : f # s.id => files'[f] = files[f]
       /\ files'[s.id] = Append(q, e)
  BY <1>1, <1>7
<1>11. /\ Len(files'[s.id]) = l + 1 /\ DOMAIN files'[s.id] = 1 .. l + 1
       /\ \A k \in 1 .. l : files'[s.id][k] = q[k]
       /\ files'[s.id][l + 1] = e
       /\ Range(files'[s.id]) = Range(q) \cup {e}
       /\ files'[s.id] # <<>>
  <2>1. /\ Append(q, e) \in Seq(Entry) /\ Len(Append(q, e)) = l + 1
        /\ \A k \in 1 .. l : Append(q, e)[k] = q[k]
        /\ Append(q, e)[l + 1] = e
    BY <1>3, <1>9, AppendProperties
  <2>2. DOMAIN Append(q, e) = 1 .. l + 1
    BY <2>1
  <2>3. Append(q, e) # <<>>
    BY <1>9, <2>1
  <2>4. QED
    BY <1>3, <1>9, <1>10, <2>1, <2>2, <2>3, RangeAppend
<1> HIDE DEF q, l
\* The record comes after all the others.
<1>12. \A d \in OnDisk : d.index < e.index /\ d.index \in Nat
  BY <1>1, <1>2, <1>3, <1>5 DEF AppendInv, Written
<1>13. \A f \in Used(files) : f <= s.id
  BY <1>4, <1>5 DEF IdsOf
<1>14. OnDisk' = OnDisk \cup {e}
  <2>1. ASSUME NEW d \in OnDisk PROVE d \in OnDisk'
    <3>1. PICK f \in DOMAIN files : d \in Range(files[f])
      BY OnDiskIs
    <3>2. d \in Range(files'[f])
      BY <1>10, <1>11, <3>1 DEF q
    <3>3. QED
      BY <1>10, <3>1, <3>2 DEF OnDisk
  <2>2. e \in OnDisk'
    BY <1>7, <1>10, <1>11 DEF OnDisk
  <2>3. ASSUME NEW d \in OnDisk' PROVE d \in OnDisk \cup {e}
    <3>1. PICK f \in DOMAIN files : d \in Range(files'[f])
      BY <1>10 DEF OnDisk
    <3>2. d \in Range(files[f]) \/ d = e
      BY <1>10, <1>11, <3>1 DEF q
    <3>3. QED
      BY <3>1, <3>2, OnDiskIs
  <2>4. QED
    BY <2>1, <2>2, <2>3
<1>15. Used(files') = Used(files) \cup {s.id}
  BY <1>7, <1>10, <1>11 DEF Used
<1>16. ASSUME NEW f \in DOMAIN files, NEW j \in DOMAIN files[f]
       PROVE  files[f][j] \in OnDisk /\ f \in Used(files)
  <2>1. files[f][j] \in Range(files[f])
    BY <1>2, RecordsAre
  <2>2. QED
    BY <1>2, <2>1, OnDiskIs, UsedIsRecord
<1>17. Ascending'
  <2> SUFFICES ASSUME NEW f \in DOMAIN files, NEW g \in DOMAIN files,
                      NEW j \in DOMAIN files'[f], NEW k \in DOMAIN files'[g],
                      f < g \/ (f = g /\ j < k)
               PROVE  files'[f][j].index < files'[g][k].index
    BY <1>10 DEF Ascending
  <2>1. f \in Nat /\ g \in Nat
    BY <1>2 DEF TypeInv
  <2>2. CASE g # s.id
    <3>1. files'[g] = files[g] /\ g \in Used(files)
      BY <1>10, <1>16, <2>2
    <3>2. f # s.id
      BY <1>7, <1>13, <2>1, <2>2, <3>1
    <3>3. QED
      BY <1>2, <1>10, <3>1, <3>2 DEF Ascending
  <2>3. CASE g = s.id /\ k = l + 1
    <3>1. files'[g][k] = e
      BY <1>11, <2>3
    <3>2. files'[f][j] \in OnDisk
      <4>1. CASE f = s.id
        <5>1. j \in 1 .. l
          BY <1>9, <1>11, <2>1, <2>3, <4>1
        <5>2. QED
          BY <1>9, <1>11, <4>1, <5>1
      <4>2. CASE f # s.id
        BY <1>10, <1>16, <4>2
      <4>3. QED
        BY <4>1, <4>2
    <3>3. QED
      BY <1>12, <3>1, <3>2
  <2>4. CASE g = s.id /\ k # l + 1
    <3>1. k \in 1 .. l
      BY <1>9, <1>11, <2>4
    <3>2. files'[g][k] = files[g][k] /\ k \in DOMAIN files[g]
      BY <1>9, <1>11, <2>4, <3>1 DEF q
    <3>3. files'[f][j] = files[f][j] /\ j \in DOMAIN files[f]
      <4>1. CASE f = s.id
        <5>1. j \in 1 .. l
          BY <1>9, <1>11, <2>1, <2>4, <3>1, <4>1
        <5>2. QED
          BY <1>9, <1>11, <4>1, <5>1 DEF q
      <4>2. CASE f # s.id
        BY <1>10, <4>2
      <4>3. QED
        BY <4>1, <4>2
    <3>4. QED
      BY <1>2, <3>2, <3>3 DEF Ascending
  <2>5. QED
    BY <2>2, <2>3, <2>4
\* It continues the file.
<1>18. ASSUME l >= 1 PROVE e.index = q[1].index + l
  <2>1. /\ q[l].index = s.last /\ q[1].index = s.first /\ q[l] \in OnDisk
        /\ 1 \in 1 .. l /\ l \in 1 .. l
    BY <1>4, <1>5, <1>9, <1>18 DEF Exact, q, l
  <2>2. q[l].index = q[1].index + l - 1
    BY <1>2, <1>7, <2>1 DEF RunInv, q, l
  <2>3. s.last + 1 \in q[l].index .. e.index
    BY <1>3, <1>7, <2>1
  <2>4. q[l] \in entries \cup batch
    BY <1>5, <2>1 DEF Written
  <2>5. PICK c \in entries \cup batch : c.index = s.last + 1
    BY <1>1, <1>2, <1>3, <2>3, <2>4 DEF AppendInv, Log, NoGap
  <2>6. CASE c \in todo
    BY <1>3, <1>7, <1>9, <2>1, <2>2, <2>5, <2>6
  <2>7. CASE c \notin todo
    <3>1. c \in OnDisk
      BY <1>5, <2>7 DEF Written
    <3>2. PICK f \in Used(files) : c \in Range(files[f])
      BY <1>2, <3>1, RecordIsUsed
    <3>3. PICK r \in work : r.id = f
      BY <1>5 DEF IdsOf
    <3>4. r.id \in DOMAIN files
      BY <3>3 DEF Used
    <3>5. c.index <= r.last
      BY <1>2, <1>5, <3>2, <3>3, <3>4, RecordsInRange
    <3>6. s.first <= s.last
      BY <1>7, <1>9, <1>18, <2>1, <2>2
    <3>7. r # s
      BY <1>7, <2>5, <3>5
    <3>8. r.id < s.id
      BY <1>3, <1>4, <1>5, <1>7, <3>7 DEF Ordered
    <3>9. r.last < s.first
      BY <1>4, <1>5, <3>8 DEF Ordered
    <3>10. QED
      BY <1>3, <1>7, <2>5, <3>5, <3>6, <3>9
  <2>8. QED
    BY <2>6, <2>7
<1>19. RunInv'
  <2> SUFFICES ASSUME NEW f \in DOMAIN files
               PROVE  /\ Len(files'[f]) <= SegmentRecords
                      /\ \A k \in 1 .. Len(files'[f]) :
                           files'[f][k].index = files'[f][1].index + k - 1
    BY <1>10 DEF RunInv
  <2>1. CASE f = s.id
    <3>1. Len(files'[f]) <= SegmentRecords
      BY <1>4, <1>9, <1>11, <2>1, Bounds DEF l
    <3>2. ASSUME NEW k \in 1 .. l + 1
          PROVE  files'[s.id][k].index = files'[s.id][1].index + k - 1
      <4>1. CASE l = 0
        <5>1. k = 1
          BY <4>1
        <5>2. files'[s.id][1].index = e.index
          BY <1>11, <4>1
        <5>3. QED
          BY <1>3, <5>1, <5>2
      <4>2. CASE l >= 1 /\ k = l + 1
        <5>1. 1 \in 1 .. l
          BY <1>9, <4>2
        <5>2. files'[s.id][k] = e /\ files'[s.id][1] = q[1] /\ q[1].index \in Nat
          BY <1>9, <1>11, <4>2, <5>1
        <5>3. QED
          BY <1>9, <1>18, <4>2, <5>2
      <4>3. CASE l >= 1 /\ k # l + 1
        <5>1. k \in 1 .. l /\ 1 \in 1 .. l
          BY <1>9, <4>3
        <5>2. q[k].index = q[1].index + k - 1
          BY <1>2, <1>7, <5>1 DEF RunInv, q, l
        <5>3. QED
          BY <1>11, <5>1, <5>2
      <4>4. QED
        BY <1>9, <4>1, <4>2, <4>3
    <3>3. QED
      BY <1>11, <2>1, <3>1, <3>2
  <2>2. CASE f # s.id
    BY <1>2, <1>10, <2>2 DEF RunInv
  <2>3. QED
    BY <2>1, <2>2
\* What has been written is not skipped over.
<1>20. NoGap(OnDisk')
  <2> SUFFICES ASSUME NEW d \in OnDisk \cup {e}, NEW c \in OnDisk \cup {e},
                      NEW i \in d.index .. c.index
               PROVE  \E b \in OnDisk \cup {e} : b.index = i
    BY <1>14 DEF NoGap
  <2>1. d \in entries \cup batch /\ c \in entries \cup batch
    BY <1>3, <1>5 DEF Written
  <2>2. PICK b \in entries \cup batch : b.index = i
    BY <1>1, <1>2, <2>1 DEF AppendInv, Log, NoGap
  <2>3. c.index <= e.index /\ c.index \in Nat /\ d.index \in Nat
    BY <1>3, <1>12
  <2>4. CASE b \in todo
    <3>1. e.index <= b.index
      BY <1>3, <2>4
    <3>2. e.index = i
      BY <1>3, <2>1, <2>2, <2>3, <3>1
    <3>3. QED
      BY <3>2
  <2>5. CASE b \notin todo
    BY <1>5, <2>2, <2>5 DEF Written
  <2>6. QED
    BY <2>4, <2>5
<1>21. QED
  BY <1>6, <1>14, <1>15, <1>17, <1>19, <1>20 DEF s

LEMMA AppendRecordData == ASSUME SafeInv, DataInv, AppendRecord PROVE DataInv'
<1> DEFINE e == FirstOf(todo)
           s == Latest(work)
           w == [s EXCEPT !.last = e.index]
           written == (work \ {s}) \cup {w}
           q == files[s.id]
           l == Len(files[s.id])
<1>1. /\ pc = "append" /\ ~NeedsSegment /\ ~Missing
      /\ files' = [files EXCEPT ![s.id] = Append(@, e)]
      /\ \/ /\ todo = {e} /\ pc' = "idle"
            /\ segments' = written /\ entries' = entries \cup batch
         \/ /\ todo # {e} /\ todo' = todo \ {e} /\ work' = written
            /\ UNCHANGED <<entries, pc, batch>>
      /\ UNCHANGED <<floor, raftLast, mirror, lost>>
  BY DEF AppendRecord, CanWrite, WriteRecord, memVars, logVars, Return
<1>2. TypeInv /\ AppendInv /\ Ascending /\ RunInv /\ RaftInv
  BY DEF SafeInv, DataInv
<1>3. /\ todo \subseteq batch /\ e \in todo /\ e \in Entry /\ e \in batch
      /\ \A d \in todo : e.index <= d.index
      /\ \A d \in entries \cup batch : d.index \in Nat
      /\ e.index \in Nat
      /\ \A r \in work : r.id \in Nat /\ r.first \in Nat /\ r.last \in Nat
      /\ work \in SUBSET Segment
  BY <1>1, AppendFacts
<1>present. Present(files, work)
  BY <1>1 DEF DataInv, FilesInv
<1>4. /\ fresh = FALSE /\ s \in work /\ \A r \in work : r.id <= s.id
      /\ l < SegmentRecords
  <2>1. fresh = FALSE /\ ~(l >= SegmentRecords)
    BY <1>1, <1>2 DEF NeedsSegment, TypeInv
  <2>2. s \in work /\ \A r \in work : r.id <= s.id
    BY <1>1, <1>2, <2>1, AppendFacts DEF AppendInv
  <2>3. l \in Nat
    BY <1>2, <1>present, <2>2, RecordsAre DEF Present
  <2>4. QED
    BY <2>1, <2>2, <2>3, Bounds
<1>5. /\ Used(files) \subseteq IdsOf(work) /\ Exact(files, work)
      /\ OnDisk = entries \cup Written /\ mirror = entries \cup batch
      /\ Ordered(work) /\ Present(files, work) /\ Held(files, Due, entries \cup Written, work)
      /\ lost = {}
  BY <1>1, <1>2 DEF DataInv, FilesInv, AppendInv
<1>6. e = FirstOf(todo)
  OBVIOUS
<1>data. /\ Ascending' /\ RunInv' /\ OnDisk' = OnDisk \cup {e}
         /\ Used(files') = Used(files) \cup {s.id}
  BY WriteRecordData DEF AppendRecord
<1> HIDE DEF e, s
<1>7. s.id \in DOMAIN files /\ s \in Segment /\ s.last < e.index /\ s.id \in Nat
      /\ s.first \in Nat /\ s.last \in Nat
  BY <1>1, <1>2, <1>3, <1>4, <1>present DEF AppendInv, Present
<1>8. w.id = s.id /\ w.first = s.first /\ w.last = e.index
  BY <1>7 DEF Segment
<1> HIDE DEF w
<1>9. /\ q \in Seq(Entry) /\ l \in Nat /\ DOMAIN q = 1 .. l
      /\ \A k \in 1 .. l : q[k].index \in Nat /\ q[k] \in OnDisk
      /\ q # <<>> <=> l >= 1
  BY <1>2, <1>7, RecordsAre, OnDiskIs
<1>10. /\ DOMAIN files' = DOMAIN files
       /\ \A f \in DOMAIN files : f # s.id => files'[f] = files[f]
       /\ files'[s.id] = Append(q, e)
  BY <1>1, <1>7
<1>11. /\ Len(files'[s.id]) = l + 1 /\ DOMAIN files'[s.id] = 1 .. l + 1
       /\ \A k \in 1 .. l : files'[s.id][k] = q[k]
       /\ files'[s.id][l + 1] = e
       /\ Range(files'[s.id]) = Range(q) \cup {e}
       /\ files'[s.id] # <<>>
  <2>1. /\ Append(q, e) \in Seq(Entry) /\ Len(Append(q, e)) = l + 1
        /\ \A k \in 1 .. l : Append(q, e)[k] = q[k]
        /\ Append(q, e)[l + 1] = e
    BY <1>3, <1>9, AppendProperties
  <2>2. DOMAIN Append(q, e) = 1 .. l + 1
    BY <2>1
  <2>3. Append(q, e) # <<>>
    BY <1>9, <2>1
  <2>4. QED
    BY <1>3, <1>9, <1>10, <2>1, <2>2, <2>3, RangeAppend
<1> HIDE DEF q, l
<1>20. RaftInv'
  BY <1>1, <1>2, SameRaft
<1>21. ASSUME NEW r \in work, Ends({r}, entries \cup Written) PROVE r.id \in Used(files)
  <2>1. entries \cup Written \in SUBSET Entry
    BY <1>2 DEF TypeInv, Written
  <2>2. QED
    BY <1>2, <1>5, <1>21, <2>1, HasRecord
<1>22. \A r \in written : r = w \/ (r \in work /\ r # s /\ r.id # s.id)
  BY <1>4, <1>5 DEF Ordered
<1>23. w \in written /\ \A r \in work : r # s => r \in written
  OBVIOUS
<1> HIDE DEF written
<1>24. IdsOf(written) = IdsOf(work)
  BY <1>4, <1>8, <1>22, <1>23 DEF IdsOf
<1>25. Exact(files', written)
  <2> SUFFICES ASSUME NEW r \in written
               PROVE  /\ files'[r.id][1].index = r.first \/ files'[r.id] = <<>>
                      /\ files'[r.id][Len(files'[r.id])].index = r.last \/ files'[r.id] = <<>>
    BY DEF Exact
  <2>1. CASE r = w
    <3>1. files'[s.id][1].index = s.first
      <4>1. CASE l = 0
        <5>1. s.id \notin Used(files)
          BY <1>9, <4>1 DEF Used, q
        <5>2. Blank(s)
          BY <1>1, <1>2, <1>4, <1>21, <5>1 DEF AppendInv
        <5>3. s.first = e.index
          BY <1>6, <5>2 DEF Blank
        <5>4. QED
          BY <1>11, <4>1, <5>3
      <4>2. CASE l >= 1
        <5>1. 1 \in 1 .. l
          BY <1>9, <4>2
        <5>2. QED
          BY <1>4, <1>5, <1>9, <1>11, <4>2, <5>1 DEF Exact, q
      <4>3. QED
        BY <1>9, <4>1, <4>2
    <3>2. QED
      BY <1>8, <1>11, <2>1, <3>1
  <2>2. CASE r # w
    <3>1. r \in work /\ r.id # s.id /\ r.id \in DOMAIN files
      BY <1>5, <1>22, <2>2 DEF Present
    <3>2. files'[r.id] = files[r.id]
      BY <1>10, <3>1
    <3>3. QED
      BY <1>5, <3>1, <3>2 DEF Exact
  <2>3. QED
    BY <2>1, <2>2
<1>present2. Present(files', written)
  BY <1>5, <1>7, <1>8, <1>10, <1>22 DEF Present
<1>26. CASE todo = {e} /\ pc' = "idle" /\ segments' = written /\ entries' = entries \cup batch
  <2>1. entries \cup Written \cup {e} = entries \cup batch
    BY <1>3, <1>26 DEF Written
  <2>2. Used(files') = IdsOf(segments')
    <3>1. \A r \in work : r # s => r.id \in Used(files)
      <4> SUFFICES ASSUME NEW r \in work, r # s PROVE r.id \in Used(files)
        OBVIOUS
      <4>1. ~Blank(r)
        <5>1. r.id # s.id
          BY <1>4, <1>5 DEF Ordered
        <5>2. ~(s.id <= r.id)
          BY <1>3, <1>4, <5>1
        <5>3. QED
          BY <1>4, <5>2 DEF Blank
      <4>2. QED
        BY <1>1, <1>2, <1>21, <4>1 DEF AppendInv
    <3>2. QED
      BY <1>4, <1>5, <1>data, <1>24, <1>26, <3>1 DEF IdsOf
  <2>3. FilesInv'
    BY <1>1, <1>5, <1>data, <1>25, <1>26, <2>1, <2>2 DEF FilesInv
  <2>4. QED
    BY <1>1, <1>5, <1>data, <1>20, <2>3 DEF DataInv
<1>27. CASE /\ todo # {e} /\ todo' = todo \ {e} /\ work' = written
            /\ UNCHANGED <<entries, pc, batch>>
  <2>1. Written' = Written \cup {e}
    BY <1>3, <1>27 DEF Written
  <2>2. Used(files') \subseteq IdsOf(work')
    BY <1>4, <1>5, <1>data, <1>24, <1>27 DEF IdsOf
  <2>3. FilesInv'
    BY <1>1, <1>5, <1>data, <1>25, <1>present2, <1>27, <2>1, <2>2 DEF FilesInv
  <2>4. QED
    BY <1>1, <1>5, <1>data, <1>20, <2>3 DEF DataInv
<1>28. QED
  BY <1>1, <1>26, <1>27

LEMMA RemoveFileData == ASSUME SafeInv, DataInv, RemoveFile PROVE DataInv'
<1> DEFINE x == Min(doomed)
<1>1. /\ pc \in {"remove", "drop"} /\ doomed # {}
      /\ files' = [g \in DOMAIN files \ {x} |-> files[g]] /\ doomed' = doomed \ {x}
      /\ UNCHANGED <<entries, pc, batch, keep, floor, raftLast, mirror, exposed, lost>>
  BY DEF RemoveFile, Remove, memVars, logVars, pastVars
<1>2. TypeInv /\ RemoveInv /\ DropInv /\ Ascending /\ RunInv /\ RaftInv /\ FilesInv
  BY DEF SafeInv, DataInv
<1>3. x \in doomed /\ x \in Nat /\ \A f \in doomed : x <= f /\ f \in Nat
  <2>1. doomed \in SUBSET Nat
    BY <1>2 DEF TypeInv
  <2>2. QED
    BY <1>1, <2>1, MinIsMin
<1> HIDE DEF x
<1>4. /\ DOMAIN files' = DOMAIN files \ {x}
      /\ \A f \in DOMAIN files' : files'[f] = files[f]
  BY <1>1
<1>5. /\ Used(files) = IdsOf(keep) \cup doomed /\ Exact(files, keep) /\ Present(files, keep)
      /\ \A s \in keep : s.id \notin doomed
  BY <1>1, <1>2 DEF FilesInv, RemoveInv, DropInv, Present, Used, IdsOf
<1>6. Used(files') = IdsOf(keep) \cup doomed'
  <2>1. Used(files') = Used(files) \ {x}
    BY <1>4 DEF Used
  <2>2. x \notin IdsOf(keep)
    BY <1>3, <1>5 DEF IdsOf
  <2>3. QED
    BY <1>1, <1>5, <2>1, <2>2
<1>7. \A s \in keep : s.id \in DOMAIN files' /\ files'[s.id] = files[s.id]
  BY <1>3, <1>4, <1>5 DEF Present
<1>8. Exact(files', keep)
  BY <1>5, <1>7 DEF Exact
<1>9. Ascending' /\ RunInv'
  BY <1>2, <1>4 DEF Ascending, RunInv
<1>10. RaftInv'
  BY <1>1, <1>2, SameRaft
<1>11. OnDisk' \subseteq OnDisk
  BY <1>4 DEF OnDisk
<1>12. CASE pc = "remove"
  <2>1. FilesInv'
    BY <1>1, <1>2, <1>6, <1>7, <1>8, <1>12 DEF FilesInv
  <2>2. QED
    BY <1>1, <1>9, <1>10, <2>1 DEF DataInv
<1>13. CASE pc = "drop"
  <2>1. /\ \A f \in doomed, s \in keep : f < s.id
        /\ OnDisk \subseteq entries /\ NoGap(OnDisk) /\ mirror = From(entries, floor)
    BY <1>2, <1>13 DEF FilesInv
  \* The file that goes is the first of those in use.
  <2>2. ASSUME NEW f \in Used(files), f # x PROVE x < f
    <3>1. CASE f \in doomed
      BY <1>3, <2>2, <3>1
    <3>2. CASE f \notin doomed
      <4>1. PICK s \in keep : s.id = f
        BY <1>5, <3>2 DEF IdsOf
      <4>2. QED
        BY <1>3, <2>1, <4>1
    <3>3. QED
      BY <3>1, <3>2
  <2>3. NoGap(OnDisk')
    <3> SUFFICES ASSUME NEW d \in OnDisk', NEW e \in OnDisk', NEW i \in d.index .. e.index
                 PROVE  \E c \in OnDisk' : c.index = i
      BY DEF NoGap
    <3>1. PICK c \in OnDisk : c.index = i
      BY <1>11, <2>1 DEF NoGap
    <3>2. PICK f \in Used(files) : c \in Range(files[f])
      BY <1>2, RecordIsUsed
    <3>3. PICK g \in DOMAIN files' : d \in Range(files'[g])
      BY DEF OnDisk
    <3>4. g \in DOMAIN files /\ g # x /\ d \in Range(files[g])
      BY <1>4, <3>3
    <3>5. f # x
      <4> SUFFICES ASSUME f = x PROVE FALSE
        OBVIOUS
      <4>1. f < g
        BY <1>2, <2>2, <3>4, UsedIsRecord
      <4>2. f \in DOMAIN files
        BY <3>2 DEF Used
      <4>3. PICK j \in DOMAIN files[f] : c = files[f][j] /\ c.index \in Nat
        BY <1>2, <3>2, <4>2, RecordsAre
      <4>4. PICK k \in DOMAIN files[g] : d = files[g][k] /\ d.index \in Nat
        BY <1>2, <3>4, RecordsAre
      <4>5. c.index < d.index
        BY <1>2, <3>4, <4>1, <4>2, <4>3, <4>4 DEF Ascending
      <4>6. QED
        BY <3>1, <4>3, <4>4, <4>5
    <3>6. c \in OnDisk'
      BY <1>4, <3>2, <3>5 DEF OnDisk, Used
    <3>7. QED
      BY <3>1, <3>6
  <2>4. FilesInv'
    BY <1>1, <1>6, <1>8, <1>11, <1>13, <2>1, <2>3 DEF FilesInv
  <2>5. QED
    BY <1>1, <1>9, <1>10, <2>4 DEF DataInv
<1>14. QED
  BY <1>1, <1>12, <1>13

LEMMA RewriteTailData == ASSUME SafeInv, DataInv, RewriteTail PROVE DataInv'
<1> DEFINE es == Below(entries, exposed)
<1>1. /\ pc = "remove" /\ doomed = {} /\ segments' = keep /\ entries' = es
      /\ \/ batch = {} /\ pc' = "idle"
         \/ pc' = "append" /\ todo' = batch /\ batch' = batch /\ work' = keep
      /\ UNCHANGED <<files, floor, raftLast, mirror>> /\ lost' = {} /\ lost = {}
  BY DEF RewriteTail, Write, Return, diskVars, fileVars, logVars, DataInv
<1>2. TypeInv /\ RemoveInv /\ Ascending /\ RunInv /\ RaftInv /\ FilesInv
  BY DEF SafeInv, DataInv
<1>3. /\ Used(files) = IdsOf(keep) /\ Exact(files, keep)
      /\ \A s \in keep : Range(files[s.id]) \subseteq es
      /\ mirror = es \cup batch
  BY <1>1, <1>2 DEF FilesInv
<1>4. Ascending' /\ RunInv' /\ OnDisk' = OnDisk
  BY <1>1, <1>2, SameFiles
<1>5. RaftInv'
  BY <1>1, <1>2, SameRaft
<1>6. OnDisk = es
  <2>1. es \subseteq OnDisk
    <3>1. \A e \in es : e.index \in Due => e \in OnDisk
      BY <1>1, <1>2, HeldIsOnDisk DEF RemoveInv
    <3>2. \A e \in es : e.index \in Due
      BY <1>1, <1>2, Bounds DEF TypeInv, Below, Due
    <3>3. QED
      BY <3>1, <3>2
  <2>2. ASSUME NEW e \in OnDisk PROVE e \in es
    <3>1. PICK f \in Used(files) : e \in Range(files[f])
      BY <1>2, RecordIsUsed
    <3>2. PICK s \in keep : s.id = f
      BY <1>3, <3>1 DEF IdsOf
    <3>3. QED
      BY <1>3, <3>1, <3>2
  <2>3. QED
    BY <2>1, <2>2
<1> HIDE DEF es
<1>7. FilesInv'
  <2>1. CASE batch = {} /\ pc' = "idle"
    BY <1>1, <1>3, <1>4, <1>6, <2>1 DEF FilesInv
  <2>2. CASE pc' = "append" /\ todo' = batch /\ batch' = batch /\ work' = keep
    <3>1. Written' = {} /\ Present(files, keep)
      BY <1>3, <2>2 DEF Written, Present, Used, IdsOf
    <3>2. QED
      BY <1>1, <1>3, <1>4, <1>6, <2>2, <3>1 DEF FilesInv
  <2>3. QED
    BY <1>1, <2>1, <2>2
<1>8. QED
  BY <1>1, <1>4, <1>5, <1>7 DEF DataInv

LEMMA TruncateBeginData ==
  ASSUME SafeInv, DataInv, NEW i \in Index, NEW ok, TruncateBegin(i, ok) PROVE DataInv'
<1>1. /\ pc = "idle" /\ floor' = i /\ raftLast' = Max({raftLast, i})
      /\ i \in floor + 1 .. MaxIndex /\ mirror' = From(mirror, i)
      /\ \/ /\ \A e \in entries : i <= e.index
            /\ UNCHANGED pc
         \/ pc' = "drop" /\ doomed' = IdsOf(segments \ Reaching(i)) /\ keep' = Reaching(i)
      /\ UNCHANGED <<files, entries, segments, lost>>
  BY DEF TruncateBegin, MirrorTruncated, fileVars, memVars, opVars, pastVars
<1>2. TypeInv /\ MemInv /\ Ascending /\ RunInv /\ RaftInv /\ FilesInv
  BY DEF SafeInv, DataInv
<1>3. i \in Nat /\ floor \in Nat /\ raftLast \in Nat /\ i > floor
      /\ \A e \in entries : e.index \in Nat
  <2>1. floor \in 0 .. MaxIndex /\ raftLast \in 0 .. MaxIndex /\ entries \in SUBSET Entry
    BY <1>2 DEF TypeInv
  <2>2. QED
    BY <1>1, <2>1, Bounds
<1>4. /\ Used(files) = IdsOf(segments) /\ Exact(files, segments)
      /\ OnDisk = entries /\ mirror = entries /\ Log(entries)
  BY <1>1, <1>2 DEF FilesInv, MemInv
<1>5. Ascending' /\ RunInv' /\ OnDisk' = OnDisk
  BY <1>1, <1>2, SameFiles
<1>6. /\ raftLast' \in {raftLast, i} /\ raftLast <= raftLast' /\ i <= raftLast'
  <2>1. CASE raftLast <= i
    <3>1. \A y \in {raftLast, i} : y <= i
      BY <1>3, <2>1
    <3>2. Max({raftLast, i}) = i
      BY <1>3, <3>1, MaxIsMax
    <3>3. QED
      BY <1>1, <1>3, <2>1, <3>2
  <2>2. CASE i <= raftLast
    <3>1. \A y \in {raftLast, i} : y <= raftLast
      BY <1>3, <2>2
    <3>2. Max({raftLast, i}) = raftLast
      BY <1>3, <3>1, MaxIsMax
    <3>3. QED
      BY <1>1, <1>3, <2>2, <3>2
  <2>3. QED
    BY <1>3, <2>1, <2>2
<1>7. /\ \A e \in mirror' : e \in entries /\ e.index >= i
      /\ \A e \in entries : e.index >= i => e \in mirror'
  BY <1>1, <1>4 DEF From
<1>8. RaftInv'
  <2>1. \A e \in mirror' : e.index <= raftLast'
    <3>1. \A e \in entries : e.index <= raftLast
      BY <1>1, <1>2, <1>4 DEF RaftInv
    <3>2. raftLast' \in Nat
      BY <1>3, <1>6
    <3>3. QED
      BY <1>3, <1>6, <1>7, <3>1, <3>2
  <2>2. ASSUME raftLast' # i PROVE \E e \in mirror' : e.index = raftLast'
    <3>1. raftLast' = raftLast /\ raftLast # floor
      BY <1>3, <1>6, <2>2
    <3>2. PICK e \in entries : e.index = raftLast
      BY <1>1, <1>2, <1>4, <3>1 DEF RaftInv
    <3>3. QED
      BY <1>6, <1>7, <3>1, <3>2
  <2>3. ASSUME NEW e \in mirror' PROVE \E d \in mirror' : d.index <= i + 1
    <3>1. PICK a \in entries : a.index <= floor + 1
      BY <1>1, <1>2, <1>4, <1>7 DEF RaftInv
    <3>2. e \in entries /\ i \in a.index .. e.index
      BY <1>3, <1>7, <3>1
    <3>3. PICK c \in entries : c.index = i
      BY <1>4, <3>2 DEF Log, NoGap
    <3>4. QED
      BY <1>3, <1>7, <3>3
  <2>4. QED
    BY <1>1, <1>6, <2>1, <2>2, <2>3 DEF RaftInv
<1>9. CASE (\A e \in entries : i <= e.index) /\ UNCHANGED pc
  <2>1. mirror' = entries
    BY <1>3, <1>7, <1>9
  <2>2. FilesInv'
    BY <1>1, <1>4, <1>5, <1>9, <2>1 DEF FilesInv
  <2>3. QED
    BY <1>1, <1>5, <1>8, <2>2 DEF DataInv
<1>10. CASE pc' = "drop" /\ doomed' = IdsOf(segments \ Reaching(i)) /\ keep' = Reaching(i)
  <2>1. /\ Reaching(i) \in SUBSET segments
        /\ \A r \in segments \ Reaching(i), s \in Reaching(i) : r.id < s.id
    BY <1>2, <1>3, ReachingIsTail DEF MemInv
  <2>2. Used(files) = IdsOf(Reaching(i)) \cup IdsOf(segments \ Reaching(i))
    BY <1>4, <2>1 DEF IdsOf
  <2>3. Exact(files, Reaching(i))
    BY <1>4, <2>1 DEF Exact
  <2>4. \A f \in doomed', s \in keep' : f < s.id
    BY <1>10, <2>1 DEF IdsOf
  <2>5. FilesInv'
    BY <1>1, <1>4, <1>5, <1>10, <2>2, <2>3, <2>4 DEF FilesInv, Log
  <2>6. QED
    BY <1>1, <1>5, <1>8, <2>5 DEF DataInv
<1>11. QED
  BY <1>1, <1>9, <1>10

LEMMA TruncateFinishData == ASSUME SafeInv, DataInv, NEW ok, TruncateFinish(ok) PROVE DataInv'
<1> DEFINE s == Oldest(keep)
           w == [s EXCEPT !.first = floor]
           es == From(entries, floor)
<1>1. /\ pc = "drop" /\ doomed = {} /\ entries' = es /\ pc' = "idle"
      /\ \/ /\ keep # {} /\ s.first < floor /\ segments' = (keep \ {s}) \cup {w}
            /\ files' = [f \in DOMAIN files \cup {s.id} |->
                           IF f = s.id THEN Between(entries, floor, s.last) ELSE files[f]]
         \/ /\ keep = {} \/ ~(s.first < floor)
            /\ segments' = keep /\ files' = files
      /\ UNCHANGED <<floor, raftLast, mirror, lost>>
  BY DEF TruncateFinish, RewriteSegment, Return, logVars, pastVars, fileVars
<1>2. /\ TypeInv /\ MemInv /\ DropInv /\ Ascending /\ RunInv /\ RaftInv /\ FilesInv
      /\ MemInv' /\ lost = {}
  BY TruncateFinishSafe DEF SafeInv, DataInv
<1>3. /\ Used(files) = IdsOf(keep) /\ Exact(files, keep) /\ OnDisk \subseteq entries
      /\ mirror = es
  BY <1>1, <1>2 DEF FilesInv
<1>4. /\ keep \in SUBSET segments /\ keep \in SUBSET Segment /\ Ordered(keep)
      /\ Present(files, keep)
      /\ \A r \in keep : /\ r.last >= floor /\ r.first <= r.last
                         /\ r.id \in Nat /\ r.first \in Nat /\ r.last \in Nat
                         /\ r.id \in DOMAIN files /\ files[r.id] # <<>>
                         /\ \E e \in entries : e.index = r.first
                         /\ \E e \in entries : e.index = r.last
  <2>1. keep \in SUBSET segments /\ Present(files, keep)
        /\ \A r \in keep : r.last >= floor
    BY <1>1, <1>2, <1>3 DEF DropInv, Present, Used, IdsOf
  <2>2. keep \in SUBSET Segment /\ Ordered(keep) /\ Ends(keep, entries)
    BY <1>2, <2>1 DEF MemInv, Ordered, Ends
  <2>3. \A r \in keep : r.id \in Nat /\ r.first \in Nat /\ r.last \in Nat
    BY <2>2, Bounds
  <2>4. \A r \in keep : r.id \in DOMAIN files /\ files[r.id] # <<>>
    BY <1>3 DEF Used, IdsOf
  <2>5. QED
    BY <2>1, <2>2, <2>3, <2>4 DEF Ends
<1>5. /\ entries \in SUBSET Entry /\ Log(entries) /\ \A e \in entries : e.index \in Nat
      /\ floor \in Nat /\ floor \in 0 .. MaxIndex /\ MaxIndex \in Nat
  BY <1>2, Bounds DEF TypeInv, MemInv
<1>6. \A e \in entries : e.index >= floor => e \in es
  BY DEF From
<1> HIDE DEF es
<1>7. keep # {} => s \in keep /\ \A r \in keep : s.id <= r.id
  BY <1>4, OldestIsOldest
<1> HIDE DEF s
<1>8. \A r \in keep : r = s \/ (keep # {} /\ s.id < r.id /\ s.last < r.first)
  <2> SUFFICES ASSUME NEW r \in keep, r # s PROVE s.id < r.id /\ s.last < r.first
    OBVIOUS
  <2>1. s \in keep /\ s.id <= r.id
    BY <1>7
  <2>2. s.id # r.id
    BY <1>4, <2>1 DEF Ordered
  <2>3. s.id < r.id
    BY <1>4, <2>1, <2>2
  <2>4. QED
    BY <1>4, <2>1, <2>3 DEF Ordered
<1>9. es \subseteq OnDisk'
  <2> SUFFICES ASSUME NEW e \in es PROVE e \in OnDisk'
    OBVIOUS
  <2>1. PICK r \in segments' : InFile(files', Due', e, r)
    BY <1>1, <1>2 DEF MemInv, Held
  <2>2. e.index \in Due'
    BY <1>1, <1>2, <1>5, Bounds DEF Due, es, From
  <2>3. r.id \in DOMAIN files' /\ e \in Range(files'[r.id])
    BY <2>1, <2>2 DEF InFile
  <2>4. QED
    BY <2>3 DEF OnDisk
<1>10. RaftInv'
  BY <1>1, <1>2, SameRaft
\* The records of a segment are in its index range.
<1>11. ASSUME NEW r \in keep, NEW e \in Range(files[r.id])
       PROVE  r.first <= e.index /\ e.index <= r.last /\ e \in entries
  BY <1>2, <1>3, <1>4, RecordsInRange, OnDiskIs
<1>12. CASE (keep = {} \/ ~(s.first < floor)) /\ segments' = keep /\ files' = files
  <2>1. Ascending' /\ RunInv' /\ OnDisk' = OnDisk
    BY <1>2, <1>12, SameFiles
  <2>2. ASSUME NEW e \in OnDisk PROVE e \in es
    <3>1. PICK f \in Used(files) : e \in Range(files[f])
      BY <1>2, RecordIsUsed
    <3>2. PICK r \in keep : r.id = f
      BY <1>3, <3>1 DEF IdsOf
    <3>3. r.first <= e.index /\ e \in entries
      BY <1>11, <3>1, <3>2
    <3>4. r.first >= floor
      BY <1>4, <1>5, <1>7, <1>8, <1>12
    <3>5. QED
      BY <1>4, <1>5, <1>6, <3>3, <3>4
  <2>3. OnDisk = es
    BY <1>9, <2>1, <2>2
  <2>4. FilesInv'
    BY <1>1, <1>3, <1>12, <2>1, <2>3 DEF FilesInv
  <2>5. QED
    BY <1>1, <1>2, <1>10, <2>1, <2>4 DEF DataInv
<1>13. CASE /\ keep # {} /\ s.first < floor /\ segments' = (keep \ {s}) \cup {w}
            /\ files' = [f \in DOMAIN files \cup {s.id} |->
                           IF f = s.id THEN Between(entries, floor, s.last) ELSE files[f]]
  <2> DEFINE q == Between(entries, floor, s.last)
             n == s.last - floor + 1
  <2>1. /\ s \in keep /\ s.id \in DOMAIN files /\ s \in Segment /\ s.id \in Nat
        /\ s.last >= floor /\ s.last \in Nat /\ s.first \in Nat /\ files[s.id] # <<>>
    BY <1>4, <1>7, <1>13
  <2>2. floor \in Index /\ s.last \in Index
    BY <1>5, <1>13, <2>1, Bounds
  <2>3. n \in Nat /\ n >= 1
    BY <1>5, <2>1
  <2>4. q \in Seq(Entry) /\ Range(q) = {e \in entries : floor <= e.index /\ e.index <= s.last}
        /\ Len(q) = n /\ \A k \in 1 .. n : q[k] \in entries /\ q[k].index = floor + k - 1
    <3>1. PICK a \in entries : a.index = s.first
      BY <1>4, <2>1
    <3>2. PICK z \in entries : z.index = s.last
      BY <1>4, <2>1
    <3>3. \E e \in entries : e.index <= floor
      BY <1>5, <1>13, <2>1, <3>1
    <3>4. \E e \in entries : e.index = s.last
      BY <3>2
    <3>5. floor <= s.last
      BY <1>5, <2>1
    <3>6. QED
      <4>1. entries \in SUBSET Entry /\ Log(entries)
        BY <1>5
      <4>2. /\ Between(entries, floor, s.last) \in Seq(Entry)
            /\ Len(Between(entries, floor, s.last)) = s.last - floor + 1
            /\ \A k \in 1 .. s.last - floor + 1 :
                 /\ Between(entries, floor, s.last)[k] \in entries
                 /\ Between(entries, floor, s.last)[k].index = floor + k - 1
            /\ Range(Between(entries, floor, s.last)) =
                 {e \in entries : floor <= e.index /\ e.index <= s.last}
        BY <2>2, <3>3, <3>4, <3>5, <4>1, BetweenIsRun
      <4>3. QED
        BY <4>2
  <2>5. DOMAIN q = 1 .. n /\ q # <<>>
    BY <2>3, <2>4
  <2> HIDE DEF q
  <2>6. /\ DOMAIN files' = DOMAIN files /\ files'[s.id] = q
        /\ \A f \in DOMAIN files : f # s.id => files'[f] = files[f]
    BY <1>13, <2>1 DEF q
  <2>7. w.id = s.id /\ w.first = floor /\ w.last = s.last
    BY <2>1 DEF Segment
  <2> HIDE DEF w
  <2>8. \A r \in segments' : r = w \/ (r \in keep /\ r # s /\ r.id # s.id /\ s.last < r.first)
    BY <1>4, <1>8, <1>13, <2>1
  <2>9. Used(files') = Used(files)
    BY <2>1, <2>5, <2>6 DEF Used
  <2>10. IdsOf(segments') = IdsOf(keep)
    <3>1. w \in segments' /\ \A r \in keep : r # s => r \in segments'
      BY <1>13
    <3>2. QED
      BY <2>1, <2>7, <2>8, <3>1 DEF IdsOf
  \* The records of the other files come after those of this one.
  <2>11. ASSUME NEW f \in DOMAIN files, f # s.id, NEW j \in DOMAIN files[f]
         PROVE  /\ s.id < f /\ s.last < files[f][j].index /\ files[f][j].index \in Nat
                /\ files[f][j] \in es
    <3>1. files[f][j] \in Range(files[f]) /\ files[f][j].index \in Nat
      BY <1>2, RecordsAre
    <3>2. f \in Used(files)
      BY <1>2, <3>1, UsedIsRecord
    <3>3. PICK r \in keep : r.id = f
      BY <1>3, <3>2 DEF IdsOf
    <3>4. s.id < f /\ s.last < r.first
      BY <1>8, <2>11, <3>3
    <3>5. r.first <= files[f][j].index /\ files[f][j] \in entries
      BY <1>11, <3>1, <3>3
    <3>6. s.last < files[f][j].index /\ files[f][j].index >= floor
      BY <1>4, <1>5, <2>1, <3>1, <3>3, <3>4, <3>5
    <3>7. QED
      BY <1>6, <3>1, <3>4, <3>5, <3>6
  <2>12. \A k \in 1 .. n : q[k].index \in Nat /\ q[k].index <= s.last /\ floor <= q[k].index
    BY <1>5, <2>1, <2>4
  <2>13. Ascending'
    <3> SUFFICES ASSUME NEW f \in DOMAIN files, NEW g \in DOMAIN files,
                        NEW j \in DOMAIN files'[f], NEW k \in DOMAIN files'[g],
                        f < g \/ (f = g /\ j < k)
                 PROVE  files'[f][j].index < files'[g][k].index
      BY <2>6 DEF Ascending
    <3>1. f \in Nat /\ g \in Nat
      BY <1>2 DEF TypeInv
    <3>2. CASE f = s.id /\ g = s.id
      <4>1. j < k
        BY <3>1, <3>2
      <4>2. j \in 1 .. n /\ k \in 1 .. n
        <5>1. DOMAIN files'[f] = 1 .. n /\ DOMAIN files'[g] = 1 .. n
          BY <2>5, <2>6, <3>2
        <5>2. QED
          BY <5>1
      <4>3. q[j].index = floor + j - 1 /\ q[k].index = floor + k - 1
        BY <2>4, <4>2
      <4>4. QED
        BY <1>5, <2>6, <3>2, <4>1, <4>2, <4>3
    <3>3. CASE f = s.id /\ g # s.id
      <4>1. j \in 1 .. n /\ files'[f][j] = q[j]
        BY <2>5, <2>6, <3>3
      <4>2. files'[g][k] = files[g][k] /\ k \in DOMAIN files[g]
        BY <2>6, <3>3
      <4>3. s.last < files[g][k].index /\ files[g][k].index \in Nat
        BY <2>11, <3>3, <4>2
      <4>4. QED
        BY <2>1, <2>12, <4>1, <4>2, <4>3
    <3>4. CASE f # s.id /\ g = s.id
      <4>1. s.id < f
        BY <2>6, <2>11, <3>4
      <4>2. QED
        BY <2>1, <3>1, <3>4, <4>1
    <3>5. CASE f # s.id /\ g # s.id
      BY <1>2, <2>6, <3>5 DEF Ascending
    <3>6. QED
      BY <3>2, <3>3, <3>4, <3>5
  <2>14. RunInv'
    <3> SUFFICES ASSUME NEW f \in DOMAIN files
                 PROVE  /\ Len(files'[f]) <= SegmentRecords
                        /\ \A k \in 1 .. Len(files'[f]) :
                             files'[f][k].index = files'[f][1].index + k - 1
      BY <2>6 DEF RunInv
    <3>1. CASE f = s.id
      <4>1. n <= SegmentRecords
        <5>1. /\ Len(files[s.id]) \in Nat /\ Len(files[s.id]) >= 1
              /\ Len(files[s.id]) <= SegmentRecords
          BY <1>2, <2>1, RecordsAre DEF RunInv
        <5>2. files[s.id][1].index = s.first
              /\ files[s.id][Len(files[s.id])].index = s.last
          BY <1>3, <2>1 DEF Exact
        <5>3. Len(files[s.id]) \in 1 .. Len(files[s.id])
          BY <5>1
        <5>4. s.last = s.first + Len(files[s.id]) - 1
          BY <1>2, <2>1, <5>2, <5>3 DEF RunInv
        <5>5. QED
          BY <1>5, <1>13, <2>1, <5>1, <5>4, Bounds
      <4>2. 1 \in 1 .. n
        BY <2>3
      <4>3. q[1].index = floor
        BY <1>5, <2>4, <4>2
      <4>4. QED
        BY <2>4, <2>6, <3>1, <4>1, <4>3
    <3>2. CASE f # s.id
      BY <1>2, <2>6, <3>2 DEF RunInv
    <3>3. QED
      BY <3>1, <3>2
  <2>15. Exact(files', segments')
    <3> SUFFICES ASSUME NEW r \in segments', files'[r.id] # <<>>
                 PROVE  /\ files'[r.id][1].index = r.first
                        /\ files'[r.id][Len(files'[r.id])].index = r.last
      BY DEF Exact
    <3>1. CASE r = w
      <4>1. 1 \in 1 .. n /\ n \in 1 .. n
        BY <2>3
      <4>2. q[1].index = floor
        BY <1>5, <2>4, <4>1
      <4>3. q[n].index = floor + n - 1
        BY <2>4, <4>1
      <4>4. floor + n - 1 = s.last
        BY <1>5, <2>1
      <4>5. QED
        BY <2>4, <2>6, <2>7, <3>1, <4>2, <4>3, <4>4
    <3>2. CASE r # w
      <4>1. r \in keep /\ r.id # s.id /\ r.id \in DOMAIN files
        BY <1>4, <2>8, <3>2
      <4>2. files'[r.id] = files[r.id]
        BY <2>6, <4>1
      <4>3. QED
        BY <1>3, <3>2, <4>1, <4>2 DEF Exact
    <3>3. QED
      BY <3>1, <3>2
  <2>16. OnDisk' = es
    <3>1. ASSUME NEW e \in OnDisk' PROVE e \in es
      <4>1. PICK f \in DOMAIN files : e \in Range(files'[f])
        BY <2>6 DEF OnDisk
      <4>2. CASE f = s.id
        BY <1>5, <1>6, <2>4, <2>6, <4>1, <4>2
      <4>3. CASE f # s.id
        <5>1. PICK j \in DOMAIN files[f] : e = files[f][j]
          BY <1>2, <2>6, <4>1, <4>3, RecordsAre
        <5>2. QED
          BY <2>11, <4>3, <5>1
      <4>4. QED
        BY <4>2, <4>3
    <3>2. QED
      BY <1>9, <3>1
  <2>17. FilesInv'
    BY <1>1, <1>3, <2>9, <2>10, <2>15, <2>16 DEF FilesInv
  <2>18. QED
    BY <1>1, <1>2, <1>10, <2>13, <2>14, <2>17 DEF DataInv
<1>14. QED
  BY <1>1, <1>12, <1>13

LEMMA CrashData == ASSUME SafeInv, DataInv, Crash PROVE DataInv'
<1>1. pc # "closed" /\ pc' = "closed" /\ BreaksOff /\ UNCHANGED <<exposed, lost>>
  BY DEF Crash, pastVars
<1>2. TypeInv /\ FilesInv
  BY DEF SafeInv, DataInv
<1>3. RaftInv'
  BY <1>1 DEF RaftInv
<1>4. CASE CanWrite /\ WriteRecord(Latest(work).id)
  BY <1>1, <1>3, <1>4, WriteRecordData DEF DataInv, FilesInv
<1>5. CASE files' = files
  <2>1. Ascending' /\ RunInv' /\ OnDisk' = OnDisk
    BY <1>5, SameFiles DEF DataInv
  <2>2. ASSUME exposed = None PROVE NoGap(OnDisk)
    <3>1. CASE pc = "idle"
      BY <1>2, <3>1 DEF FilesInv, SafeInv, MemInv, Log
    <3>2. CASE pc = "append"
      BY <1>2, <3>2, WrittenIsLog DEF FilesInv
    <3>3. CASE pc = "remove"
      BY <2>2, <3>3, Bounds DEF SafeInv, RemoveInv
    <3>4. CASE pc = "drop"
      BY <1>2, <3>4 DEF FilesInv
    <3>5. QED
      BY <1>1, <1>2, <3>1, <3>2, <3>3, <3>4 DEF TypeInv
  <2>3. FilesInv'
    BY <1>1, <2>1, <2>2 DEF FilesInv
  <2>4. QED
    BY <1>1, <1>3, <2>1, <2>3 DEF DataInv
<1>6. QED
  BY <1>1, <1>4, <1>5 DEF BreaksOff, TearRecord, fileVars

LEMMA StutterData == ASSUME DataInv, UNCHANGED <<files, memVars, opVars, floor, raftLast, mirror,
                                                 exposed, lost>>
                     PROVE  DataInv'
<1>1. UNCHANGED <<files, entries, segments, pc, todo, batch, work, doomed, keep, floor, raftLast,
                  mirror, exposed, lost>>
  BY DEF opVars, memVars
<1>2. Ascending' /\ RunInv' /\ OnDisk' = OnDisk
  BY <1>1, SameFiles DEF DataInv
<1>3. RaftInv'
  BY <1>1 DEF DataInv, RaftInv
<1>4. FilesInv'
  BY <1>1, <1>2 DEF DataInv, FilesInv, Written
<1>5. QED
  BY <1>1, <1>2, <1>3, <1>4 DEF DataInv

\* No step takes an error back.
LEMMA OnceSound == ASSUME SafeInv, [Next]_vars, Sound' PROVE Sound
<1>1. faults \in Nat
  BY Bounds DEF SafeInv, TypeInv
<1>2. (refused' = refused \/ refused' = TRUE) /\ (faults' = faults \/ faults' = faults + 1)
  <2>1. CASE \/ Open \/ CreateSegment \/ AppendRecord \/ RemoveFile \/ RewriteTail \/ Crash
             \/ WriteFails \/ ReplaceFails \/ UNCHANGED vars
    BY <2>1 DEF Open, CreateSegment, AppendRecord, RemoveFile, Remove, RewriteTail, Crash,
                WriteFails, ReplaceFails, Fault, vars, pastVars
  <2>2. ASSUME NEW ok, NEW t, PersistState(t, ok) PROVE faults' = faults \/ faults' = faults + 1
    BY <2>2 DEF PersistState, Fault
  <2>3. ASSUME NEW ok, Sync(ok) \/ (\E t \in 1 .. MaxTerm : AppendState(t, ok)) \/ TruncateFinish(ok)
        PROVE  refused' = refused /\ (faults' = faults \/ faults' = faults + 1)
    BY <2>2, <2>3 DEF Sync, AppendState, TruncateFinish, pastVars
  <2>4. ASSUME NEW ok, NEW i, NEW n, NEW t, AppendBegin(i, n, t, ok)
        PROVE  (refused' = refused \/ refused' = TRUE) /\ (faults' = faults \/ faults' = faults + 1)
    BY <2>2, <2>4 DEF AppendBegin, AppendNext, AppendGap, AppendOverlap
  <2>5. ASSUME NEW ok, NEW i, TruncateBegin(i, ok)
        PROVE  refused' = refused /\ (faults' = faults \/ faults' = faults + 1)
    BY <2>2, <2>5 DEF TruncateBegin, pastVars
  <2>6. QED
    BY <2>1, <2>3, <2>4, <2>5 DEF Next
<1>3. QED
  BY <1>1, <1>2 DEF Sound

\* Those that leave HardState alone.
LEMMA SameState ==
  ASSUME StateInv, pc # "closed", UNCHANGED <<state, term, mirrorState>>
  PROVE  StateInv'
BY DEF StateInv

\* Those that write it.
LEMMA NewState ==
  ASSUME SafeInv, NEW t, NEW ok, PersistState(t, ok), Sound', term' = t,
         mirrorState' \in {0, t}
  PROVE  StateInv'
BY SoundWrites DEF StateInv

LEMMA NextSound == ASSUME SafeInv, SoundInv, [Next]_vars PROVE SoundInv'
<1> SUFFICES ASSUME Sound' PROVE DataInv' /\ StateInv'
  BY DEF SoundInv
<1> DataInv /\ StateInv
  BY OnceSound DEF SoundInv
<1>1. CASE Open
  BY <1>1, OpenData DEF Open, StateInv, diskVars
<1>2. CASE \E ok \in BOOLEAN : Sync(ok)
  <2>1. PICK ok \in BOOLEAN : Sync(ok)
    BY <1>2
  <2>2. DataInv'
    BY <2>1, StutterData DEF Sync, fileVars, logVars, pastVars
  <2>3. pc # "closed" /\ PersistState(term, ok) /\ UNCHANGED <<term, mirrorState>>
    BY <2>1 DEF Sync, logVars
  <2>4. state' = term
    BY <2>3, SoundWrites
  <2>5. StateInv'
    BY <2>3, <2>4 DEF StateInv
  <2>6. QED
    BY <2>2, <2>5
<1>3. CASE \E ok \in BOOLEAN, t \in 1 .. MaxTerm : AppendState(t, ok)
  <2>1. PICK ok \in BOOLEAN, t \in 1 .. MaxTerm : AppendState(t, ok)
    BY <1>3
  <2>2. DataInv'
    BY <2>1, StutterData DEF AppendState, fileVars, pastVars
  <2>3. StateInv'
    BY <2>1, NewState DEF AppendState, HardState
  <2>4. QED
    BY <2>2, <2>3
<1>4. CASE \E ok \in BOOLEAN, i \in Index, n \in 1 .. MaxBatch, t \in 1 .. MaxTerm :
             AppendBegin(i, n, t, ok)
  BY <1>4, AppendBeginData
<1>5. CASE CreateSegment
  BY <1>5, CreateSegmentData, SameState DEF CreateSegment, logVars
<1>6. CASE AppendRecord
  BY <1>6, AppendRecordData, SameState DEF AppendRecord, CanWrite, logVars
<1>7. CASE RemoveFile
  BY <1>7, RemoveFileData, SameState DEF RemoveFile, Remove, logVars
<1>8. CASE RewriteTail
  BY <1>8, RewriteTailData, SameState DEF RewriteTail, diskVars, logVars
<1>9. CASE \E ok \in BOOLEAN, i \in Index : TruncateBegin(i, ok)
  <2>1. PICK ok \in BOOLEAN, i \in Index : TruncateBegin(i, ok)
    BY <1>9
  <2>2. /\ pc # "closed" /\ UNCHANGED <<term, mirrorState>>
        /\ PersistState(term, ok) \/ UNCHANGED state
    BY <2>1 DEF TruncateBegin
  <2>3. state' = term
    BY <2>2, SoundWrites DEF StateInv
  <2>4. StateInv'
    BY <2>2, <2>3 DEF StateInv
  <2>5. QED
    BY <2>1, <2>4, TruncateBeginData
<1>10. CASE \E ok \in BOOLEAN : TruncateFinish(ok)
  <2>1. PICK ok \in BOOLEAN : TruncateFinish(ok)
    BY <1>10
  <2>2. pc # "closed" /\ PersistState(term, ok) /\ UNCHANGED <<term, mirrorState>>
    BY <2>1 DEF TruncateFinish, logVars
  <2>3. state' = term
    BY <2>2, SoundWrites
  <2>4. StateInv'
    BY <2>2, <2>3 DEF StateInv
  <2>5. QED
    BY <2>1, <2>4, TruncateFinishData
<1>11. CASE WriteFails \/ ReplaceFails
  <2>1. faults \in Nat /\ (faults' = faults + 1 \/ refused' = TRUE)
    BY <1>11, Bounds DEF WriteFails, ReplaceFails, Fault, SafeInv, TypeInv
  <2>2. QED
    BY <2>1 DEF Sound
<1>12. CASE Crash
  BY <1>12, CrashData DEF Crash, StateInv
<1>13. CASE UNCHANGED vars
  BY <1>13, StutterData DEF vars, diskVars, fileVars, memVars, logVars, pastVars, StateInv, opVars
<1>14. QED
  BY <1>1, <1>2, <1>3, <1>4, <1>5, <1>6, <1>7, <1>8, <1>9, <1>10, <1>11, <1>12, <1>13 DEF Next

LEMMA SpecSound == Spec => [](SafeInv /\ SoundInv)
<1>1. Init => SafeInv /\ SoundInv
  BY InitSafe, InitSound
<1>2. SafeInv /\ SoundInv /\ [Next]_vars => SafeInv' /\ SoundInv'
  BY NextSafe, NextSound
<1>3. QED
  BY <1>1, <1>2, PTL DEF Spec

-----------------------------------------------------------------------------

LEMMA SoundIsContiguous == SafeInv /\ SoundInv => LoadIsContiguous
<1> SUFFICES ASSUME SafeInv, SoundInv, Sound, exposed = None PROVE Ascending /\ NoGap(OnDisk)
  BY DEF LoadIsContiguous, OneLog
<1>1. Ascending /\ FilesInv /\ TypeInv
  BY DEF SoundInv, DataInv, SafeInv
<1>2. CASE pc = "closed"
  BY <1>1, <1>2 DEF FilesInv
<1>3. CASE pc = "idle"
  BY <1>1, <1>3 DEF FilesInv, SafeInv, MemInv, Log
<1>4. CASE pc = "append"
  BY <1>1, <1>4, WrittenIsLog DEF FilesInv
<1>5. CASE pc = "remove"
  BY <1>5, Bounds DEF SafeInv, RemoveInv
<1>6. CASE pc = "drop"
  BY <1>1, <1>6 DEF FilesInv
<1>7. QED
  BY <1>1, <1>2, <1>3, <1>4, <1>5, <1>6 DEF TypeInv

LEMMA SoundMatches == SafeInv /\ SoundInv => SegmentsMatchFiles /\ MirrorsMemoryWAL
<1> SUFFICES ASSUME SafeInv, SoundInv, Sound, pc = "idle"
             PROVE  /\ segments = LoadedSegments /\ entries = OnDisk
                    /\ \A f \in DOMAIN files : Len(files[f]) <= SegmentRecords
                    /\ entries = mirror /\ (mirrorState # 0 => mirrorState = state)
  BY DEF SegmentsMatchFiles, MirrorsMemoryWAL
<1>1. /\ TypeInv /\ RunInv /\ Used(files) = IdsOf(segments) /\ Exact(files, segments)
      /\ OnDisk = entries /\ mirror = entries /\ mirrorState \in {0, state}
  BY DEF SoundInv, DataInv, SafeInv, FilesInv, StateInv
<1>2. segments \in SUBSET Segment
  BY DEF SafeInv, MemInv, Ordered
<1>3. \A s \in segments : /\ s.id \in Used(files)
                          /\ s.first = files[s.id][1].index
                          /\ s.last = files[s.id][Len(files[s.id])].index
  BY <1>1 DEF Used, IdsOf, Exact
<1>4. \A f \in Used(files) : \E s \in segments : s.id = f
  BY <1>1 DEF IdsOf
<1>5. \A r, s \in Segment : r.id = s.id /\ r.first = s.first /\ r.last = s.last => r = s
  BY DEF Segment
<1>6. segments \subseteq LoadedSegments
  <2> SUFFICES ASSUME NEW s \in segments PROVE s \in LoadedSegments
    OBVIOUS
  <2>1. PICK r \in LoadedSegments : r.id = s.id
    BY <1>1, <1>3, LoadedSegmentsAre DEF Used
  <2>2. r = s
    BY <1>1, <1>2, <1>3, <1>5, <2>1, LoadedSegmentsAre
  <2>3. QED
    BY <2>1, <2>2
<1>7. LoadedSegments \subseteq segments
  <2> SUFFICES ASSUME NEW r \in LoadedSegments PROVE r \in segments
    OBVIOUS
  <2>1. /\ r \in Segment /\ r.id \in Used(files) /\ r.first = files[r.id][1].index
        /\ r.last = files[r.id][Len(files[r.id])].index
    BY <1>1, LoadedSegmentsAre DEF Used
  <2>2. PICK s \in segments : s.id = r.id
    BY <1>4, <2>1
  <2>3. r = s
    BY <1>2, <1>3, <1>5, <2>1, <2>2
  <2>4. QED
    BY <2>2, <2>3
<1>8. QED
  BY <1>1, <1>6, <1>7 DEF RunInv

\* As long as no call has returned an error, the files, read in the order of their
\* numbers, are one log without gap or repetition at every step outside rewriteTail
\* (wal.go:337-365, 255-259).
THEOREM LoadIsContiguousAlways == Spec => []LoadIsContiguous
BY SpecSound, SoundIsContiguous, PTL

\* As long as no call has returned an error, the segments and the entries in memory
\* are those of the files between two calls, and no segment is overfull
\* (wal.go:241-287, 475-529).
THEOREM SegmentsMatchFilesAlways == Spec => []SegmentsMatchFiles
BY SpecSound, SoundMatches, PTL

\* As long as no call has returned an error, FileWAL and MemoryWAL hold the same
\* entries after the same calls, and the same HardState unless MemoryWAL has
\* forgotten its own (memory.go:11-20, 58).
THEOREM MirrorsMemoryWALAlways == Spec => []MirrorsMemoryWAL
BY SpecSound, SoundMatches, PTL

=============================================================================
