-------------------------- MODULE FolderSyncProofs --------------------------
(***************************************************************************)
(* What FolderSync shows for every mailbox size, every bound on faults and *)
(* every set of messages the server describes badly: types, left-out       *)
(* messages, numberings and flags first; then what a walk still owes, with *)
(* which nothing is skipped, no row leaves without cause and an expunge    *)
(* shows in the count.                                                     *)
(***************************************************************************)
EXTENDS FolderSync, FiniteSetTheorems, WellFoundedInduction, TLAPS

-----------------------------------------------------------------------------
(* Sets of UIDs *)

\* A nonempty set of naturals has a least element.
LEMMA LeastNatural ==
    ASSUME NEW S \in SUBSET Nat, S # {}
    PROVE  \E x \in S : \A y \in S : x <= y
<1> DEFINE R == OpToRel(<, Nat)
<1>1. IsWellFoundedOn(R, Nat)
  BY NatLessThanWellFounded
<1>2. \E x \in S : \A y \in S : ~(<<y, x>> \in R)
  BY <1>1, WFMin
<1>3. R = {p \in Nat \X Nat : p[1] < p[2]}
  BY DEF OpToRel
<1> HIDE DEF R
<1>4. PICK x \in S : \A y \in S : ~(<<y, x>> \in R)
  BY <1>2
<1>5. ASSUME NEW y \in S PROVE x <= y
  <2>1. <<y, x>> \notin R /\ x \in Nat /\ y \in Nat
    BY <1>4
  <2>2. ~(y < x)
    BY <2>1, <1>3
  <2> QED
    BY <2>1, <2>2
<1> QED
  BY <1>5

\* The set of UIDs is finite, and so is every part of it.
LEMMA UidsFinite ==
    ASSUME NEW S \in SUBSET Uids
    PROVE  IsFiniteSet(S) /\ Cardinality(S) \in Nat
<1>1. IsFiniteSet(Uids)
  BY FS_Interval, BoundsAssumption DEF Uids
<1> QED
  BY <1>1, FS_Subset, FS_CardinalityType

\* A nonempty set of UIDs has a lowest and a highest one.
LEMMA UidRange ==
    ASSUME NEW S \in SUBSET Uids, S # {}
    PROVE  /\ Min(S) \in S /\ \A u \in S : Min(S) <= u
           /\ Max(S) \in S /\ \A u \in S : u <= Max(S)
<1>1. S \subseteq Nat /\ MaxUid \in Nat
  BY BoundsAssumption DEF Uids
<1>2. \E x \in S : \A y \in S : x <= y
  BY <1>1, LeastNatural
<1>3. \E x \in S : \A y \in S : x >= y
  <2> DEFINE T == {MaxUid - u : u \in S}
  <2>1. T \in SUBSET Nat /\ T # {}
    <3>1. \A u \in S : MaxUid - u \in Nat
      BY <1>1 DEF Uids
    <3> QED
      BY <3>1
  <2>2. PICK t \in T : \A y \in T : t <= y
    BY <2>1, LeastNatural
  <2>3. PICK x \in S : t = MaxUid - x
    BY <2>2
  <2>4. ASSUME NEW y \in S PROVE x >= y
    <3>1. MaxUid - y \in T
      OBVIOUS
    <3>2. MaxUid - x <= MaxUid - y
      BY <2>2, <2>3, <3>1
    <3> QED
      BY <3>2, <1>1
  <2> QED
    BY <2>4
<1> QED
  BY <1>1, <1>2, <1>3 DEF Min, Max

-----------------------------------------------------------------------------
(* The operators of a walk keep its type. *)

\* Part of a set of UIDs is a set of UIDs.
LEMMA PartType ==
    ASSUME NEW S \in SUBSET Uids, NEW n
    PROVE  Lowest(S, n) \in SUBSET S /\ Highest(S, n) \in SUBSET S
  BY DEF Lowest, Highest

\* A slice put on a walk.
LEMMA PutType ==
    ASSUME NEW w \in Walks, NEW slice \in Slices
    PROVE  /\ Put(w, slice) \in Walks
           /\ Put(w, slice).validity = w.validity /\ Put(w, slice).walk = w.walk
<1>1. Append(w.narrowed, slice) \in Seq(Slices)
  BY DEF Walks
<1>2. Put(w, slice) = [w EXCEPT !.narrowed = Append(w.narrowed, slice)]
  BY DEF Put
<1> QED
  BY <1>1, <1>2 DEF Walks

\* The next slice of a walk and the walk without it.
LEMMA SliceType ==
    ASSUME NEW w \in Walks
    PROVE  /\ NextSlice(w) \in Slices
           /\ Taken(w) \in Walks /\ Taken(w).validity = w.validity
           /\ Taken(w).walk = w.walk
<1>1. CASE w.narrowed # <<>>
  <2>1. w.narrowed \in Seq(Slices)
    BY DEF Walks
  <2>2. Len(w.narrowed) \in Nat /\ Len(w.narrowed) >= 1
        /\ w.narrowed[Len(w.narrowed)] \in Slices
    BY <1>1, <2>1
  <2>3. SubSeq(w.narrowed, 1, Len(w.narrowed) - 1) \in Seq(Slices)
    BY <2>1, <2>2
  <2>4. Taken(w) = [w EXCEPT !.narrowed = SubSeq(w.narrowed, 1, Len(w.narrowed) - 1)]
    BY <1>1 DEF Taken
  <2> QED
    BY <1>1, <2>2, <2>3, <2>4 DEF NextSlice, Walks
<1>2. CASE w.narrowed = <<>>
  <2>1. NextSlice(w) \in Slices
    BY <1>2, PartType DEF NextSlice, Slices, Walks
  <2> QED
    BY <1>2, <2>1 DEF Taken, Walks
<1> QED
  BY <1>1, <1>2

\* Narrowing keeps the walk's type, numbering and direction.
LEMMA NarrowType ==
    ASSUME NEW w \in Walks, NEW slice \in Slices
    PROVE  /\ Narrow(w, slice) \in Walks
           /\ Narrow(w, slice).validity = w.validity
           /\ Narrow(w, slice).walk = w.walk
<1> DEFINE spent == [w EXCEPT !.budget = @ - 1]
           lower == Lowest(slice.uids, Cardinality(slice.uids) \div 2)
           Half(uids) == [slice EXCEPT !.uids = uids]
<1>1. CASE w.budget = 0
  BY <1>1, PutType DEF Narrow, LeavesOut
<1>2. CASE w.budget # 0
  <2>1. /\ spent \in Walks /\ spent.validity = w.validity /\ spent.walk = w.walk
        /\ w.budget > 0
    BY <1>2 DEF Walks
  <2>2. Half(lower) \in Slices /\ Half(slice.uids \ lower) \in Slices
    BY PartType DEF Slices
  <2>3. [slice EXCEPT !.structure = FALSE] \in Slices
    BY DEF Slices
  <2>4. \A s, t \in Slices :
           /\ Put(Put(spent, s), t) \in Walks /\ Put(spent, s) \in Walks
           /\ Put(Put(spent, s), t).validity = w.validity
           /\ Put(Put(spent, s), t).walk = w.walk
           /\ Put(spent, s).validity = w.validity /\ Put(spent, s).walk = w.walk
    <3> HIDE DEF spent
    <3> TAKE s, t \in Slices
    <3>1. /\ Put(spent, s) \in Walks
          /\ Put(spent, s).validity = w.validity /\ Put(spent, s).walk = w.walk
      BY <2>1, PutType
    <3> DEFINE one == Put(spent, s)
    <3>2. one \in Walks
      BY <3>1
    <3> HIDE DEF one
    <3>3. /\ Put(one, t) \in Walks
          /\ Put(one, t).validity = one.validity /\ Put(one, t).walk = one.walk
      BY <3>2, PutType
    <3> QED
      BY <3>1, <3>3 DEF one
  <2>5. Narrow(w, slice) \in
           {Put(Put(spent, Half(lower)), Half(slice.uids \ lower)),
            Put(Put(spent, Half(slice.uids \ lower)), Half(lower)),
            spent, Put(spent, [slice EXCEPT !.structure = FALSE])}
    BY <1>2, <2>1 DEF Narrow, LeavesOut
  <2> HIDE DEF spent, lower, Half
  <2> QED
    BY <2>1, <2>2, <2>3, <2>4, <2>5
<1> QED
  BY <1>1, <1>2

\* A batch built from the mailbox is one the store can take, and what it
\* brings is what the mailbox holds.
LEMMA BatchType ==
    ASSUME TypeOK, NEW w \in Walks, NEW uids, NEW passed \in SUBSET Uids
    PROVE  /\ Batch(w, uids, passed) \in Batches
           /\ Batch(w, uids, passed).validity = w.validity
           /\ Batch(w, uids, passed).advance.walk = w.walk
           /\ \A u \in Uids : Batch(w, uids, passed).emails[u].msg # NoMessage
                => u \in Present /\ Batch(w, uids, passed).emails[u].msg = box[u].msg
<1>1. Emails(uids) \in Rows
  BY DEF TypeOK, Emails, Rows, NoRow, NoMessage
<1>2. \A u \in Uids : Emails(uids)[u].msg # NoMessage
                => u \in Present /\ Emails(uids)[u].msg = box[u].msg
  BY DEF Emails, NoRow
<1>3. Cardinality(uids \cap Present) \in Nat
  BY UidsFinite DEF Present
<1>4. passed # {} => /\ Min(passed) \in Int
                     /\ Max(passed) + 1 \in NULL..(MaxUid + 1)
  <2>1. SUFFICES ASSUME passed # {}
                 PROVE  Min(passed) \in Int /\ Max(passed) + 1 \in NULL..(MaxUid + 1)
    OBVIOUS
  <2>2. Min(passed) \in Uids /\ Max(passed) \in Uids
    BY <2>1, UidRange
  <2> QED
    BY <2>2, BoundsAssumption DEF Uids, NULL
<1>5. NULL \in Int /\ NULL \in NULL..(MaxUid + 1)
  BY BoundsAssumption DEF NULL
<1>6. Advance(w, passed, Cardinality(uids \cap Present)) \in
        [walk : {"none", "opening", "down", "up"}, lowest : Int, done : BOOLEAN,
         synced : Synced, uid_next : NULL..(MaxUid + 1), arrived : Nat]
  BY <1>3, <1>4, <1>5 DEF Advance, Walks, Waits
<1> QED
  BY <1>1, <1>2, <1>6 DEF Batch, Batches, Walks, Advance

\* Saving a batch's advance keeps the progress a record of the store.
LEMMA SavedType ==
    ASSUME NEW p \in Progress, NEW b \in Batches
    PROVE  Saved(p, b.advance) \in Progress
<1>1. Larger(Coalesce(p.synced.uid_next, 0), b.advance.uid_next) \in NULL..(MaxUid + 1)
  BY BoundsAssumption DEF Larger, Coalesce, Batches, Progress, Synced, NULL
<1>2. (IF p.synced.messages = NULL THEN NULL
         ELSE p.synced.messages + b.advance.arrived) \in Int
  BY DEF Batches, Progress, Synced, NULL
<1>3. Coalesce(b.advance.lowest, p.lowest) \in Int
  BY DEF Coalesce, Batches, Progress
<1>4. CASE b.advance.walk = "up"
  BY <1>1, <1>2, <1>4 DEF Saved, Progress, Synced
<1>5. CASE b.advance.walk # "up"
  BY <1>3, <1>5 DEF Saved, Progress, Batches
<1> QED
  BY <1>4, <1>5

\* The values the variables start from.
LEMMA StartType ==
    /\ NothingSynced \in Synced /\ NoWalk \in Walks /\ Idle \in Refreshes
    /\ NoProgress \in Progress /\ NoRows \in Rows /\ NoRow \in [msg : Messages \cup {NoMessage}, mod : Nat]
    /\ Empty \in [msg : Messages \cup {NoMessage}, mod : Nat, deleted : BOOLEAN]
<1>1. NULL \in Int /\ NULL \in NULL..(MaxUid + 1)
  BY BoundsAssumption DEF NULL
<1>2. NothingSynced \in Synced
  BY <1>1 DEF NothingSynced, Synced
<1>3. <<>> \in Seq(Slices)
  OBVIOUS
<1>4. NoWalk \in Walks
  BY <1>1, <1>2, <1>3 DEF NoWalk, Walks
<1>5. Idle \in Refreshes
  BY <1>1, <1>2, <1>4 DEF Idle, Refreshes
<1> QED
  BY <1>1, <1>2, <1>4, <1>5 DEF NoProgress, Progress, NoRows, NoRow, Rows, Empty

\* What STATUS and EXAMINE give is a value the store can keep.
LEMMA CountsType ==
    ASSUME TypeOK
    PROVE  Counts \in Synced /\ Cardinality(Present) \in 0..MaxUid
<1>1. Present \in SUBSET Uids
  BY DEF Present
<1>2. Cardinality(Uids) = MaxUid /\ IsFiniteSet(Uids)
  <2>1. 1 \in Int /\ MaxUid \in Int /\ MaxUid >= 1
    BY BoundsAssumption
  <2>2. /\ IsFiniteSet(1..MaxUid)
        /\ Cardinality(1..MaxUid) = IF 1 > MaxUid THEN 0 ELSE MaxUid - 1 + 1
    BY ONLY <2>1, FS_Interval, Zenon
  <2> QED
    BY <2>1, <2>2 DEF Uids
<1>3. Cardinality(Present) \in 0..MaxUid
  BY <1>1, <1>2, FS_Subset, FS_CardinalityType, BoundsAssumption
<1> QED
  BY <1>3, BoundsAssumption DEF TypeOK, Counts, Synced, NULL

\* The walk upward, widened or fresh, asks for UIDs of the folder and keeps
\* the numbering it was made under.
LEMMA UpwardType ==
    ASSUME NEW w \in Walks, NEW through \in (-2)..MaxUid, NEW from \in Nat \ {0},
           NEW validity \in Int
    PROVE  /\ ExtendTo(w, through) \in Walks
           /\ ExtendTo(w, through) # NoWalk => ExtendTo(w, through).validity = w.validity
           /\ Above(validity, from, through) \in Walks
           /\ Above(validity, from, through) # NoWalk
                => Above(validity, from, through).validity = validity
<1>1. ExtendTo(w, through) \in {w, NoWalk} \/
        /\ through > w.top
        /\ ExtendTo(w, through) = [w EXCEPT !.remaining = w.remaining \cup ((w.top + 1)..through),
                                            !.top = through]
  <2>1. w.top \in Nat /\ REFRESH_GAP \in Nat /\ MaxUid \in Nat
    BY BoundsAssumption DEF Walks
  <2> QED
    BY <2>1 DEF ExtendTo
<1>2. ExtendTo(w, through) \in Walks
      /\ (ExtendTo(w, through) # NoWalk => ExtendTo(w, through).validity = w.validity)
  <2>1. CASE ExtendTo(w, through) \in {w, NoWalk}
    BY <2>1, StartType
  <2>2. CASE /\ through > w.top
             /\ ExtendTo(w, through) = [w EXCEPT !.remaining = w.remaining \cup ((w.top + 1)..through),
                                                 !.top = through]
    <3>1. w.top \in Nat /\ w.remaining \in SUBSET Uids
      BY DEF Walks
    <3>2. through \in Nat /\ (w.top + 1)..through \subseteq Uids
      BY <2>2, <3>1, BoundsAssumption DEF Uids
    <3>3. w.remaining \cup ((w.top + 1)..through) \in SUBSET Uids
      BY <3>1, <3>2
    <3> QED
      BY <2>2, <3>2, <3>3 DEF Walks
  <2> QED
    BY <1>1, <2>1, <2>2
<1>3. CASE from > through
  BY <1>2, <1>3, StartType DEF Above
<1>4. CASE ~(from > through)
  <2> DEFINE asked == IF through - from < REFRESH_GAP
                      THEN from..through ELSE Present \cap (from..through)
  <2>1. asked \in SUBSET Uids /\ through \in Nat /\ NARROWING_BUDGET \in Nat
    BY <1>4, BoundsAssumption DEF Uids, Present
  <2>2. Above(validity, from, through) =
          [NoWalk EXCEPT !.walk = "up", !.validity = validity,
            !.budget = NARROWING_BUDGET, !.top = through, !.remaining = asked]
    BY <1>4 DEF Above
  <2> HIDE DEF asked
  <2>3. Above(validity, from, through) \in Walks
        /\ Above(validity, from, through).validity = validity
    <3>1. Above(validity, from, through) =
            [walk |-> "up", validity |-> validity, remaining |-> asked, narrowed |-> <<>>,
             budget |-> NARROWING_BUDGET, top |-> through, opened |-> NothingSynced]
      BY <2>2 DEF NoWalk
    <3> QED
      BY <2>1, <3>1, StartType DEF Walks
  <2> QED
    BY <1>2, <2>3
<1> QED
  BY <1>3, <1>4

\* A batch written keeps the types of the store.
LEMMA WriteType ==
    ASSUME TypeOK, NEW b \in Batches, WriteBatch(b)
    PROVE  /\ rows' \in Rows /\ waiting' \subseteq Messages
           /\ progress' \in Progress /\ slipped' \subseteq Messages /\ row' = row
<1>1. CASE ~Pinned(b.validity)
  BY <1>1 DEF WriteBatch, TypeOK, store
<1>2. CASE Pinned(b.validity)
  <2> DEFINE fresh == {u \in Uids : b.emails[u].msg # NoMessage /\ u \notin Held}
             unmatched == waiting \ {b.emails[u].msg : u \in fresh}
  <2>1. /\ rows' = [u \in Uids |-> IF u \in fresh THEN b.emails[u] ELSE rows[u]]
        /\ waiting' = IF Finishes(progress, b.advance) THEN {} ELSE unmatched
        /\ progress' = Saved(progress, b.advance)
        /\ slipped' = slipped \cup Slip(b, fresh)
        /\ row' = row
    BY <1>2 DEF WriteBatch
  <2>2. progress' \in Progress
    BY <2>1, SavedType DEF TypeOK
  <2>3. rows' \in Rows
    BY <2>1 DEF TypeOK, Rows, Batches
  <2>4. Slip(b, fresh) \subseteq Messages
    <3>1. \A u \in fresh : b.emails[u].msg \in Messages
      BY DEF Batches, Rows
    <3> HIDE DEF fresh
    <3> QED
      BY <3>1 DEF Slip
  <2> HIDE DEF fresh
  <2>5. waiting' \subseteq Messages
    BY <2>1 DEF TypeOK
  <2> QED
    BY <2>1, <2>2, <2>3, <2>4, <2>5 DEF TypeOK
<1> QED
  BY <1>1, <1>2

-----------------------------------------------------------------------------
(* Type correctness *)

\* The server's own steps keep the types.
LEMMA ServerType ==
    ASSUME TypeOK, Server
    PROVE  TypeOK'
<1> USE DEF store, memory
<1>1. CASE Arrive
  <2>1. PICK u \in uidNext..MaxUid :
          /\ box' = [box EXCEPT ![u] = [msg |-> born + 1, mod |-> highestModseq + 1,
                                        deleted |-> FALSE]]
          /\ uidNext' = u + 1
    BY <1>1 DEF Arrive
  <2>2. u \in Uids /\ uidNext' \in 1..(MaxUid + 1)
    BY <2>1, BoundsAssumption DEF TypeOK, Uids
  <2>3. born' \in 0..MaxMessage /\ born + 1 \in Messages /\ highestModseq' \in Nat
    BY <1>1, BoundsAssumption DEF Arrive, TypeOK, Messages
  <2>4. box' \in [Uids -> [msg : Messages \cup {NoMessage}, mod : Nat, deleted : BOOLEAN]]
    BY <2>1, <2>2, <2>3 DEF TypeOK
  <2> QED
    BY <1>1, <2>2, <2>3, <2>4 DEF Arrive, TypeOK
<1>2. CASE SetFlags
  <2>1. PICK u \in Present, deleted \in BOOLEAN :
          /\ box' = [box EXCEPT ![u] = [msg |-> box[u].msg, mod |-> highestModseq + 1,
                                        deleted |-> deleted]]
          /\ marked' = IF deleted THEN marked \cup {box[u].msg} ELSE marked
    BY <1>2, Zenon DEF SetFlags
  <2>2. u \in Uids /\ box[u].msg \in Messages
    BY DEF Present, TypeOK
  <2>3. highestModseq' \in Nat
    BY <1>2 DEF SetFlags, TypeOK
  <2>4. box' \in [Uids -> [msg : Messages \cup {NoMessage}, mod : Nat, deleted : BOOLEAN]]
    <3> DEFINE flagged == [msg |-> box[u].msg, mod |-> highestModseq + 1, deleted |-> deleted]
    <3>1. flagged \in [msg : Messages \cup {NoMessage}, mod : Nat, deleted : BOOLEAN]
      <4>1. box[u] \in [msg : Messages \cup {NoMessage}, mod : Nat, deleted : BOOLEAN]
            /\ highestModseq + 1 \in Nat
        BY <2>2 DEF TypeOK
      <4> QED
        BY <4>1
    <3> HIDE DEF flagged
    <3>2. box' = [box EXCEPT ![u] = flagged]
      BY <2>1 DEF flagged
    <3> QED
      BY <2>2, <3>1, <3>2 DEF TypeOK
  <2>5. marked' \subseteq Messages
    BY <2>1, <2>2 DEF TypeOK
  <2> QED
    BY <1>2, <2>3, <2>4, <2>5 DEF SetFlags, TypeOK
<1>3. CASE Expunge
  BY <1>3, StartType DEF Expunge, TypeOK, Present
<1>4. CASE Renumber
  <2>1. box' \in [Uids -> [msg : Messages \cup {NoMessage}, mod : Nat, deleted : BOOLEAN]]
    BY <1>4, StartType DEF Renumber, TypeOK, Present
  <2>2. uidNext' \in 1..(MaxUid + 1)
    BY <1>4, CountsType, BoundsAssumption DEF Renumber
  <2>3. uidValidity' \in Nat \ {0}
    BY <1>4 DEF Renumber, TypeOK
  <2>4. UNCHANGED <<highestModseq, born, store, memory, faults, leftOut, marked>>
    BY <1>4 DEF Renumber
  <2> QED
    BY <2>1, <2>2, <2>3, <2>4 DEF TypeOK
<1> QED
  BY <1>1, <1>2, <1>3, <1>4 DEF Server

\* The messages an answer holds are messages of the server.
LEMMA AnswerType ==
    ASSUME TypeOK, NEW slice
    PROVE  {box[u].msg : u \in Answer(slice)} \subseteq Messages
  BY DEF TypeOK, Answer, Present

\* The steps of the account's task keep the types.
LEMMA TaskType ==
    ASSUME TypeOK, Task \/ BatchFails \/ BatchCut \/ TaskStops
    PROVE  TypeOK'
<1> USE DEF server, store
<1>0. sync \in Walks /\ NextSlice(sync) \in Slices /\ Taken(sync) \in Walks
      /\ NextSlice(sync).uids \in SUBSET Uids
  BY SliceType DEF TypeOK, Slices
<1>1. CASE Open
  <2>1. sync' = [walk |-> "opening", validity |-> row, remaining |-> {}, narrowed |-> <<>>,
                 budget |-> NARROWING_BUDGET, top |-> 0, opened |-> Counts]
    BY <1>1 DEF Open, NoWalk
  <2>2. sync' \in Walks
    <3>1. <<>> \in Seq(Slices) /\ {} \in SUBSET Uids /\ NARROWING_BUDGET \in Nat
      BY BoundsAssumption
    <3>2. row \in Int /\ Counts \in Synced
      BY CountsType DEF TypeOK
    <3> QED
      BY <2>1, <3>1, <3>2 DEF Walks
  <2> QED
    BY <1>1, <2>2 DEF Open, TypeOK
<1>2. CASE List
  <2>1. {u \in Present : progress.lowest # NULL => u < progress.lowest} \in SUBSET Uids
    BY DEF Present
  <2>2. sync' \in Walks
    BY <1>2, <2>1, <1>0 DEF List, Walks
  <2> QED
    BY <1>2, <2>2 DEF List, TypeOK
<1>3. CASE ResumeStale \/ GiveUp \/ TaskStops
  <2>1. faults' \in Nat
    BY <1>3 DEF ResumeStale, GiveUp, TaskStops, Fault, TypeOK
  <2> QED
    BY <1>3, <2>1, StartType DEF ResumeStale, GiveUp, TaskStops, TypeOK
<1>4. CASE BatchWritten
  <2> DEFINE slice == NextSlice(sync)
             after == IF Waits(sync) THEN Taken(sync) ELSE sync
             batch == IF Waits(sync) THEN Batch(after, Answer(slice), slice.uids)
                                     ELSE Batch(after, {}, {})
  <2>1. after \in Walks
    BY <1>0
  <2>2. WriteBatch(batch) /\ sync' \in {after, NoWalk}
    BY <1>4 DEF BatchWritten
  <2>3. batch \in Batches
    <3> HIDE DEF after
    <3> QED
      BY <1>0, <2>1, BatchType
  <2> HIDE DEF batch, after
  <2>4. /\ rows' \in Rows /\ waiting' \subseteq Messages
        /\ progress' \in Progress /\ slipped' \subseteq Messages /\ row' = row
    BY <2>2, <2>3, WriteType
  <2> QED
    BY <1>4, <2>1, <2>2, <2>4, StartType DEF BatchWritten, TypeOK
<1>5. CASE BatchNarrowed
  <2> DEFINE slice == NextSlice(sync)
             narrow == Narrow(Taken(sync), slice)
  <2>1. narrow \in Walks
    BY <1>0, NarrowType
  <2>2. Batch(narrow, {}, slice.uids) \in Batches
    <3> HIDE DEF narrow
    <3> QED
      BY <1>0, <2>1, BatchType
  <2>3. /\ sync' = narrow
        /\ \/ /\ WriteBatch(Batch(narrow, {}, slice.uids))
              /\ leftOut' = leftOut \cup {box[u].msg : u \in Answer(slice)}
           \/ UNCHANGED <<store, leftOut>>
    BY <1>5 DEF BatchNarrowed
  <2>4. /\ rows' \in Rows /\ waiting' \subseteq Messages /\ row' \in Int
        /\ progress' \in Progress /\ slipped' \subseteq Messages
        /\ leftOut' \subseteq Messages
    <3> HIDE DEF narrow, slice
    <3>1. CASE UNCHANGED <<store, leftOut>>
      BY <3>1 DEF TypeOK
    <3>2. CASE /\ WriteBatch(Batch(narrow, {}, slice.uids))
               /\ leftOut' = leftOut \cup {box[u].msg : u \in Answer(slice)}
      BY <2>2, <3>2, WriteType, AnswerType DEF TypeOK
    <3> QED
      BY <2>3, <3>1, <3>2
  <2> HIDE DEF narrow, slice
  <2> QED
    BY <1>5, <2>1, <2>3, <2>4 DEF BatchNarrowed, TypeOK
<1>6. CASE BatchFails
  BY <1>6, <1>0, PutType DEF BatchFails, Fault, TypeOK
<1>7. CASE BatchCut
  <2>1. Batch(Taken(sync), Answer(NextSlice(sync)), NextSlice(sync).uids) \in Batches
    BY <1>0, BatchType
  <2> QED
    BY <1>7, <1>0, <2>1 DEF BatchCut, Fault, TypeOK
<1> QED
  BY <1>1, <1>2, <1>3, <1>4, <1>5, <1>6, <1>7 DEF Task

\* The steps of the refresh keep the types.
LEMMA RefreshType ==
    ASSUME TypeOK, Refresh \/ WalkFails \/ WalkCut \/ RefreshFails
    PROVE  TypeOK'
<1> USE DEF server, store
<1> DEFINE walk == refresh.walk
           slice == NextSlice(walk)
           taken == Taken(walk)
<1>0. /\ refresh \in Refreshes /\ walk \in Walks /\ slice \in Slices /\ taken \in Walks
      /\ slice.uids \in SUBSET Uids
  <2>1. refresh \in Refreshes /\ walk \in Walks
    BY DEF TypeOK, Refreshes
  <2> HIDE DEF walk
  <2> QED
    BY <2>1, SliceType DEF Slices
<1> HIDE DEF walk, slice, taken
<1>1. CASE Pass
  <2>1. /\ row' = uidValidity
        /\ UNCHANGED <<server, slipped, sync, kept, detached, faults, leftOut>>
    BY <1>1 DEF Pass
  <2>2. CASE row \notin {NULL, uidValidity}
    <3>1. Renumbered /\ UNCHANGED refresh
      BY <1>1, <2>2 DEF Pass
    <3>2. {rows[u].msg : u \in Held} \subseteq Messages
      BY DEF Held, TypeOK, Rows
    <3>3. waiting' \subseteq Messages /\ rows' \in Rows /\ progress' \in Progress
      BY <3>1, <3>2, StartType DEF Renumbered
    <3> QED
      BY <2>1, <3>1, <3>3 DEF TypeOK
  <2>3. CASE row \in {NULL, uidValidity}
    <3>1. UNCHANGED <<rows, waiting, progress>>
          /\ refresh' \in {Idle, [Idle EXCEPT !.phase = "passed", !.facts = Counts,
                                              !.validity = uidValidity]}
      BY <1>1, <2>3 DEF Pass
    <3>2. \A c \in Synced, v \in Int :
            [Idle EXCEPT !.phase = "passed", !.facts = c, !.validity = v] \in Refreshes
      BY StartType DEF Refreshes
    <3>3. Counts \in Synced /\ uidValidity \in Int
      BY CountsType DEF TypeOK
    <3>4. refresh' \in Refreshes
      <4>1. [Idle EXCEPT !.phase = "passed", !.facts = Counts, !.validity = uidValidity]
              \in Refreshes
        BY <3>2, <3>3, Zenon
      <4> QED
        BY <3>1, <4>1, StartType, Zenon
    <3> QED
      BY <2>1, <3>1, <3>4 DEF TypeOK
  <2> QED
    BY <2>2, <2>3
<1>2. CASE Skip
  BY <1>2, StartType DEF Skip, TypeOK
<1>3. CASE Examine
  <2> DEFINE through == refresh.facts.uid_next - 1
             resumed == IF kept = NoWalk THEN NoWalk ELSE ExtendTo(kept, through)
             fresh == Above(refresh.validity, Larger(progress.synced.uid_next, 1), through)
             next == IF resumed # NoWalk THEN resumed ELSE fresh
  <2>1. through \in (-2)..MaxUid
    BY <1>0, BoundsAssumption DEF Refreshes, Synced, NULL
  <2>2. Larger(progress.synced.uid_next, 1) \in Nat \ {0}
    BY BoundsAssumption DEF TypeOK, Progress, Synced, NULL, Larger
  <2>3. kept \in Walks /\ refresh.validity \in Int /\ progress.synced \in Synced
        /\ highestModseq \in Int
    BY <1>0 DEF TypeOK, Refreshes, Progress
  <2> HIDE DEF through
  <2>4. next \in Walks
    BY <2>1, <2>2, <2>3, UpwardType, StartType
  <2>5. /\ refresh' = [refresh EXCEPT !.phase = IF next = NoWalk THEN "flags" ELSE "walk",
                                      !.base = progress.synced,
                                      !.modseq = highestModseq, !.walk = next]
        /\ kept' = NoWalk
        /\ UNCHANGED <<server, store, sync, detached, faults, leftOut>>
    BY <1>3 DEF Examine, through
  <2> HIDE DEF next
  <2>6. refresh' \in Refreshes
    BY <1>0, <2>3, <2>4, <2>5 DEF Refreshes
  <2> QED
    BY <2>5, <2>6, StartType DEF TypeOK
<1>4. CASE WalkWritten
  <2>1. UNCHANGED <<server, sync, kept, detached, faults, leftOut>>
    BY <1>4 DEF WalkWritten
  <2>2. CASE Waits(walk)
    <3> DEFINE on == [refresh EXCEPT !.arrived = @ + Cardinality(Answer(slice)),
                        !.phase = IF Waits(taken) THEN "walk" ELSE "flags",
                        !.walk = IF Waits(taken) THEN taken ELSE NoWalk]
    <3>1. WriteBatch(Batch(taken, Answer(slice), slice.uids)) /\ refresh' \in {on, Idle}
      BY <1>4, <2>2 DEF WalkWritten, walk, slice, taken
    <3>2. Batch(taken, Answer(slice), slice.uids) \in Batches
      BY <1>0, BatchType
    <3>3. Cardinality(Answer(slice)) \in Nat
      BY UidsFinite DEF Answer, Present
    <3>4. on \in Refreshes
      <4> DEFINE phase == IF Waits(taken) THEN "walk" ELSE "flags"
                 left == IF Waits(taken) THEN taken ELSE NoWalk
                 count == refresh.arrived + Cardinality(Answer(slice))
      <4>1. phase \in {"walk", "flags"} /\ left \in Walks
        BY <1>0, StartType
      <4>2. count \in Nat
        BY <1>0, <3>3 DEF Refreshes
      <4>3. on = [refresh EXCEPT !.arrived = count, !.phase = phase, !.walk = left]
        OBVIOUS
      <4> HIDE DEF phase, left, count, on
      <4> QED
        BY <1>0, <4>1, <4>2, <4>3 DEF Refreshes
    <3> QED
      BY <2>1, <3>1, <3>2, <3>4, WriteType, StartType DEF TypeOK
  <2>3. CASE ~Waits(walk)
    <3>1. UNCHANGED store /\ refresh' = [refresh EXCEPT !.phase = "flags", !.walk = NoWalk]
      BY <1>4, <2>3 DEF WalkWritten, walk
    <3>2. refresh' \in Refreshes
      BY <1>0, <3>1, StartType DEF Refreshes
    <3> QED
      BY <2>1, <3>1, <3>2 DEF TypeOK
  <2> QED
    BY <2>2, <2>3
<1>5. CASE WalkNarrowed
  <2> DEFINE narrow == Narrow(taken, slice)
  <2>1. narrow \in Walks
    BY <1>0, NarrowType
  <2>2. /\ kept' = narrow /\ refresh' = Idle
        /\ UNCHANGED <<server, sync, detached, faults>>
        /\ \/ /\ WriteBatch(Batch(narrow, {}, slice.uids))
              /\ leftOut' = leftOut \cup {box[u].msg : u \in Answer(slice)}
           \/ UNCHANGED <<store, leftOut>>
    BY <1>5 DEF WalkNarrowed, walk, slice, taken
  <2> HIDE DEF narrow
  <2>3. Batch(narrow, {}, slice.uids) \in Batches
    BY <1>0, <2>1, BatchType
  <2>4. /\ rows' \in Rows /\ waiting' \subseteq Messages /\ row' \in Int
        /\ progress' \in Progress /\ slipped' \subseteq Messages
        /\ leftOut' \subseteq Messages
    <3>1. CASE UNCHANGED <<store, leftOut>>
      BY <3>1 DEF TypeOK
    <3>2. CASE /\ WriteBatch(Batch(narrow, {}, slice.uids))
               /\ leftOut' = leftOut \cup {box[u].msg : u \in Answer(slice)}
      BY <2>3, <3>2, WriteType, AnswerType DEF TypeOK
    <3> QED
      BY <2>2, <3>1, <3>2
  <2> QED
    BY <2>1, <2>2, <2>4, StartType DEF TypeOK
<1>6. CASE WalkFails
  BY <1>6, <1>0, PutType, StartType DEF WalkFails, Fault, TypeOK, walk, slice, taken
<1>7. CASE WalkCut
  <2>1. Batch(taken, Answer(slice), slice.uids) \in Batches
    BY <1>0, BatchType
  <2>2. detached' = {Batch(taken, Answer(slice), slice.uids)}
    BY <1>7 DEF WalkCut, walk, slice, taken
  <2> QED
    BY <1>7, <2>1, <2>2, StartType DEF WalkCut, Fault, TypeOK
<1>8. CASE Flags
  <2>1. rows' \in Rows
    <3> DEFINE changed == {u \in Present \cap Held : box[u].mod > refresh.base.highest_modseq}
    <3>1. rows' = [u \in Uids |->
                     IF u \notin changed THEN rows[u]
                     ELSE IF box[u].deleted THEN NoRow
                     ELSE [rows[u] EXCEPT !.mod = box[u].mod]]
      BY <1>8 DEF Flags
    <3> HIDE DEF changed
    <3> QED
      BY <3>1, StartType DEF TypeOK, Rows
  <2>2. refresh' \in Refreshes
    BY <1>0, <1>8 DEF Flags, Refreshes
  <2> QED
    BY <1>8, <2>1, <2>2 DEF Flags, TypeOK
<1>9. CASE Count
  <2>1. rows' \in Rows
    BY <1>9, StartType DEF Count, TypeOK, Rows
  <2>2. refresh' \in Refreshes
    BY <1>0, <1>9 DEF Count, Refreshes
  <2> QED
    BY <1>9, <2>1, <2>2 DEF Count, TypeOK
<1>10. CASE Advanced
  <2>1. Learned \in Synced
    BY <1>0 DEF Learned, Refreshes, Synced
  <2>2. progress' \in Progress
    BY <1>10, <2>1 DEF Advanced, TypeOK, Progress
  <2> QED
    BY <1>10, <2>2, StartType DEF Advanced, TypeOK
<1>11. CASE RefreshFails
  BY <1>11, StartType DEF RefreshFails, Fault, TypeOK
<1> QED
  BY <1>1, <1>2, <1>3, <1>4, <1>5, <1>6, <1>7, <1>8, <1>9, <1>10, <1>11 DEF Refresh

\* Every step keeps the types.
LEMMA StepType ==
    ASSUME TypeOK, [Next]_vars
    PROVE  TypeOK'
<1>1. CASE Server
  BY <1>1, ServerType
<1>2. CASE Task \/ BatchFails \/ BatchCut \/ TaskStops
  BY <1>2, TaskType
<1>3. CASE Refresh \/ WalkFails \/ WalkCut \/ RefreshFails
  BY <1>3, RefreshType
<1>4. CASE Commit
  <2>1. PICK b \in detached : /\ WriteBatch(b)
                              /\ detached' = detached \ {b}
                              /\ UNCHANGED <<server, sync, refresh, kept, faults, leftOut>>
    BY <1>4 DEF Commit
  <2>2. b \in Batches
    BY DEF TypeOK
  <2> QED
    BY <2>1, <2>2, WriteType DEF TypeOK, server
<1>5. CASE Lose \/ Restart
  BY <1>5, StartType DEF Lose, Restart, Fault, TypeOK, server, store
<1>6. CASE UNCHANGED vars
  BY <1>6 DEF vars, server, store, memory, TypeOK
<1> QED
  BY <1>1, <1>2, <1>3, <1>4, <1>5, <1>6 DEF Next, Faulty

\* Every state of the sync has the declared types: the budget of a walk never
\* falls below zero, and no walk asks for a UID outside the folder.
THEOREM TypeCorrect == Spec => []TypeOK
<1>1. Init => TypeOK
  <2>1. uidNext = 1 /\ born = 0 => uidNext \in 1..(MaxUid + 1) /\ born \in 0..MaxMessage
    BY BoundsAssumption
  <2>2. Init => box \in [Uids -> [msg : Messages \cup {NoMessage}, mod : Nat,
                                  deleted : BOOLEAN]]
    BY StartType DEF Init
  <2> QED
    BY <2>1, <2>2, StartType DEF Init, TypeOK, NULL
<1>2. TypeOK /\ [Next]_vars => TypeOK'
  BY StepType
<1> QED
  BY <1>1, <1>2, PTL DEF Spec

-----------------------------------------------------------------------------
(* What the narrowing leaves out *)

\* The one message of a slice that is left out cannot be described at all:
\* a lone slice asks for its own UID only, and its last fetch asked for no
\* structure.
LEMMA LoneSlice ==
    ASSUME NEW w, NEW slice \in Slices, LeavesOut(w, slice), Breaks(slice)
    PROVE  {box[u].msg : u \in Answer(slice)} \subseteq Undescribable
<1>1. slice.uids \in SUBSET Uids /\ Cardinality(slice.uids) = 1 /\ ~slice.structure
  BY DEF Slices, LeavesOut
<1>2. PICK x : slice.uids = {x}
  <2>1. IsFiniteSet(slice.uids)
    BY <1>1, UidsFinite
  <2> QED
    BY <1>1, <2>1, FS_Singleton
<1>3. Min(slice.uids) = x /\ Max(slice.uids) = x /\ x \in Int
  <2>1. x \in Uids /\ slice.uids # {}
    BY <1>1, <1>2
  <2> QED
    BY <1>1, <1>2, <2>1, UidRange DEF Uids
<1>4. Answer(slice) \subseteq {x}
  BY <1>3 DEF Answer, Asked
<1>5. PICK u \in Answer(slice) : box[u].msg \in Undescribable
  BY <1>1 DEF Breaks
<1> QED
  BY <1>4, <1>5

\* Every message the narrowing leaves out, of the first sync and of the walk
\* over the new mail, is one the server cannot describe even without its
\* structure (FolderSync::narrow).
THEOREM LeavesOutForCause == Spec => []LeftOutForCause
<1>1. Init => LeftOutForCause
  BY DEF Init, LeftOutForCause
<1>2. TypeOK /\ LeftOutForCause /\ [Next]_vars => LeftOutForCause'
  <2> SUFFICES ASSUME TypeOK, LeftOutForCause, [Next]_vars
               PROVE  LeftOutForCause'
    OBVIOUS
  <2>1. CASE BatchNarrowed
    <3> DEFINE slice == NextSlice(sync)
               taken == Taken(sync)
    <3>1. slice \in Slices
      BY SliceType DEF TypeOK
    <3>2. /\ Breaks(slice)
          /\ \/ /\ LeavesOut(taken, slice)
                /\ leftOut' = leftOut \cup {box[u].msg : u \in Answer(slice)}
             \/ leftOut' = leftOut
      BY <2>1 DEF BatchNarrowed
    <3> HIDE DEF slice, taken
    <3> QED
      BY <3>1, <3>2, LoneSlice DEF LeftOutForCause
  <2>2. CASE WalkNarrowed
    <3> DEFINE slice == NextSlice(refresh.walk)
               taken == Taken(refresh.walk)
    <3>1. slice \in Slices
      BY SliceType DEF TypeOK, Refreshes
    <3>2. /\ Breaks(slice)
          /\ \/ /\ LeavesOut(taken, slice)
                /\ leftOut' = leftOut \cup {box[u].msg : u \in Answer(slice)}
             \/ leftOut' = leftOut
      BY <2>2 DEF WalkNarrowed
    <3> HIDE DEF slice, taken
    <3> QED
      BY <3>1, <3>2, LoneSlice DEF LeftOutForCause
  <2>3. CASE ~BatchNarrowed /\ ~WalkNarrowed
    <3>1. leftOut' = leftOut
      <4>1. CASE Server
        BY <4>1 DEF Server, Arrive, SetFlags, Expunge, Renumber
      <4>2. CASE Task
        BY <2>3, <4>2 DEF Task, Open, List, ResumeStale, BatchWritten, GiveUp
      <4>3. CASE Refresh
        BY <2>3, <4>3 DEF Refresh, Pass, Skip, Examine, WalkWritten, Flags, Count, Advanced
      <4>4. CASE Faulty
        BY <4>4 DEF Faulty, BatchFails, BatchCut, TaskStops, WalkFails, WalkCut,
                    RefreshFails, Commit, Lose, Restart
      <4>5. CASE UNCHANGED vars
        BY <4>5 DEF vars
      <4> QED
        BY <4>1, <4>2, <4>3, <4>4, <4>5 DEF Next
    <3> QED
      BY <3>1 DEF LeftOutForCause
  <2> QED
    BY <2>1, <2>2, <2>3
<1> QED
  BY <1>1, <1>2, TypeCorrect, PTL DEF Spec

-----------------------------------------------------------------------------
(* Rows and the messages they stand for *)

\* Rows, cached or on their way, that name messages of the present numbering:
\* every UID was given out, and a message still there is the one it names.
Matches(r) ==
    \A u \in Uids : r[u].msg # NoMessage
                      => u < uidNext /\ (box[u].msg # NoMessage => r[u].msg = box[u].msg)

\* The inductive invariant.  A row that stands for the present numbering has
\* only rows of it; a late write and a kept walk carry a numbering the server
\* has given out, and a late write of the present one carries its messages.
NumberingInv ==
    /\ row = NULL \/ row \in 1..uidValidity
    /\ row = NULL => Held = {}
    /\ \A u \in Uids : box[u].msg # NoMessage => u < uidNext
    /\ Stands => Matches(rows)
    /\ \A b \in detached : /\ b.validity \in 1..uidValidity
                           /\ b.validity = uidValidity => Matches(b.emails)
    /\ kept # NoWalk => kept.validity \in 1..uidValidity
    /\ refresh.phase = "walk" => refresh.walk.validity \in 1..uidValidity

\* The part of the invariant about the store, which a write must keep.
StoreInv ==
    /\ row = NULL \/ row \in 1..uidValidity
    /\ row = NULL => Held = {}
    /\ Stands => Matches(rows)

\* A batch whose messages belong to its numbering keeps the store's part.
LEMMA WriteNumbering ==
    ASSUME TypeOK, NumberingInv, NEW b \in Batches, WriteBatch(b), UNCHANGED server,
           b.validity \in 1..uidValidity,
           b.validity = uidValidity => Matches(b.emails)
    PROVE  StoreInv'
<1>1. row' = row /\ uidValidity' = uidValidity /\ uidNext' = uidNext /\ box' = box
  BY WriteType DEF server
<1>2. CASE ~Pinned(b.validity)
  BY <1>1, <1>2 DEF WriteBatch, store, StoreInv, NumberingInv, Stands, Matches, Held
<1>3. CASE Pinned(b.validity)
  <2>1. row = b.validity /\ row # NULL
    BY <1>3, BoundsAssumption DEF Pinned, NULL, TypeOK
  <2>2. \A u \in Uids : rows'[u] = rows[u] \/ rows'[u] = b.emails[u]
    BY <1>3 DEF WriteBatch
  <2>3. Stands' => Matches(rows) /\ Matches(b.emails)
    BY <1>1, <2>1 DEF NumberingInv, Stands
  <2>4. Stands' => Matches(rows)'
    BY <1>1, <2>2, <2>3 DEF Matches
  <2> QED
    BY <1>1, <2>1, <2>4 DEF StoreInv, NumberingInv
<1> QED
  BY <1>2, <1>3

\* A batch fetched now carries messages of the present numbering.
LEMMA FetchedNow ==
    ASSUME TypeOK, NumberingInv, NEW w \in Walks, NEW uids, NEW passed \in SUBSET Uids
    PROVE  /\ Batch(w, uids, passed) \in Batches
           /\ Batch(w, uids, passed).validity = w.validity
           /\ Matches(Batch(w, uids, passed).emails)
<1>1. \A u \in Uids : Batch(w, uids, passed).emails[u].msg # NoMessage
        => u \in Present /\ Batch(w, uids, passed).emails[u].msg = box[u].msg
  BY BatchType
<1> QED
  BY <1>1, BatchType DEF Matches, NumberingInv, Present

\* The server's steps keep the invariant: a UID given out once never names
\* another message under the same UIDVALIDITY.
LEMMA ServerNumbering ==
    ASSUME TypeOK, NumberingInv, Server
    PROVE  NumberingInv'
<1> USE DEF store, memory
<1>1. CASE Arrive
  <2>1. PICK u \in uidNext..MaxUid :
          /\ box' = [box EXCEPT ![u] = [msg |-> born + 1, mod |-> highestModseq + 1,
                                        deleted |-> FALSE]]
          /\ uidNext' = u + 1
    BY <1>1 DEF Arrive
  <2>2. /\ u \in Uids /\ uidNext \in Nat /\ uidNext <= u
        /\ \A v \in Uids : v < uidNext => v # u /\ v < uidNext' /\ box'[v] = box[v]
    BY <2>1, BoundsAssumption DEF TypeOK, Uids
  <2>3. \A v \in Uids : box'[v].msg # NoMessage => v < uidNext'
    <3> TAKE v \in Uids
    <3>1. CASE v = u
      BY <2>1, <2>2, <3>1
    <3>2. CASE v # u
      <4>1. box'[v] = box[v]
        BY <2>1, <2>2, <3>2 DEF TypeOK
      <4> QED
        BY <2>2, <4>1 DEF NumberingInv
    <3> QED
      BY <3>1, <3>2
  <2>4. ASSUME NEW r, Matches(r)
        PROVE  \A v \in Uids : r[v].msg # NoMessage
                 => v < uidNext' /\ (box'[v].msg # NoMessage => r[v].msg = box'[v].msg)
    BY <2>2, <2>4 DEF Matches
  <2>5. UNCHANGED <<uidValidity, row, rows, detached, kept, refresh>>
    BY <1>1 DEF Arrive
  <2>6. Matches(rows) => Matches(rows)'
    BY <2>4, <2>5 DEF Matches
  <2>7. \A b \in detached : Matches(b.emails) => Matches(b.emails)'
    BY <2>4 DEF Matches
  <2> QED
    BY <2>3, <2>5, <2>6, <2>7 DEF NumberingInv, Stands, Held
<1>2. CASE SetFlags \/ Expunge
  <2>1. /\ UNCHANGED <<uidValidity, uidNext, row, rows, detached, kept, refresh>>
        /\ \A v \in Uids : box'[v].msg # NoMessage => box'[v].msg = box[v].msg
    <3>1. CASE SetFlags
      BY <3>1 DEF SetFlags, TypeOK, Present
    <3>2. CASE Expunge
      BY <3>2 DEF Expunge, TypeOK, Present, Empty
    <3> QED
      BY <1>2, <3>1, <3>2
  <2> QED
    BY <2>1 DEF NumberingInv, Matches, Stands, Held
<1>3. CASE Renumber
  <2>1. /\ UNCHANGED <<row, rows, detached, kept, refresh>>
        /\ uidValidity' = uidValidity + 1 /\ uidNext' = Cardinality(Present) + 1
    BY <1>3 DEF Renumber
  <2>2. \A v \in Uids : box'[v].msg # NoMessage => v < uidNext'
    <3> SUFFICES ASSUME NEW v \in Uids, box'[v].msg # NoMessage
                 PROVE  v < uidNext'
      OBVIOUS
    <3>1. PICK u \in Present : Cardinality({x \in Present : x <= u}) = v
      BY <1>3 DEF Renumber, Empty
    <3>2. v <= Cardinality(Present) /\ v \in Nat /\ Cardinality(Present) \in Nat
      <4>1. Present \in SUBSET Uids /\ {x \in Present : x <= u} \in SUBSET Present
        BY DEF Present
      <4> QED
        BY <3>1, <4>1, UidsFinite, FS_Subset
    <3> QED
      BY <2>1, <3>2
  <2>3. uidValidity \in Nat /\ \A i \in 1..uidValidity : i \in 1..uidValidity' /\ i # uidValidity'
    BY <2>1 DEF TypeOK
  <2>4. ~Stands'
    <3>1. NULL # uidValidity'
      BY <2>1, <2>3 DEF NULL
    <3> QED
      BY <2>1, <2>3, <3>1 DEF NumberingInv, Stands
  <2> QED
    BY <2>1, <2>2, <2>3, <2>4 DEF NumberingInv, Held
<1> QED
  BY <1>1, <1>2, <1>3 DEF Server

\* The part of the invariant about memory: late writes and kept walks.
MemoryInv ==
    /\ \A b \in detached : /\ b.validity \in 1..uidValidity
                           /\ b.validity = uidValidity => Matches(b.emails)
    /\ kept # NoWalk => kept.validity \in 1..uidValidity
    /\ refresh.phase = "walk" => refresh.walk.validity \in 1..uidValidity

\* A step of the bridge keeps what the server's state says.
LEMMA BridgeNumbering ==
    ASSUME NumberingInv, UNCHANGED server, StoreInv', MemoryInv'
    PROVE  NumberingInv'
  BY DEF NumberingInv, StoreInv, MemoryInv, server

\* A step that leaves the store or the memory alone keeps its part.
LEMMA PartKept ==
    ASSUME NumberingInv, UNCHANGED server
    PROVE  /\ UNCHANGED <<row, rows>> => StoreInv'
           /\ UNCHANGED <<detached, kept, refresh>> => MemoryInv'
  BY DEF NumberingInv, StoreInv, MemoryInv, server, Stands, Matches, Held

\* The steps of the account's task keep the invariant.
LEMMA TaskNumbering ==
    ASSUME TypeOK, NumberingInv, Task \/ BatchFails \/ BatchCut \/ TaskStops
    PROVE  NumberingInv'
<1>0. /\ sync \in Walks /\ NextSlice(sync) \in Slices /\ Taken(sync) \in Walks
      /\ NextSlice(sync).uids \in SUBSET Uids /\ Taken(sync).validity = sync.validity
      /\ uidValidity \in 1..uidValidity
  BY SliceType DEF TypeOK, Slices
<1>1. CASE Open \/ List \/ ResumeStale \/ GiveUp \/ BatchFails \/ TaskStops
  <2>1. UNCHANGED <<server, row, rows, detached, kept, refresh>>
    BY <1>1 DEF Open, List, ResumeStale, GiveUp, BatchFails, TaskStops, store
  <2> QED
    BY <2>1, PartKept, BridgeNumbering
<1>2. CASE BatchWritten
  <2> DEFINE slice == NextSlice(sync)
             after == IF Waits(sync) THEN Taken(sync) ELSE sync
             batch == IF Waits(sync) THEN Batch(after, Answer(slice), slice.uids)
                                     ELSE Batch(after, {}, {})
  <2>1. after \in Walks /\ after.validity = sync.validity
    BY <1>0
  <2>2. /\ WriteBatch(batch) /\ sync.validity = uidValidity
        /\ UNCHANGED <<server, detached, kept, refresh>>
    BY <1>2 DEF BatchWritten
  <2>3. batch \in Batches /\ batch.validity = sync.validity /\ Matches(batch.emails)
    <3> HIDE DEF after
    <3> QED
      BY <1>0, <2>1, FetchedNow
  <2> HIDE DEF batch
  <2>4. StoreInv'
    BY <1>0, <2>2, <2>3, WriteNumbering
  <2> QED
    BY <2>2, <2>4, PartKept, BridgeNumbering
<1>3. CASE BatchNarrowed
  <2> DEFINE slice == NextSlice(sync)
             narrow == Narrow(Taken(sync), slice)
             batch == Batch(narrow, {}, slice.uids)
  <2>1. /\ WriteBatch(batch) \/ UNCHANGED store
        /\ sync.validity = uidValidity /\ UNCHANGED <<server, detached, kept, refresh>>
    BY <1>3 DEF BatchNarrowed
  <2>2. narrow \in Walks /\ narrow.validity = sync.validity
    BY <1>0, NarrowType
  <2>3. batch \in Batches /\ batch.validity = sync.validity /\ Matches(batch.emails)
    <3> HIDE DEF narrow
    <3> QED
      BY <1>0, <2>2, FetchedNow
  <2> HIDE DEF batch
  <2>4. StoreInv'
    <3>1. CASE WriteBatch(batch)
      BY <1>0, <2>1, <2>3, <3>1, WriteNumbering
    <3>2. CASE UNCHANGED store
      BY <2>1, <3>2, PartKept DEF store
    <3> QED
      BY <2>1, <3>1, <3>2
  <2> QED
    BY <2>1, <2>4, PartKept, BridgeNumbering
<1>4. CASE BatchCut
  <2> DEFINE batch == Batch(Taken(sync), Answer(NextSlice(sync)), NextSlice(sync).uids)
  <2>1. /\ detached' = {batch} /\ sync.validity = uidValidity
        /\ UNCHANGED <<server, row, rows, kept, refresh>>
    BY <1>4 DEF BatchCut, store
  <2>2. batch.validity = uidValidity /\ Matches(batch.emails)
    BY <1>0, <2>1, FetchedNow
  <2> HIDE DEF batch
  <2>3. Matches(batch.emails) => \A b \in detached' : Matches(b.emails)'
    BY <2>1 DEF Matches, server
  <2>4. MemoryInv'
    BY <1>0, <2>1, <2>2, <2>3 DEF NumberingInv, MemoryInv, server
  <2> QED
    BY <2>1, <2>4, PartKept, BridgeNumbering
<1> QED
  BY <1>1, <1>2, <1>3, <1>4 DEF Task

\* The steps of the refresh keep the invariant.  A kept walk may be of an
\* older numbering; its writes then find the row of another one.
LEMMA RefreshNumbering ==
    ASSUME TypeOK, NumberingInv, Refresh \/ WalkFails \/ WalkCut \/ RefreshFails
    PROVE  NumberingInv'
<1> DEFINE walk == refresh.walk
           slice == NextSlice(walk)
           taken == Taken(walk)
<1>0. /\ refresh \in Refreshes /\ walk \in Walks /\ slice \in Slices /\ taken \in Walks
      /\ slice.uids \in SUBSET Uids /\ taken.validity = walk.validity
      /\ uidValidity \in 1..uidValidity
  <2>1. refresh \in Refreshes /\ walk \in Walks /\ uidValidity \in 1..uidValidity
    BY DEF TypeOK, Refreshes
  <2> HIDE DEF walk
  <2> QED
    BY <2>1, SliceType DEF Slices
<1>00. Idle.phase = "idle"
  BY DEF Idle
<1> HIDE DEF walk, slice, taken
<1>1. CASE Pass
  <2>1. /\ row' = uidValidity
        /\ UNCHANGED <<server, detached, kept>>
    BY <1>1 DEF Pass
  <2>2. refresh' = refresh \/ refresh'.phase # "walk"
    <3>1. \A c, v : [Idle EXCEPT !.phase = "passed", !.facts = c, !.validity = v].phase = "passed"
      BY DEF Idle
    <3> DEFINE passed == [Idle EXCEPT !.phase = "passed", !.facts = Counts,
                                      !.validity = uidValidity]
    <3>2. passed.phase = "passed"
      BY <3>1
    <3>3. refresh' \in {refresh, passed, Idle}
      BY <1>1 DEF Pass
    <3> HIDE DEF passed
    <3> QED
      BY <3>2, <3>3, <1>00
  <2>3. MemoryInv'
    BY <2>1, <2>2 DEF NumberingInv, MemoryInv, server, Matches
  <2>4. StoreInv'
    <3>1. row' \in 1..uidValidity' /\ row' # NULL
      BY <1>0, <2>1 DEF server, NULL, TypeOK
    <3>2. CASE row = uidValidity
      <4>1. rows' = rows
        BY <1>1, <3>2 DEF Pass
      <4> QED
        BY <2>1, <3>1, <3>2, <4>1, PartKept
    <3>3. CASE row = NULL
      <4>1. rows' = rows /\ Held = {}
        BY <1>1, <3>3 DEF Pass, NumberingInv
      <4>2. \A u \in Uids : rows'[u].msg = NoMessage
        BY <4>1 DEF Held
      <4> QED
        BY <3>1, <4>2 DEF StoreInv, Matches
    <3>4. CASE row \notin {NULL, uidValidity}
      <4>1. rows' = NoRows
        BY <1>1, <3>4 DEF Pass, Renumbered
      <4>2. \A u \in Uids : rows'[u].msg = NoMessage
        BY <4>1 DEF NoRows, NoRow
      <4> QED
        BY <3>1, <4>2 DEF StoreInv, Matches
    <3> QED
      BY <3>2, <3>3, <3>4
  <2> QED
    BY <2>1, <2>3, <2>4, BridgeNumbering
<1>2. CASE Skip \/ RefreshFails
  <2>1. UNCHANGED <<server, row, rows, detached, kept>> /\ refresh' = Idle
    BY <1>2 DEF Skip, RefreshFails, store
  <2>2. MemoryInv'
    BY <2>1, <1>00 DEF NumberingInv, MemoryInv, server, Matches
  <2> QED
    BY <2>1, <2>2, PartKept, BridgeNumbering
<1>3. CASE Examine
  <2> DEFINE through == refresh.facts.uid_next - 1
             resumed == IF kept = NoWalk THEN NoWalk ELSE ExtendTo(kept, through)
             fresh == Above(refresh.validity, Larger(progress.synced.uid_next, 1), through)
             next == IF resumed # NoWalk THEN resumed ELSE fresh
  <2>1. through \in (-2)..MaxUid
    BY <1>0, BoundsAssumption DEF Refreshes, Synced, NULL
  <2>2. Larger(progress.synced.uid_next, 1) \in Nat \ {0}
    BY BoundsAssumption DEF TypeOK, Progress, Synced, NULL, Larger
  <2>3. kept \in Walks /\ refresh.validity \in Int
    BY <1>0 DEF TypeOK, Refreshes
  <2>4. /\ refresh' = [refresh EXCEPT !.phase = IF next = NoWalk THEN "flags" ELSE "walk",
                                      !.base = progress.synced,
                                      !.modseq = highestModseq, !.walk = next]
        /\ kept' = NoWalk /\ refresh.validity = uidValidity
        /\ UNCHANGED <<server, row, rows, detached>>
    BY <1>3 DEF Examine, store
  <2> HIDE DEF through
  <2>5. next # NoWalk => next.validity \in {kept.validity, uidValidity}
                         /\ (next.validity = kept.validity \/ next.validity = uidValidity)
                         /\ (kept = NoWalk => next.validity = uidValidity)
    BY <2>1, <2>2, <2>3, <2>4, UpwardType
  <2>6. next # NoWalk => next.validity \in 1..uidValidity
    BY <1>0, <2>5 DEF NumberingInv
  <2> HIDE DEF next
  <2>7. refresh'.phase = "walk" => next # NoWalk /\ refresh'.walk = next
    BY <1>0, <2>4 DEF Refreshes
  <2>8. MemoryInv'
    BY <2>4, <2>6, <2>7 DEF NumberingInv, MemoryInv, server, Matches
  <2> QED
    BY <2>4, <2>8, PartKept, BridgeNumbering
<1>4. CASE WalkWritten
  <2>1. UNCHANGED <<server, detached, kept>> /\ walk.validity \in 1..uidValidity
    BY <1>4 DEF WalkWritten, NumberingInv, walk
  <2>2. CASE Waits(walk)
    <3> DEFINE batch == Batch(taken, Answer(slice), slice.uids)
               on == [refresh EXCEPT !.arrived = @ + Cardinality(Answer(slice)),
                        !.phase = IF Waits(taken) THEN "walk" ELSE "flags",
                        !.walk = IF Waits(taken) THEN taken ELSE NoWalk]
    <3>1. WriteBatch(batch) /\ refresh' \in {on, Idle}
      BY <1>4, <2>2 DEF WalkWritten, walk, slice, taken
    <3>2. batch \in Batches /\ batch.validity = walk.validity /\ Matches(batch.emails)
      BY <1>0, FetchedNow
    <3>3. on.phase = "walk" => on.walk.validity = walk.validity
      BY <1>0 DEF Refreshes
    <3> HIDE DEF batch, on
    <3>4. StoreInv'
      BY <2>1, <3>1, <3>2, WriteNumbering
    <3>5. MemoryInv'
      BY <2>1, <3>1, <3>3, <1>00 DEF NumberingInv, MemoryInv, server, Matches
    <3> QED
      BY <2>1, <3>4, <3>5, BridgeNumbering
  <2>3. CASE ~Waits(walk)
    <3>1. UNCHANGED <<row, rows>> /\ refresh' = [refresh EXCEPT !.phase = "flags", !.walk = NoWalk]
      BY <1>4, <2>3 DEF WalkWritten, walk, store
    <3>2. refresh'.phase = "flags"
      BY <1>0, <3>1 DEF Refreshes
    <3>3. MemoryInv'
      BY <2>1, <3>2 DEF NumberingInv, MemoryInv, server, Matches
    <3> QED
      BY <2>1, <3>1, <3>3, PartKept, BridgeNumbering
  <2> QED
    BY <2>2, <2>3
<1>5. CASE WalkNarrowed
  <2> DEFINE narrow == Narrow(taken, slice)
             batch == Batch(narrow, {}, slice.uids)
  <2>1. /\ kept' = narrow /\ refresh' = Idle
        /\ UNCHANGED <<server, detached>>
        /\ WriteBatch(batch) \/ UNCHANGED store
        /\ walk.validity \in 1..uidValidity
    BY <1>5 DEF WalkNarrowed, walk, slice, taken, NumberingInv
  <2>2. narrow \in Walks /\ narrow.validity = walk.validity
    BY <1>0, NarrowType
  <2> HIDE DEF narrow
  <2>3. batch \in Batches /\ batch.validity = walk.validity /\ Matches(batch.emails)
    BY <1>0, <2>2, FetchedNow
  <2> HIDE DEF batch
  <2>4. StoreInv'
    <3>1. CASE WriteBatch(batch)
      BY <2>1, <2>3, <3>1, WriteNumbering
    <3>2. CASE UNCHANGED store
      BY <2>1, <3>2, PartKept DEF store
    <3> QED
      BY <2>1, <3>1, <3>2
  <2>5. MemoryInv'
    BY <2>1, <2>2, <1>00 DEF NumberingInv, MemoryInv, server, Matches
  <2> QED
    BY <2>1, <2>4, <2>5, BridgeNumbering
<1>6. CASE WalkFails
  <2>1. /\ kept' = Put(taken, slice) /\ refresh' = Idle
        /\ UNCHANGED <<server, row, rows, detached>>
        /\ walk.validity \in 1..uidValidity
    BY <1>6 DEF WalkFails, walk, slice, taken, NumberingInv, store
  <2>2. kept'.validity = walk.validity
    BY <1>0, <2>1, PutType
  <2>3. MemoryInv'
    BY <2>1, <2>2, <1>00 DEF NumberingInv, MemoryInv, server, Matches
  <2> QED
    BY <2>1, <2>3, PartKept, BridgeNumbering
<1>7. CASE WalkCut
  <2> DEFINE batch == Batch(taken, Answer(slice), slice.uids)
  <2>1. /\ detached' = {batch} /\ refresh' = Idle
        /\ UNCHANGED <<server, row, rows, kept>>
        /\ walk.validity \in 1..uidValidity
    BY <1>7 DEF WalkCut, walk, slice, taken, NumberingInv, store
  <2>2. batch.validity = walk.validity /\ Matches(batch.emails)
    BY <1>0, FetchedNow
  <2> HIDE DEF batch
  <2>3. \A b \in detached' : b.validity \in 1..uidValidity /\ Matches(b.emails)'
    BY <2>1, <2>2 DEF Matches, server
  <2>4. MemoryInv'
    BY <2>1, <2>3, <1>00 DEF NumberingInv, MemoryInv, server
  <2> QED
    BY <2>1, <2>4, PartKept, BridgeNumbering
<1>8. CASE Flags \/ Count
  <2>1. /\ UNCHANGED <<server, row, detached, kept>> /\ refresh'.phase \in {"count", "advance"}
    BY <1>0, <1>8 DEF Flags, Count, Refreshes
  <2>2. \A u \in Uids : rows'[u].msg = rows[u].msg \/ rows'[u].msg = NoMessage
    <3>1. CASE Flags
      <4> DEFINE changed == {u \in Present \cap Held : box[u].mod > refresh.base.highest_modseq}
      <4>1. rows' = [u \in Uids |->
                       IF u \notin changed THEN rows[u]
                       ELSE IF box[u].deleted THEN NoRow
                       ELSE [rows[u] EXCEPT !.mod = box[u].mod]]
        BY <3>1 DEF Flags
      <4> HIDE DEF changed
      <4> QED
        BY <4>1 DEF TypeOK, Rows, NoRow
    <3>2. CASE Count
      BY <3>2 DEF Count, NoRow
    <3> QED
      BY <1>8, <3>1, <3>2
  <2>3. StoreInv'
    BY <2>1, <2>2 DEF NumberingInv, StoreInv, server, Stands, Matches, Held
  <2>4. MemoryInv'
    BY <2>1 DEF NumberingInv, MemoryInv, server, Matches
  <2> QED
    BY <2>1, <2>3, <2>4, BridgeNumbering
<1>9. CASE Advanced
  <2>1. UNCHANGED <<server, row, rows, detached, kept>> /\ refresh' = Idle
    BY <1>9 DEF Advanced
  <2>2. MemoryInv'
    BY <2>1, <1>00 DEF NumberingInv, MemoryInv, server, Matches
  <2> QED
    BY <2>1, <2>2, PartKept, BridgeNumbering
<1> QED
  BY <1>1, <1>2, <1>3, <1>4, <1>5, <1>6, <1>7, <1>8, <1>9 DEF Refresh

\* The invariant holds throughout: a late write that commits is the one step
\* left, and a restart only forgets.
LEMMA NumberingHolds == Spec => []NumberingInv
<1>1. Init => NumberingInv
  BY DEF Init, NumberingInv, Stands, Matches, Held, NoRows, NoRow, Empty, Idle, NULL
<1>2. TypeOK /\ NumberingInv /\ [Next]_vars => NumberingInv'
  <2> SUFFICES ASSUME TypeOK, NumberingInv, [Next]_vars
               PROVE  NumberingInv'
    OBVIOUS
  <2>1. CASE Server
    BY <2>1, ServerNumbering
  <2>2. CASE Task \/ BatchFails \/ BatchCut \/ TaskStops
    BY <2>2, TaskNumbering
  <2>3. CASE Refresh \/ WalkFails \/ WalkCut \/ RefreshFails
    BY <2>3, RefreshNumbering
  <2>4. CASE Commit
    <3>1. PICK b \in detached : /\ WriteBatch(b)
                                /\ detached' = detached \ {b}
                                /\ UNCHANGED <<server, sync, refresh, kept, faults, leftOut>>
      BY <2>4 DEF Commit
    <3>2. b \in Batches /\ b.validity \in 1..uidValidity
          /\ (b.validity = uidValidity => Matches(b.emails))
      BY DEF TypeOK, NumberingInv
    <3>3. StoreInv'
      BY <3>1, <3>2, WriteNumbering
    <3>4. MemoryInv'
      BY <3>1 DEF NumberingInv, MemoryInv, server, Matches
    <3> QED
      BY <3>1, <3>3, <3>4, BridgeNumbering
  <2>5. CASE Lose \/ Restart
    <3>1. /\ UNCHANGED <<server, row, rows>> /\ detached' = {}
          /\ kept' \in {kept, NoWalk} /\ refresh' \in {refresh, Idle}
      BY <2>5 DEF Lose, Restart, store
    <3>2. MemoryInv'
      BY <3>1 DEF NumberingInv, MemoryInv, server, Idle
    <3> QED
      BY <3>1, <3>2, PartKept, BridgeNumbering
  <2>6. CASE UNCHANGED vars
    <3>1. UNCHANGED <<server, row, rows, detached, kept, refresh>>
      BY <2>6 DEF vars, store, memory
    <3> QED
      BY <3>1, PartKept, BridgeNumbering
  <2> QED
    BY <2>1, <2>2, <2>3, <2>4, <2>5, <2>6 DEF Next, Faulty
<1> QED
  BY <1>1, <1>2, TypeCorrect, PTL DEF Spec

\* A row of the cache never stands for another message than the one the
\* server has under its UID, whatever the renumberings, kept walks, failed
\* turns, restarts and late writes (folders::pinned, write_batch, renumber).
THEOREM RowsKeepTheirMessage == Spec => []RowsNameTheirMessage
<1>1. NumberingInv => RowsNameTheirMessage
  BY DEF NumberingInv, RowsNameTheirMessage, Matches, Present, Held
<1> QED
  BY <1>1, NumberingHolds, PTL

-----------------------------------------------------------------------------
(* Flags and the HIGHESTMODSEQ on record *)

\* Every row shows the flags its message was last given up to the
\* mod-sequence h.
Shown(h) ==
    \A u \in Uids : (/\ box[u].msg # NoMessage /\ rows[u].msg # NoMessage
                     /\ box[u].mod <= h) => rows[u].mod = box[u].mod

\* The store: it has no rows before it has a record, and under the present
\* numbering its rows show the flags up to the HIGHESTMODSEQ on record.
FlagsStore ==
    /\ progress.synced.highest_modseq <= highestModseq
    /\ \/ progress.synced.messages \in Nat
       \/ progress.synced.messages = NULL /\ ~progress.done /\ Held = {}
    /\ Stands => Shown(progress.synced.highest_modseq)

\* The task: the opening it may put on record is one the server has passed.
FlagsTask ==
    sync.walk # "none" => /\ sync.opened.messages \in Nat
                          /\ sync.opened.highest_modseq <= highestModseq

\* The refresh: from EXAMINE on the numbering stands; CHANGEDSINCE asks from
\* the value on record, and once it is answered the rows show the flags up to
\* the value EXAMINE gave, which goes on record at the end.
FlagsRefresh ==
    /\ refresh.phase # "idle" =>
         /\ progress.synced.messages \in Nat /\ refresh.facts.messages \in Nat
         /\ row = refresh.validity
    /\ refresh.phase \in {"walk", "flags", "count", "advance"} =>
         Stands /\ refresh.modseq <= highestModseq
    /\ refresh.phase \in {"walk", "flags"} =>
         refresh.base.highest_modseq = progress.synced.highest_modseq
    /\ refresh.phase \in {"count", "advance"} => Shown(refresh.modseq)

\* The inductive invariant.
FlagsInv == FlagsStore /\ FlagsTask /\ FlagsRefresh

\* Taking a slice, putting one back and narrowing one keep the opening.
LEMMA OpeningKept ==
    ASSUME NEW w \in Walks, NEW slice \in Slices
    PROVE  /\ Taken(w).opened = w.opened /\ Put(w, slice).opened = w.opened
           /\ Narrow(w, slice).opened = w.opened
<1>1. Taken(w).opened = w.opened
  BY DEF Taken, Walks
<1>2. \A v \in Walks : \A s : Put(v, s).opened = v.opened /\ Put(v, s) = [v EXCEPT !.narrowed = Append(v.narrowed, s)]
  BY DEF Put, Walks
<1> DEFINE spent == [w EXCEPT !.budget = @ - 1]
           lower == Lowest(slice.uids, Cardinality(slice.uids) \div 2)
           Half(uids) == [slice EXCEPT !.uids = uids]
<1>3. CASE w.budget = 0
  <2>1. Narrow(w, slice) = Put(w, slice)
    BY <1>3 DEF Narrow, LeavesOut
  <2> QED
    BY <1>1, <1>2, <2>1
<1>4. CASE w.budget # 0
  <2>1. spent \in Walks /\ spent.opened = w.opened /\ w.budget > 0
    BY <1>4 DEF Walks
  <2>2. Half(lower) \in Slices /\ Half(slice.uids \ lower) \in Slices
        /\ [slice EXCEPT !.structure = FALSE] \in Slices
    BY PartType DEF Slices
  <2>3. Narrow(w, slice) \in
           {Put(Put(spent, Half(lower)), Half(slice.uids \ lower)),
            Put(Put(spent, Half(slice.uids \ lower)), Half(lower)),
            spent, Put(spent, [slice EXCEPT !.structure = FALSE])}
    BY <1>4, <2>1 DEF Narrow, LeavesOut
  <2> HIDE DEF spent, lower, Half
  <2>4. \A s, t \in Slices : Put(Put(spent, s), t).opened = w.opened
                             /\ Put(spent, s).opened = w.opened
    <3> TAKE s, t \in Slices
    <3>1. Put(spent, s) \in Walks
      BY <2>1, PutType
    <3> QED
      BY <1>2, <2>1, <3>1
  <2> QED
    BY <1>1, <1>2, <2>1, <2>2, <2>3, <2>4
<1> QED
  BY <1>3, <1>4

\* A batch fetched now and written now: its fresh rows show the flags as they
\* are, the record keeps its HIGHESTMODSEQ, and the first one takes the value
\* of the opening while the store has no row.
LEMMA WriteFlags ==
    ASSUME TypeOK, FlagsStore, NEW w \in Walks, NEW uids, NEW passed \in SUBSET Uids,
           WriteBatch(Batch(w, uids, passed)), UNCHANGED server,
           progress.synced.messages \in Nat
             \/ /\ w.walk = "down" /\ w.opened.messages \in Nat
                /\ w.opened.highest_modseq <= highestModseq
    PROVE  /\ FlagsStore' /\ row' = row
           /\ progress.synced.messages \in Nat =>
                /\ progress'.synced.messages \in Nat
                /\ progress'.synced.highest_modseq = progress.synced.highest_modseq
<1> DEFINE b == Batch(w, uids, passed)
<1>1. /\ row' = row /\ uidValidity' = uidValidity /\ box' = box
      /\ highestModseq' = highestModseq
  BY BatchType, WriteType DEF server
<1>2. CASE ~Pinned(b.validity)
  BY <1>1, <1>2 DEF WriteBatch, store, FlagsStore, Stands, Shown, Held
<1>3. CASE Pinned(b.validity)
  <2> DEFINE fresh == {u \in Uids : b.emails[u].msg # NoMessage /\ u \notin Held}
  <2>1. /\ rows' = [u \in Uids |-> IF u \in fresh THEN b.emails[u] ELSE rows[u]]
        /\ progress' = Saved(progress, b.advance)
    BY <1>3 DEF WriteBatch
  <2>2. \A u \in Uids : b.emails[u].msg # NoMessage => b.emails[u].mod = box[u].mod
    BY DEF Batch, Emails, NoRow
  <2>3. /\ b.advance.walk = w.walk /\ b.advance.synced = w.opened
        /\ b.advance.arrived \in Nat
    <3>1. b \in Batches
      BY BatchType
    <3> QED
      BY <3>1 DEF Batch, Advance, Batches
  <2> HIDE DEF b
  <2>4. \A h \in Int : Shown(h) => Shown(h)'
    BY <1>1, <2>1, <2>2 DEF Shown
  <2>5. progress \in Progress /\ progress.synced \in Synced /\ w.opened \in Synced
    BY DEF TypeOK, Progress, Walks
  <2>6. CASE progress.synced.messages \in Nat
    <3>1. progress.synced.messages # NULL
      BY <2>6 DEF NULL
    <3>2. /\ progress'.synced.messages \in Nat
          /\ progress'.synced.highest_modseq = progress.synced.highest_modseq
      <4>1. CASE b.advance.walk = "up"
        <5> DEFINE next == Larger(Coalesce(progress.synced.uid_next, 0), b.advance.uid_next)
                   count == progress.synced.messages + b.advance.arrived
        <5>1. progress' = [progress EXCEPT !.synced.uid_next = next,
                                           !.synced.messages = count]
          BY <2>1, <3>1, <4>1 DEF Saved
        <5>2. count \in Nat
          BY <2>3, <2>6
        <5> HIDE DEF next, count
        <5>3. progress'.synced = [progress.synced EXCEPT !.uid_next = next, !.messages = count]
          BY <2>5, <5>1 DEF Progress
        <5> QED
          BY <2>5, <5>2, <5>3 DEF Synced
      <4>2. CASE b.advance.walk # "up"
        <5>1. progress'.synced = progress.synced
          BY <2>1, <3>1, <4>2 DEF Saved
        <5> QED
          BY <5>1, <2>6
      <4> QED
        BY <4>1, <4>2
    <3>3. progress.synced.highest_modseq \in Int
      BY <2>5 DEF Synced
    <3>4. Stands' => Shown(progress.synced.highest_modseq)'
      <4>1. Stands' => Shown(progress.synced.highest_modseq)
        BY <1>1 DEF Stands, FlagsStore
      <4>2. PICK h \in Int : h = progress.synced.highest_modseq
        BY <3>3
      <4>3. Stands' => Shown(h)'
        BY <2>4, <4>1, <4>2
      <4> QED
        BY <3>2, <4>2, <4>3 DEF Shown
    <3> QED
      BY <1>1, <3>2, <3>4 DEF FlagsStore
  <2>7. CASE progress.synced.messages \notin Nat
    <3>1. /\ progress.synced.messages = NULL /\ Held = {}
          /\ w.walk = "down" /\ w.opened.messages \in Nat
          /\ w.opened.highest_modseq <= highestModseq
      BY <2>7 DEF FlagsStore
    <3>2. progress'.synced = w.opened
      BY <2>1, <2>3, <3>1 DEF Saved
    <3>3. Shown(progress.synced.highest_modseq)'
      <4>1. \A u \in Uids : rows'[u].msg # NoMessage => rows'[u].mod = box'[u].mod
        BY <1>1, <2>1, <2>2, <3>1 DEF Held
      <4> QED
        BY <4>1 DEF Shown
    <3> QED
      BY <1>1, <2>7, <3>1, <3>2, <3>3 DEF FlagsStore
  <2> QED
    BY <1>1, <2>6, <2>7
<1> QED
  BY <1>2, <1>3

\* A step that leaves alone what a part of the invariant is about keeps it.
LEMMA FlagsKept ==
    ASSUME FlagsInv, UNCHANGED server
    PROVE  /\ UNCHANGED <<row, rows, progress>> => FlagsStore'
           /\ UNCHANGED sync => FlagsTask'
           /\ UNCHANGED <<row, rows, progress, refresh>> => FlagsRefresh'
           /\ refresh' = Idle => FlagsRefresh'
           /\ sync' = NoWalk => FlagsTask'
  BY DEF FlagsInv, FlagsStore, FlagsTask, FlagsRefresh, server, Stands, Shown, Held,
         Idle, NoWalk

\* The server's steps: what changes now is counted above every value on
\* record, and a renumbering leaves the cache behind.
LEMMA ServerFlags ==
    ASSUME TypeOK, NumberingInv, FlagsInv, Server
    PROVE  FlagsInv'
<1> USE DEF store, memory
<1>0. highestModseq \in Nat
  BY DEF TypeOK
<1>1. CASE Arrive \/ SetFlags \/ Expunge
  <2>1. /\ UNCHANGED <<uidValidity, row, rows, progress, sync, refresh>>
        /\ highestModseq <= highestModseq' /\ highestModseq' \in Nat
        /\ \A u \in Uids : \/ box'[u] = box[u] \/ box'[u].mod = highestModseq + 1
                           \/ box'[u].msg = NoMessage
    <3>1. CASE Arrive
      <4>1. PICK v \in uidNext..MaxUid :
               box' = [box EXCEPT ![v] = [msg |-> born + 1, mod |-> highestModseq + 1,
                                          deleted |-> FALSE]]
        BY <3>1 DEF Arrive
      <4>2. \A u \in Uids : box'[u] = box[u] \/ box'[u].mod = highestModseq + 1
        BY <4>1 DEF TypeOK
      <4> QED
        BY <1>0, <3>1, <4>2 DEF Arrive
    <3>2. CASE SetFlags
      <4>1. PICK v \in Present, d \in BOOLEAN :
               box' = [box EXCEPT ![v] = [msg |-> box[v].msg, mod |-> highestModseq + 1,
                                          deleted |-> d]]
        BY <3>2 DEF SetFlags
      <4>2. \A u \in Uids : box'[u] = box[u] \/ box'[u].mod = highestModseq + 1
        BY <4>1 DEF TypeOK
      <4> QED
        BY <1>0, <3>2, <4>2 DEF SetFlags
    <3>3. CASE Expunge
      <4>1. PICK v \in Present : box' = [box EXCEPT ![v] = Empty]
        BY <3>3 DEF Expunge
      <4>2. \A u \in Uids : box'[u] = box[u] \/ box'[u].msg = NoMessage
        BY <4>1 DEF TypeOK, Empty
      <4> QED
        BY <1>0, <3>3, <4>2 DEF Expunge
    <3> QED
      BY <1>1, <3>1, <3>2, <3>3
  <2>2. \A h \in Int : h <= highestModseq /\ Shown(h) => Shown(h)'
    BY <1>0, <2>1 DEF Shown
  <2>3. /\ progress.synced.highest_modseq \in Int /\ refresh.modseq \in Int
        /\ sync.opened.highest_modseq \in Int
    BY DEF TypeOK, Progress, Synced, Refreshes, Walks
  <2>4. Stands' => Shown(progress.synced.highest_modseq)'
    <3>1. PICK h \in Int : h = progress.synced.highest_modseq
      BY <2>3
    <3>2. Stands' => Shown(h)'
      BY <2>1, <2>2, <3>1 DEF FlagsInv, FlagsStore, Stands
    <3> QED
      BY <2>1, <3>1, <3>2 DEF Shown
  <2>5. refresh'.phase \in {"count", "advance"} => Shown(refresh.modseq)'
    <3>1. PICK h \in Int : h = refresh.modseq
      BY <2>3
    <3>2. refresh'.phase \in {"count", "advance"} => Shown(h)'
      BY <2>1, <2>2, <3>1 DEF FlagsInv, FlagsRefresh
    <3> QED
      BY <2>1, <3>1, <3>2 DEF Shown
  <2>6. FlagsStore'
    BY <1>0, <2>1, <2>3, <2>4 DEF FlagsInv, FlagsStore, Held
  <2>7. FlagsTask'
    BY <1>0, <2>1, <2>3 DEF FlagsInv, FlagsTask
  <2>8. FlagsRefresh'
    BY <1>0, <2>1, <2>3, <2>5 DEF FlagsInv, FlagsRefresh, Stands
  <2> QED
    BY <2>6, <2>7, <2>8 DEF FlagsInv
<1>2. CASE Renumber
  <2>1. /\ UNCHANGED <<highestModseq, row, rows, progress, sync, refresh>>
        /\ uidValidity' = uidValidity + 1 /\ ~Selected
    BY <1>2 DEF Renumber
  <2>2. ~Stands'
    BY <2>1 DEF TypeOK, NumberingInv, Stands, NULL
  <2>3. refresh.phase \notin {"walk", "flags", "count", "advance"}
    BY <2>1 DEF Selected
  <2> QED
    BY <2>1, <2>2, <2>3 DEF FlagsInv, FlagsStore, FlagsTask, FlagsRefresh, Held
<1> QED
  BY <1>1, <1>2 DEF Server

\* The steps of the account's task.  A turn comes only while no refresh runs.
LEMMA TaskFlags ==
    ASSUME TypeOK, FlagsInv, Task \/ BatchFails \/ TaskStops
    PROVE  FlagsInv'
<1> DEFINE slice == NextSlice(sync)
           taken == Taken(sync)
<1>0. /\ sync \in Walks /\ slice \in Slices /\ taken \in Walks
      /\ slice.uids \in SUBSET Uids
      /\ taken.opened = sync.opened /\ taken.walk = sync.walk
  BY SliceType, OpeningKept DEF TypeOK, Slices
<1> HIDE DEF slice, taken
<1>1. CASE Open
  <2>1. /\ UNCHANGED <<server, row, rows, progress, refresh>>
        /\ sync' = [NoWalk EXCEPT !.walk = "opening", !.validity = row,
                                  !.budget = NARROWING_BUDGET, !.opened = Counts]
    BY <1>1 DEF Open, store
  <2>2. sync'.opened = Counts
    BY <2>1 DEF NoWalk
  <2>3. /\ Counts.messages \in Nat /\ Counts.highest_modseq = highestModseq
        /\ highestModseq \in Nat
    BY CountsType DEF Counts, TypeOK
  <2>4. FlagsTask'
    <3>1. highestModseq' = highestModseq
      BY <2>1 DEF server
    <3> QED
      BY <2>2, <2>3, <3>1 DEF FlagsTask
  <2> QED
    BY <2>1, <2>4, FlagsKept DEF FlagsInv
<1>2. CASE List
  <2>1. /\ UNCHANGED <<server, row, rows, progress, refresh>>
        /\ sync.walk = "opening" /\ sync'.opened = sync.opened
    BY <1>0, <1>2 DEF List, store, Walks
  <2>2. FlagsTask'
    BY <2>1 DEF FlagsInv, FlagsTask, server
  <2> QED
    BY <2>1, <2>2, FlagsKept DEF FlagsInv
<1>3. CASE ResumeStale \/ GiveUp \/ TaskStops
  <2>1. UNCHANGED <<server, row, rows, progress, refresh>> /\ sync' = NoWalk
    BY <1>3 DEF ResumeStale, GiveUp, TaskStops, store
  <2> QED
    BY <2>1, FlagsKept DEF FlagsInv
<1>4. CASE BatchFails
  <2>1. /\ UNCHANGED <<server, row, rows, progress, refresh>>
        /\ sync' = Put(taken, slice) /\ sync.walk = "down"
    BY <1>4 DEF BatchFails, store, Turn, taken, slice
  <2>2. sync'.opened = sync.opened
    BY <1>0, <2>1, OpeningKept
  <2>3. FlagsTask'
    BY <2>1, <2>2 DEF FlagsInv, FlagsTask, server
  <2> QED
    BY <2>1, <2>3, FlagsKept DEF FlagsInv
<1>5. CASE BatchWritten
  <2> DEFINE after == IF Waits(sync) THEN taken ELSE sync
             uids == IF Waits(sync) THEN Answer(slice) ELSE {}
             passed == IF Waits(sync) THEN slice.uids ELSE {}
  <2>1. /\ WriteBatch(Batch(after, uids, passed))
        /\ sync' \in {after, NoWalk}
        /\ sync.walk = "down" /\ refresh = Idle /\ UNCHANGED <<server, refresh>>
    BY <1>5 DEF BatchWritten, Turn, taken, slice
  <2>2. /\ after \in Walks /\ after.opened = sync.opened /\ after.walk = "down"
        /\ passed \in SUBSET Uids
    BY <1>0, <2>1
  <2>3. sync.opened.messages \in Nat /\ sync.opened.highest_modseq <= highestModseq
    BY <2>1 DEF FlagsInv, FlagsTask
  <2> HIDE DEF after, uids, passed
  <2>4. FlagsStore'
    BY <2>1, <2>2, <2>3, WriteFlags DEF FlagsInv
  <2>5. FlagsTask'
    BY <2>1, <2>2, <2>3 DEF FlagsTask, NoWalk, server
  <2> QED
    BY <2>1, <2>4, <2>5, FlagsKept DEF FlagsInv
<1>6. CASE BatchNarrowed
  <2> DEFINE narrow == Narrow(taken, slice)
  <2>1. /\ WriteBatch(Batch(narrow, {}, slice.uids)) \/ UNCHANGED store
        /\ sync' = narrow
        /\ sync.walk = "down" /\ refresh = Idle /\ UNCHANGED <<server, refresh>>
    BY <1>6 DEF BatchNarrowed, Turn, taken, slice
  <2>2. narrow \in Walks /\ narrow.opened = sync.opened /\ narrow.walk = "down"
    BY <1>0, <2>1, NarrowType, OpeningKept
  <2>3. sync.opened.messages \in Nat /\ sync.opened.highest_modseq <= highestModseq
    BY <2>1 DEF FlagsInv, FlagsTask
  <2> HIDE DEF narrow
  <2>4. FlagsStore'
    <3>1. CASE UNCHANGED store
      BY <2>1, <3>1, FlagsKept DEF store
    <3>2. CASE WriteBatch(Batch(narrow, {}, slice.uids))
      <4>1. PICK none \in SUBSET Uids : none = {}
        OBVIOUS
      <4> QED
        BY <1>0, <2>1, <2>2, <2>3, <3>2, <4>1, WriteFlags DEF FlagsInv
    <3> QED
      BY <2>1, <3>1, <3>2
  <2>5. FlagsTask'
    BY <2>1, <2>2, <2>3 DEF FlagsTask, server
  <2> QED
    BY <2>1, <2>4, <2>5, FlagsKept DEF FlagsInv
<1> QED
  BY <1>1, <1>2, <1>3, <1>4, <1>5, <1>6 DEF Task

\* The steps of the refresh.  The record keeps its HIGHESTMODSEQ while the
\* walk writes, so CHANGEDSINCE names every row that does not show its flags.
LEMMA RefreshFlags ==
    ASSUME TypeOK, NumberingInv, FlagsInv, Refresh \/ WalkFails \/ RefreshFails
    PROVE  FlagsInv'
<1> DEFINE walk == refresh.walk
           slice == NextSlice(walk)
           taken == Taken(walk)
<1>0. /\ refresh \in Refreshes /\ walk \in Walks /\ slice \in Slices /\ taken \in Walks
      /\ slice.uids \in SUBSET Uids
  <2>1. refresh \in Refreshes /\ walk \in Walks
    BY DEF TypeOK, Refreshes
  <2> HIDE DEF walk
  <2> QED
    BY <2>1, SliceType DEF Slices
<1> HIDE DEF walk, slice, taken
<1>1. CASE Pass
  <2>1. row' = uidValidity /\ UNCHANGED <<server, sync>> /\ refresh = Idle
    BY <1>1 DEF Pass
  <2>2. UNCHANGED <<uidValidity, highestModseq, box>> /\ highestModseq \in Nat
    BY <2>1 DEF server, TypeOK
  <2>3. CASE row \notin {NULL, uidValidity}
    <3>1. rows' = NoRows /\ progress' = NoProgress /\ refresh' = Idle
      BY <1>1, <2>1, <2>3 DEF Pass, Renumbered
    <3>2. /\ \A u \in Uids : rows'[u].msg = NoMessage
          /\ progress'.synced.messages = NULL /\ ~progress'.done
          /\ progress'.synced.highest_modseq = NULL
      BY <3>1 DEF NoRows, NoRow, NoProgress, NothingSynced
    <3>3. FlagsStore'
      BY <2>2, <3>2 DEF FlagsStore, Shown, Held, NULL
    <3> QED
      BY <2>1, <3>1, <3>3, FlagsKept DEF FlagsInv
  <2>4. CASE row \in {NULL, uidValidity}
    <3> DEFINE passed == [Idle EXCEPT !.phase = "passed", !.facts = Counts,
                                      !.validity = uidValidity]
    <3>1. /\ UNCHANGED <<rows, progress>>
          /\ refresh' = IF progress.done THEN passed ELSE Idle
      BY <1>1, <2>4 DEF Pass
    <3>2. FlagsStore'
      <4>1. CASE row = uidValidity
        BY <2>1, <3>1, <4>1, FlagsKept
      <4>2. CASE row = NULL
        <5>1. Held = {}
          BY <4>2 DEF NumberingInv
        <5>2. \A u \in Uids : rows'[u].msg = NoMessage
          BY <3>1, <5>1 DEF Held
        <5> QED
          BY <2>2, <3>1, <5>1, <5>2 DEF FlagsInv, FlagsStore, Shown, Held
      <4> QED
        BY <2>4, <4>1, <4>2
    <3>3. FlagsRefresh'
      <4>1. CASE ~progress.done
        BY <2>1, <3>1, <4>1, FlagsKept
      <4>2. CASE progress.done
        <5>1. /\ passed.phase = "passed" /\ passed.facts = Counts
              /\ passed.validity = uidValidity
          BY DEF Idle
        <5>2. Counts.messages \in Nat
          BY CountsType DEF Counts
        <5>3. progress'.synced.messages \in Nat
          BY <3>1, <4>2 DEF FlagsInv, FlagsStore
        <5> HIDE DEF passed
        <5> QED
          BY <2>1, <3>1, <4>2, <5>1, <5>2, <5>3 DEF FlagsRefresh
      <4> QED
        BY <4>1, <4>2
    <3> QED
      BY <2>1, <3>2, <3>3, FlagsKept DEF FlagsInv
  <2> QED
    BY <2>3, <2>4
<1>2. CASE Skip \/ RefreshFails \/ WalkFails
  <2>1. UNCHANGED <<server, row, rows, progress, sync>> /\ refresh' = Idle
    BY <1>2 DEF Skip, RefreshFails, WalkFails, store
  <2> QED
    BY <2>1, FlagsKept DEF FlagsInv
<1>3. CASE Examine
  <2>1. /\ UNCHANGED <<server, row, rows, progress, sync>>
        /\ refresh.phase = "passed" /\ uidValidity = refresh.validity
        /\ \E next \in {"flags", "walk"} : \E w :
              refresh' = [refresh EXCEPT !.phase = next, !.base = progress.synced,
                                         !.modseq = highestModseq, !.walk = w]
    BY <1>3 DEF Examine, store
  <2>2. /\ refresh'.phase \in {"flags", "walk"} /\ refresh'.base = progress.synced
        /\ refresh'.modseq = highestModseq /\ refresh'.facts = refresh.facts
        /\ refresh'.validity = refresh.validity
    BY <1>0, <2>1 DEF Refreshes
  <2>3. /\ UNCHANGED <<uidValidity, highestModseq>> /\ highestModseq \in Nat
    BY <2>1 DEF server, TypeOK
  <2>4. FlagsRefresh'
    BY <2>1, <2>2, <2>3 DEF FlagsInv, FlagsRefresh, Stands
  <2> QED
    BY <2>1, <2>4, FlagsKept DEF FlagsInv
<1>4. CASE WalkWritten
  <2>1. refresh.phase = "walk" /\ UNCHANGED <<server, sync>>
    BY <1>4 DEF WalkWritten
  <2>2. /\ progress.synced.messages \in Nat /\ refresh.facts.messages \in Nat
        /\ row = refresh.validity /\ Stands /\ refresh.modseq <= highestModseq
        /\ refresh.base.highest_modseq = progress.synced.highest_modseq
    BY <2>1 DEF FlagsInv, FlagsRefresh
  <2>3. /\ FlagsStore' /\ row' = row
        /\ progress'.synced.messages \in Nat
        /\ progress'.synced.highest_modseq = progress.synced.highest_modseq
    <3>1. CASE Waits(walk)
      <4>1. WriteBatch(Batch(taken, Answer(slice), slice.uids))
        BY <1>4, <3>1 DEF WalkWritten, walk, slice, taken
      <4> QED
        BY <1>0, <2>1, <2>2, <4>1, WriteFlags DEF FlagsInv
    <3>2. CASE ~Waits(walk)
      <4>1. UNCHANGED <<row, rows, progress>>
        BY <1>4, <3>2 DEF WalkWritten, walk, store
      <4> QED
        BY <2>1, <2>2, <4>1, FlagsKept
    <3> QED
      BY <3>1, <3>2
  <2>4. \/ refresh' = Idle
        \/ /\ refresh'.phase \in {"walk", "flags"} /\ refresh'.base = refresh.base
           /\ refresh'.modseq = refresh.modseq /\ refresh'.facts = refresh.facts
           /\ refresh'.validity = refresh.validity
    <3>1. \/ refresh' = Idle
          \/ \E next \in {"walk", "flags"} : \E w, n :
                refresh' = [refresh EXCEPT !.arrived = n, !.phase = next, !.walk = w]
          \/ refresh' = [refresh EXCEPT !.phase = "flags", !.walk = NoWalk]
      BY <1>4 DEF WalkWritten
    <3> QED
      BY <1>0, <3>1 DEF Refreshes
  <2>5. FlagsRefresh'
    <3>1. CASE refresh' = Idle
      BY <2>1, <3>1, FlagsKept
    <3>2. CASE refresh' # Idle
      BY <2>1, <2>2, <2>3, <2>4, <3>2 DEF FlagsRefresh, Stands, server
    <3> QED
      BY <3>1, <3>2
  <2> QED
    BY <2>1, <2>3, <2>5, FlagsKept DEF FlagsInv
<1>5. CASE WalkNarrowed
  <2> DEFINE narrow == Narrow(taken, slice)
  <2>1. /\ refresh.phase = "walk" /\ refresh' = Idle /\ UNCHANGED <<server, sync>>
        /\ WriteBatch(Batch(narrow, {}, slice.uids)) \/ UNCHANGED store
    BY <1>5 DEF WalkNarrowed, walk, slice, taken
  <2>2. narrow \in Walks /\ progress.synced.messages \in Nat
    BY <1>0, <2>1, NarrowType DEF FlagsInv, FlagsRefresh
  <2> HIDE DEF narrow
  <2>3. FlagsStore'
    <3>1. CASE UNCHANGED store
      BY <2>1, <3>1, FlagsKept DEF store
    <3>2. CASE WriteBatch(Batch(narrow, {}, slice.uids))
      <4>1. PICK none \in SUBSET Uids : none = {}
        OBVIOUS
      <4> QED
        BY <1>0, <2>1, <2>2, <3>2, <4>1, WriteFlags DEF FlagsInv
    <3> QED
      BY <2>1, <3>1, <3>2
  <2> QED
    BY <2>1, <2>3, FlagsKept DEF FlagsInv
<1>6. CASE Flags
  <2> DEFINE changed == {u \in Present \cap Held : box[u].mod > refresh.base.highest_modseq}
  <2>1. /\ rows' = [u \in Uids |->
                      IF u \notin changed THEN rows[u]
                      ELSE IF box[u].deleted THEN NoRow
                      ELSE [rows[u] EXCEPT !.mod = box[u].mod]]
        /\ refresh.phase = "flags" /\ refresh' = [refresh EXCEPT !.phase = "count"]
        /\ UNCHANGED <<server, row, progress, sync>>
    BY <1>6 DEF Flags
  <2>2. /\ progress.synced.messages \in Nat /\ refresh.facts.messages \in Nat
        /\ row = refresh.validity /\ Stands /\ refresh.modseq <= highestModseq
        /\ Shown(refresh.base.highest_modseq)
    BY <2>1 DEF FlagsInv, FlagsRefresh, FlagsStore
  <2>3. ASSUME NEW u \in Uids, box[u].msg # NoMessage, rows'[u].msg # NoMessage
        PROVE  rows'[u].mod = box[u].mod
    <3>0. /\ box[u].mod \in Nat /\ refresh.base.highest_modseq \in Int
          /\ rows[u] \in [msg : Messages \cup {NoMessage}, mod : Nat]
      BY <1>0 DEF TypeOK, Rows, Refreshes, Synced
    <3>1. CASE u \in changed
      <4> HIDE DEF changed
      <4> QED
        BY <2>1, <2>3, <3>0, <3>1 DEF NoRow
    <3>2. CASE u \notin changed
      <4>1. rows'[u] = rows[u]
        BY <2>1, <3>2
      <4>2. u \in Present \cap Held
        BY <2>3, <4>1 DEF Present, Held
      <4>3. box[u].mod <= refresh.base.highest_modseq
        BY <3>0, <3>2, <4>2
      <4> QED
        BY <2>2, <2>3, <4>1, <4>3 DEF Shown
    <3> QED
      BY <3>1, <3>2
  <2>4. \A u \in Uids : rows[u].msg = NoMessage => rows'[u].msg = NoMessage
    BY <2>1 DEF Held
  <2> HIDE DEF changed
  <2>5. Shown(refresh.modseq)' /\ Shown(progress.synced.highest_modseq)'
    BY <2>1, <2>3 DEF Shown, server
  <2>6. FlagsStore'
    BY <2>1, <2>2, <2>5 DEF FlagsInv, FlagsStore, server
  <2>7. /\ refresh'.phase = "count" /\ refresh'.modseq = refresh.modseq
        /\ refresh'.facts = refresh.facts /\ refresh'.validity = refresh.validity
    BY <1>0, <2>1 DEF Refreshes
  <2>8. FlagsRefresh'
    BY <2>1, <2>2, <2>5, <2>7 DEF FlagsRefresh, Stands, server
  <2> QED
    BY <2>1, <2>6, <2>8, FlagsKept DEF FlagsInv
<1>7. CASE Count
  <2>1. /\ rows' = IF FellShort
                   THEN [u \in Uids |-> IF u \in Present THEN rows[u] ELSE NoRow]
                   ELSE rows
        /\ refresh.phase = "count" /\ refresh' = [refresh EXCEPT !.phase = "advance"]
        /\ UNCHANGED <<server, row, progress, sync>>
    BY <1>7 DEF Count
  <2>2. /\ progress.synced.messages \in Nat /\ refresh.facts.messages \in Nat
        /\ row = refresh.validity /\ Stands /\ refresh.modseq <= highestModseq
        /\ Shown(refresh.modseq) /\ Shown(progress.synced.highest_modseq)
    BY <2>1 DEF FlagsInv, FlagsRefresh, FlagsStore
  <2>3. \A u \in Uids : rows'[u] = rows[u] \/ rows'[u].msg = NoMessage
    BY <2>1 DEF NoRow
  <2>4. Shown(progress.synced.highest_modseq)'
    BY <2>1, <2>2, <2>3 DEF Shown, server
  <2>5. /\ refresh'.phase = "advance" /\ refresh'.modseq = refresh.modseq
        /\ refresh'.facts = refresh.facts /\ refresh'.validity = refresh.validity
    BY <1>0, <2>1 DEF Refreshes
  <2>6. Shown(refresh.modseq)'
    BY <2>1, <2>2, <2>3, <2>5 DEF Shown, server
  <2>7. FlagsStore'
    BY <2>1, <2>2, <2>4 DEF FlagsInv, FlagsStore, server
  <2>8. FlagsRefresh'
    BY <2>1, <2>2, <2>5, <2>6 DEF FlagsRefresh, Stands, server
  <2> QED
    BY <2>1, <2>7, <2>8, FlagsKept DEF FlagsInv
<1>8. CASE Advanced
  <2>1. /\ progress' = [progress EXCEPT !.synced = Learned] /\ refresh' = Idle
        /\ refresh.phase = "advance" /\ UNCHANGED <<server, row, rows, sync>>
    BY <1>8 DEF Advanced
  <2>2. /\ refresh.facts.messages \in Nat /\ refresh.modseq <= highestModseq
        /\ Shown(refresh.modseq)
    BY <2>1 DEF FlagsInv, FlagsRefresh
  <2>3. /\ Learned.highest_modseq = refresh.modseq
        /\ Learned.messages = refresh.facts.messages
    BY <1>0 DEF Learned, Refreshes, Synced
  <2>4. progress'.synced = Learned
    BY <2>1 DEF TypeOK, Progress
  <2>5. Shown(progress.synced.highest_modseq)'
    BY <2>1, <2>2, <2>3, <2>4 DEF Shown, server
  <2>6. FlagsStore'
    BY <2>1, <2>2, <2>3, <2>4, <2>5 DEF FlagsStore, server
  <2> QED
    BY <2>1, <2>6, FlagsKept DEF FlagsInv
<1> QED
  BY <1>1, <1>2, <1>3, <1>4, <1>5, <1>6, <1>7, <1>8 DEF Refresh

\* The invariant holds throughout where no write is cut.
LEMMA FlagsHold == Spec /\ [](detached = {}) => []FlagsInv
<1>1. Init => FlagsInv
  BY DEF Init, FlagsInv, FlagsStore, FlagsTask, FlagsRefresh, Shown, Stands, Held,
         NoRows, NoRow, NoProgress, NothingSynced, NoWalk, Idle, NULL
<1>2. /\ TypeOK /\ NumberingInv /\ FlagsInv /\ detached = {} /\ (detached = {})'
      /\ [Next]_vars
      => FlagsInv'
  <2> SUFFICES ASSUME TypeOK, NumberingInv, FlagsInv, detached = {}, (detached = {})',
                      [Next]_vars
               PROVE  FlagsInv'
    OBVIOUS
  <2>1. CASE Server
    BY <2>1, ServerFlags
  <2>2. CASE Task \/ BatchFails \/ TaskStops
    BY <2>2, TaskFlags
  <2>3. CASE Refresh \/ WalkFails \/ RefreshFails
    BY <2>3, RefreshFlags
  <2>4. CASE BatchCut \/ WalkCut
    BY <2>4 DEF BatchCut, WalkCut
  <2>5. CASE Commit \/ Lose
    BY <2>5 DEF Commit, Lose
  <2>6. CASE Restart
    <3>1. UNCHANGED <<server, row, rows, progress>> /\ sync' = NoWalk /\ refresh' = Idle
      BY <2>6 DEF Restart, store
    <3> QED
      BY <3>1, FlagsKept DEF FlagsInv
  <2>7. CASE UNCHANGED vars
    <3>1. UNCHANGED <<server, row, rows, progress, sync, refresh>>
      BY <2>7 DEF vars, store, memory
    <3> QED
      BY <3>1, FlagsKept DEF FlagsInv
  <2> QED
    BY <2>1, <2>2, <2>3, <2>4, <2>5, <2>6, <2>7 DEF Next, Faulty
<1> QED
  BY <1>1, <1>2, TypeCorrect, NumberingHolds, PTL DEF Spec

\* Where no write is cut from its turn, every held row whose flags the server
\* last changed at or before the HIGHESTMODSEQ on record shows those flags:
\* whatever the server does between STATUS, EXAMINE, the walk and CHANGEDSINCE,
\* and wherever a refresh fails or the process restarts, the next CHANGEDSINCE
\* still names each change the cache lacks (progress::save, refresh::advance).
THEOREM FlagsAreShown == Spec /\ [](detached = {}) => []FlagsStand
<1>1. FlagsInv => FlagsStand
  BY DEF FlagsInv, FlagsStore, FlagsStand, Shown, Present, Held
<1> QED
  BY <1>1, FlagsHold, PTL


-----------------------------------------------------------------------------
(* What a walk has still to ask for, and in which order *)

Pending(w) ==
    {u \in Uids : \/ u \in w.remaining
                  \/ \E i \in DOMAIN w.narrowed : u \in w.narrowed[i].uids}

Below(S, T) == \A x \in S, y \in T : x < y

\* A walk in direction d reaches the UIDs S before the UIDs T.
Before(d, S, T) == IF d = "down" THEN Below(T, S) ELSE Below(S, T)

\* The narrowed slices come before what remains, the last of them first.
Ordered(w) ==
    /\ w.walk \in {"down", "up"}
    /\ \A i \in DOMAIN w.narrowed : Before(w.walk, w.narrowed[i].uids, w.remaining)
    /\ \A i, j \in DOMAIN w.narrowed :
          i < j => Before(w.walk, w.narrowed[j].uids, w.narrowed[i].uids)

\* The lowest and the highest UIDs of a set lie apart from the others.
LEMMA PartsApart ==
    ASSUME NEW S \in SUBSET Uids, NEW n \in Nat
    PROVE  /\ Below(Lowest(S, n), S \ Lowest(S, n))
           /\ Below(S \ Highest(S, n), Highest(S, n))
<1>0. \A u \in S : u \in Nat
  BY BoundsAssumption DEF Uids
<1>1. ASSUME NEW x \in Lowest(S, n), NEW y \in S \ Lowest(S, n) PROVE x < y
  <2> DEFINE X == {v \in S : v < x}
             Y == {v \in S : v < y}
  <2>1. x \in S /\ y \in S /\ Cardinality(X) < n /\ ~(Cardinality(Y) < n)
    BY <1>1 DEF Lowest
  <2>2. X \in SUBSET Uids /\ Y \in SUBSET Uids
    OBVIOUS
  <2>3. SUFFICES ASSUME ~(x < y) PROVE FALSE
    OBVIOUS
  <2>4. Y \subseteq X
    BY <1>0, <2>1, <2>3
  <2> HIDE DEF X, Y
  <2>5. Cardinality(Y) <= Cardinality(X) /\ Cardinality(X) \in Nat /\ Cardinality(Y) \in Nat
    BY <2>2, <2>4, UidsFinite, FS_Subset
  <2> QED
    BY <2>1, <2>5
<1>2. ASSUME NEW x \in S \ Highest(S, n), NEW y \in Highest(S, n) PROVE x < y
  <2> DEFINE X == {v \in S : v > x}
             Y == {v \in S : v > y}
  <2>1. x \in S /\ y \in S /\ ~(Cardinality(X) < n) /\ Cardinality(Y) < n
    BY <1>2 DEF Highest
  <2>2. X \in SUBSET Uids /\ Y \in SUBSET Uids
    OBVIOUS
  <2>3. SUFFICES ASSUME ~(x < y) PROVE FALSE
    OBVIOUS
  <2>4. X \subseteq Y
    BY <1>0, <2>1, <2>3
  <2> HIDE DEF X, Y
  <2>5. Cardinality(X) <= Cardinality(Y) /\ Cardinality(X) \in Nat /\ Cardinality(Y) \in Nat
    BY <2>2, <2>4, UidsFinite, FS_Subset
  <2> QED
    BY <2>1, <2>5
<1> QED
  BY <1>1, <1>2 DEF Below

\* What a walk waits for is of the folder, and nothing once it does not wait.
LEMMA PendingFacts ==
    ASSUME NEW w \in Walks
    PROVE  /\ Pending(w) \in SUBSET Uids
           /\ ~Waits(w) => Pending(w) = {}
  BY DEF Pending, Waits

\* The next slice is what the walk reaches first.
LEMMA Taking ==
    ASSUME NEW w \in Walks, Ordered(w), Waits(w)
    PROVE  /\ Pending(w) = NextSlice(w).uids \cup Pending(Taken(w))
           /\ Ordered(Taken(w))
           /\ Before(w.walk, NextSlice(w).uids, Pending(Taken(w)))
           /\ Taken(w).top = w.top
<1> DEFINE n == w.narrowed
           slice == NextSlice(w)
<1>0. /\ n \in Seq(Slices) /\ w.remaining \in SUBSET Uids
      /\ \A i \in DOMAIN n : n[i].uids \in SUBSET Uids
  <2>1. n \in Seq(Slices) /\ w.remaining \in SUBSET Uids
    BY DEF Walks
  <2> HIDE DEF n
  <2>2. \A i \in DOMAIN n : n[i] \in Slices
    BY <2>1
  <2> QED
    BY <2>1, <2>2 DEF Slices
<1>1. CASE n # <<>>
  <2> DEFINE k == Len(n)
             m == SubSeq(n, 1, k - 1)
  <2>1. k \in Nat /\ k >= 1 /\ DOMAIN n = 1..k
    BY <1>0, <1>1
  <2>2. DOMAIN m = 1..(k - 1) /\ \A i \in 1..(k - 1) : m[i] = n[i]
    BY <1>0, <2>1
  <2>3. slice = n[k]
    BY <1>1 DEF NextSlice
  <2>4. Taken(w) = [w EXCEPT !.narrowed = m]
    BY <1>1 DEF Taken
  <2> HIDE DEF m, slice
  <2>5. /\ Taken(w).narrowed = m /\ Taken(w).remaining = w.remaining
        /\ Taken(w).walk = w.walk /\ Taken(w).top = w.top
    BY <2>4 DEF Walks
  <2>6. Pending(w) = slice.uids \cup Pending(Taken(w))
    <3>1. /\ \A i \in 1..k : i = k \/ i \in 1..(k - 1)
          /\ k \in 1..k /\ 1..(k - 1) \subseteq 1..k
      BY <2>1
    <3>2. ASSUME NEW u \in Uids
          PROVE  (\E i \in 1..k : u \in n[i].uids)
                   <=> (u \in n[k].uids \/ \E i \in 1..(k - 1) : u \in m[i].uids)
      <4> HIDE DEF n, k
      <4> QED
        BY <2>2, <3>1
    <3>3. n[k].uids \in SUBSET Uids
      BY <1>0, <2>1, <3>1
    <3> HIDE DEF n, k
    <3> QED
      BY <2>1, <2>2, <2>3, <2>5, <3>2, <3>3 DEF Pending, n
  <2>7. Ordered(Taken(w))
    <3>1. 1..(k - 1) \subseteq 1..k
      BY <2>1
    <3> QED
      BY <2>1, <2>2, <2>5, <3>1 DEF Ordered
  <2>8. Before(w.walk, slice.uids, Pending(Taken(w)))
    <3>1. \A i \in 1..(k - 1) : Before(w.walk, n[k].uids, n[i].uids)
      BY <2>1 DEF Ordered
    <3>2. Before(w.walk, n[k].uids, w.remaining)
      BY <2>1 DEF Ordered
    <3> QED
      BY <2>2, <2>3, <2>5, <3>1, <3>2 DEF Pending, Before, Below
  <2> QED
    BY <2>5, <2>6, <2>7, <2>8 DEF slice
<1>2. CASE n = <<>>
  <2>1. /\ slice.uids \in SUBSET w.remaining
        /\ Before(w.walk, slice.uids, w.remaining \ slice.uids)
    <3>1. SYNC_BATCH \in Nat
      BY BoundsAssumption
    <3>2. CASE w.walk = "down"
      BY <1>0, <1>2, <3>1, <3>2, PartType, PartsApart DEF NextSlice, Before
    <3>3. CASE w.walk # "down"
      BY <1>0, <1>2, <3>1, <3>3, PartType, PartsApart DEF NextSlice, Before
    <3> QED
      BY <3>2, <3>3
  <2>2. Taken(w) = [w EXCEPT !.remaining = w.remaining \ slice.uids]
    BY <1>2 DEF Taken
  <2> HIDE DEF slice
  <2>3. /\ Taken(w).narrowed = <<>> /\ Taken(w).remaining = w.remaining \ slice.uids
        /\ Taken(w).walk = w.walk /\ Taken(w).top = w.top
    BY <1>2, <2>2 DEF Walks
  <2>4. DOMAIN (<<>>) = {}
    OBVIOUS
  <2>5. Pending(w) = w.remaining /\ Pending(Taken(w)) = w.remaining \ slice.uids
    BY <1>0, <1>2, <2>3, <2>4 DEF Pending
  <2>6. Ordered(Taken(w))
    BY <2>3, <2>4 DEF Ordered
  <2> QED
    BY <2>1, <2>3, <2>5, <2>6 DEF slice
<1> QED
  BY <1>1, <1>2

\* A slice the walk reaches before all it waits for, put on top.
LEMMA Putting ==
    ASSUME NEW w \in Walks, Ordered(w), NEW slice \in Slices,
           Before(w.walk, slice.uids, Pending(w))
    PROVE  /\ Put(w, slice) \in Walks /\ Ordered(Put(w, slice))
           /\ Pending(Put(w, slice)) = Pending(w) \cup slice.uids
           /\ Put(w, slice).walk = w.walk /\ Put(w, slice).top = w.top
<1> DEFINE n == w.narrowed
           k == Len(n)
           m == Append(n, slice)
<1>1. n \in Seq(Slices) /\ k \in Nat /\ DOMAIN n = 1..k
  BY DEF Walks
<1>2. DOMAIN m = 1..(k + 1) /\ m[k + 1] = slice /\ \A i \in 1..k : m[i] = n[i]
  BY <1>1
<1>3. Put(w, slice) = [w EXCEPT !.narrowed = m]
  BY DEF Put
<1> HIDE DEF m, n
<1>4. /\ Put(w, slice).narrowed = m /\ Put(w, slice).remaining = w.remaining
      /\ Put(w, slice).walk = w.walk /\ Put(w, slice).top = w.top
  BY <1>3 DEF Walks
<1>5. slice.uids \in SUBSET Uids
  BY DEF Slices
<1>6. \A i \in 1..(k + 1) : i \in 1..k \/ i = k + 1
  BY <1>1
<1>7. 1..k \subseteq 1..(k + 1) /\ k + 1 \in 1..(k + 1)
  BY <1>1
<1>8. Pending(Put(w, slice)) = Pending(w) \cup slice.uids
  BY <1>1, <1>2, <1>4, <1>5, <1>6, <1>7 DEF Pending, n
<1>9. /\ \A i \in 1..k : Before(w.walk, slice.uids, n[i].uids)
      /\ Before(w.walk, slice.uids, w.remaining)
  <2>1. \A i \in 1..k : n[i].uids \subseteq Pending(w)
    <3>1. \A i \in 1..k : n[i].uids \in SUBSET Uids
      <4>1. \A i \in 1..k : n[i] \in Slices
        BY <1>1
      <4> QED
        BY <4>1 DEF Slices
    <3> QED
      BY <1>1, <3>1 DEF Pending, n
  <2>2. w.remaining \subseteq Pending(w)
    BY DEF Pending, Walks
  <2> QED
    BY <2>1, <2>2 DEF Before, Below
<1>10. Ordered(Put(w, slice))
  <2>1. \A i \in 1..k : ~(k + 1 < i)
    BY <1>1
  <2>2. \A i \in 1..(k + 1) : Before(w.walk, m[i].uids, w.remaining)
    BY <1>1, <1>2, <1>6, <1>9 DEF Ordered, n
  <2>3. ASSUME NEW i \in 1..(k + 1), NEW j \in 1..(k + 1), i < j
        PROVE  Before(w.walk, m[j].uids, m[i].uids)
    <3>1. i \in 1..k
      BY <1>1, <2>3
    <3>2. CASE j = k + 1
      BY <1>2, <1>9, <3>1, <3>2
    <3>3. CASE j \in 1..k
      BY <1>1, <1>2, <2>3, <3>1, <3>3 DEF Ordered, n
    <3> QED
      BY <1>6, <3>2, <3>3
  <2> QED
    BY <1>2, <1>4, <2>2, <2>3 DEF Ordered
<1> QED
  BY <1>4, <1>8, <1>10, PutType

\* A slice put back is waited for, whatever the walk's order.
LEMMA PutWaits ==
    ASSUME NEW w \in Walks, NEW slice \in Slices
    PROVE  Waits(Put(w, slice)) /\ Put(w, slice).top = w.top
<1>1. /\ Put(w, slice).narrowed = Append(w.narrowed, slice)
      /\ Put(w, slice).top = w.top
  BY DEF Put, Walks
<1>2. w.narrowed \in Seq(Slices)
  BY DEF Walks
<1>3. Append(w.narrowed, slice) # <<>>
  BY <1>2
<1> QED
  BY <1>1, <1>3 DEF Waits

\* Neither part of a set is empty where it is more than one takes.
LEMMA PartsFull ==
    ASSUME NEW S \in SUBSET Uids, S # {}, NEW n \in Nat, n >= 1
    PROVE  /\ Lowest(S, n) # {} /\ Highest(S, n) # {}
           /\ n < Cardinality(S) => S \ Lowest(S, n) # {}
<1>1. /\ Min(S) \in S /\ \A u \in S : Min(S) <= u
      /\ Max(S) \in S /\ \A u \in S : u <= Max(S)
  BY UidRange
<1>2. \A u \in S : u \in Nat
  BY BoundsAssumption DEF Uids
<1>3. Cardinality({}) = 0
  BY FS_EmptySet
<1>4. Min(S) \in Lowest(S, n)
  <2>1. {v \in S : v < Min(S)} = {}
    BY <1>1, <1>2
  <2> QED
    BY <1>1, <1>3, <2>1 DEF Lowest
<1>5. Max(S) \in Highest(S, n)
  <2>1. {v \in S : v > Max(S)} = {}
    BY <1>1, <1>2
  <2> QED
    BY <1>1, <1>3, <2>1 DEF Highest
<1>6. ASSUME n < Cardinality(S) PROVE Max(S) \notin Lowest(S, n)
  <2> DEFINE X == {v \in S : v < Max(S)}
  <2>1. X = S \ {Max(S)}
    BY <1>1, <1>2
  <2>2. Cardinality(X) = Cardinality(S) - 1 /\ Cardinality(S) \in Nat
    BY <1>1, <2>1, UidsFinite, FS_RemoveElement
  <2>3. ~(Cardinality(X) < n)
    BY <1>6, <2>2
  <2> QED
    BY <2>3 DEF Lowest
<1> QED
  BY <1>1, <1>4, <1>5, <1>6

\* What a narrowing is: one slice left out, or the failed slice put back
\* whole, without its structure, or in halves.
LEMMA NarrowCases ==
    ASSUME NEW w \in Walks, NEW slice \in Slices
    PROVE  \E v \in Walks :
             /\ v.walk = w.walk /\ v.remaining = w.remaining /\ v.narrowed = w.narrowed
             /\ v.top = w.top
             /\ LeavesOut(w, slice) => Narrow(w, slice) = v
             /\ ~LeavesOut(w, slice) =>
                  \/ \E s \in Slices : s.uids = slice.uids /\ Narrow(w, slice) = Put(v, s)
                  \/ \E s, t \in Slices :
                       /\ s.uids \cup t.uids = slice.uids /\ s.uids # {} /\ t.uids # {}
                       /\ Before(w.walk, t.uids, s.uids)
                       /\ Narrow(w, slice) = Put(Put(v, s), t)
<1> DEFINE spent == [w EXCEPT !.budget = @ - 1]
           lower == Lowest(slice.uids, Cardinality(slice.uids) \div 2)
           upper == slice.uids \ lower
           Half(uids) == [slice EXCEPT !.uids = uids]
<1>1. CASE w.budget = 0
  <2>1. Narrow(w, slice) = Put(w, slice) /\ ~LeavesOut(w, slice)
    BY <1>1 DEF Narrow, LeavesOut
  <2> QED
    BY <2>1
<1>2. CASE w.budget # 0
  <2>1. /\ spent \in Walks /\ w.budget > 0
        /\ spent.walk = w.walk /\ spent.remaining = w.remaining
        /\ spent.narrowed = w.narrowed /\ spent.top = w.top
    BY <1>2 DEF Walks
  <2>2. slice.uids \in SUBSET Uids /\ Cardinality(slice.uids) \in Nat
    BY UidsFinite DEF Slices
  <2>3. CASE LeavesOut(w, slice)
    <3>1. Narrow(w, slice) = spent
      BY <1>2, <2>1, <2>3 DEF Narrow, LeavesOut
    <3> HIDE DEF spent
    <3> QED
      BY <2>1, <2>3, <3>1
  <2>4. CASE ~LeavesOut(w, slice) /\ ~(Cardinality(slice.uids) > 1)
    <3>1. Narrow(w, slice) = Put(spent, [slice EXCEPT !.structure = FALSE])
      BY <1>2, <2>1, <2>4 DEF Narrow
    <3>2. /\ [slice EXCEPT !.structure = FALSE] \in Slices
          /\ [slice EXCEPT !.structure = FALSE].uids = slice.uids
      BY DEF Slices
    <3> HIDE DEF spent
    <3> QED
      BY <2>1, <2>4, <3>1, <3>2
  <2>5. CASE ~LeavesOut(w, slice) /\ Cardinality(slice.uids) > 1
    <3>1. Narrow(w, slice) = IF w.walk = "down" THEN Put(Put(spent, Half(lower)), Half(upper))
                                                ELSE Put(Put(spent, Half(upper)), Half(lower))
      BY <1>2, <2>1, <2>5 DEF Narrow
    <3>2. Cardinality(slice.uids) \div 2 \in Nat
      BY <2>2
    <3>3. Below(lower, upper) /\ lower \in SUBSET slice.uids
      BY <2>2, <3>2, PartsApart, PartType
    <3>4. /\ Half(lower) \in Slices /\ Half(lower).uids = lower
          /\ Half(upper) \in Slices /\ Half(upper).uids = upper
      BY <2>2, <3>3 DEF Slices
    <3>5. lower \cup upper = slice.uids /\ lower # {} /\ upper # {}
      <4>1. Cardinality(slice.uids) \div 2 >= 1
            /\ Cardinality(slice.uids) \div 2 < Cardinality(slice.uids)
        BY <2>2, <2>5
      <4>2. slice.uids # {}
        BY <2>5, FS_EmptySet
      <4>3. lower # {} /\ upper # {}
        BY <2>2, <3>2, <4>1, <4>2, PartsFull
      <4> QED
        BY <3>3, <4>3
    <3> HIDE DEF spent, lower, upper, Half
    <3>6. CASE w.walk = "down"
      <4>1. /\ Half(lower).uids \cup Half(upper).uids = slice.uids
            /\ Half(lower).uids # {} /\ Half(upper).uids # {}
            /\ Before(w.walk, Half(upper).uids, Half(lower).uids)
            /\ Narrow(w, slice) = Put(Put(spent, Half(lower)), Half(upper))
        BY <3>1, <3>3, <3>4, <3>5, <3>6 DEF Before
      <4> QED
        BY <2>1, <2>5, <3>4, <4>1
    <3>7. CASE w.walk # "down"
      <4>1. /\ Half(upper).uids \cup Half(lower).uids = slice.uids
            /\ Half(upper).uids # {} /\ Half(lower).uids # {}
            /\ Before(w.walk, Half(lower).uids, Half(upper).uids)
            /\ Narrow(w, slice) = Put(Put(spent, Half(upper)), Half(lower))
        BY <3>1, <3>3, <3>4, <3>5, <3>7 DEF Before
      <4> QED
        BY <2>1, <2>5, <3>4, <4>1
    <3> QED
      BY <3>6, <3>7
  <2> QED
    BY <2>3, <2>4, <2>5
<1> QED
  BY <1>1, <1>2

\* A narrowed walk waits for what it waited for and the failed slice, but for
\* a message left out, in the same order.
LEMMA Narrowing ==
    ASSUME NEW w \in Walks, Ordered(w), NEW slice \in Slices,
           Before(w.walk, slice.uids, Pending(w))
    PROVE  /\ Narrow(w, slice) \in Walks /\ Ordered(Narrow(w, slice))
           /\ Narrow(w, slice).walk = w.walk /\ Narrow(w, slice).top = w.top
           /\ Narrow(w, slice).validity = w.validity
           /\ Pending(Narrow(w, slice)) = IF LeavesOut(w, slice) THEN Pending(w)
                                          ELSE Pending(w) \cup slice.uids
           /\ ~LeavesOut(w, slice) => Waits(Narrow(w, slice))
<1>0. PICK v \in Walks :
        /\ v.walk = w.walk /\ v.remaining = w.remaining /\ v.narrowed = w.narrowed
        /\ v.top = w.top
        /\ LeavesOut(w, slice) => Narrow(w, slice) = v
        /\ ~LeavesOut(w, slice) =>
             \/ \E s \in Slices : s.uids = slice.uids /\ Narrow(w, slice) = Put(v, s)
             \/ \E s, t \in Slices :
                  /\ s.uids \cup t.uids = slice.uids /\ s.uids # {} /\ t.uids # {}
                  /\ Before(w.walk, t.uids, s.uids)
                  /\ Narrow(w, slice) = Put(Put(v, s), t)
  BY NarrowCases
<1>1. Pending(v) = Pending(w) /\ Ordered(v) /\ v.walk = w.walk /\ v.top = w.top
  BY <1>0 DEF Pending, Ordered
<1>2. Narrow(w, slice) \in Walks /\ Narrow(w, slice).validity = w.validity
  BY NarrowType
<1>3. CASE LeavesOut(w, slice)
  BY <1>0, <1>1, <1>2, <1>3
<1>4. CASE ~LeavesOut(w, slice) /\
            \E s \in Slices : s.uids = slice.uids /\ Narrow(w, slice) = Put(v, s)
  <2>1. PICK s \in Slices : s.uids = slice.uids /\ Narrow(w, slice) = Put(v, s)
    BY <1>4
  <2>2. Before(v.walk, s.uids, Pending(v))
    BY <1>1, <2>1
  <2>3. /\ Ordered(Put(v, s)) /\ Pending(Put(v, s)) = Pending(v) \cup s.uids
        /\ Put(v, s).walk = v.walk /\ Put(v, s).top = v.top
    BY <1>1, <2>2, Putting
  <2>4. Waits(Put(v, s))
    BY PutWaits
  <2> QED
    BY <1>1, <1>2, <1>4, <2>1, <2>3, <2>4
<1>5. CASE ~LeavesOut(w, slice) /\
            \E s, t \in Slices : /\ s.uids \cup t.uids = slice.uids /\ s.uids # {} /\ t.uids # {}
                                 /\ Before(w.walk, t.uids, s.uids)
                                 /\ Narrow(w, slice) = Put(Put(v, s), t)
  <2>1. PICK s, t \in Slices : /\ s.uids \cup t.uids = slice.uids /\ s.uids # {} /\ t.uids # {}
                               /\ Before(w.walk, t.uids, s.uids)
                               /\ Narrow(w, slice) = Put(Put(v, s), t)
    BY <1>5
  <2> DEFINE one == Put(v, s)
  <2>2. Before(v.walk, s.uids, Pending(v)) /\ Before(v.walk, t.uids, Pending(v))
    BY <1>1, <2>1 DEF Before, Below
  <2>3. /\ one \in Walks /\ Ordered(one) /\ Pending(one) = Pending(v) \cup s.uids
        /\ one.walk = v.walk /\ one.top = v.top
    BY <1>1, <2>2, Putting
  <2> HIDE DEF one
  <2>4. Before(one.walk, t.uids, Pending(one))
    BY <1>1, <2>1, <2>2, <2>3 DEF Before, Below
  <2>5. /\ Ordered(Put(one, t)) /\ Pending(Put(one, t)) = Pending(one) \cup t.uids
        /\ Put(one, t).walk = one.walk /\ Put(one, t).top = one.top
    BY <2>3, <2>4, Putting
  <2>6. Waits(Put(one, t))
    BY <2>3, PutWaits
  <2>7. Narrow(w, slice) = Put(one, t)
    BY <2>1 DEF one
  <2> QED
    BY <1>1, <1>2, <1>5, <2>1, <2>3, <2>5, <2>6, <2>7
<1> QED
  BY <1>0, <1>3, <1>4, <1>5

\* A walk upward asks for nothing above its top.
Under(w) == \A u \in Pending(w) : u <= w.top

\* A walk widened reaches up to `through`; the UIDs it gained come last.
LEMMA Widening ==
    ASSUME NEW w \in Walks, w.walk = "up", Ordered(w), Under(w),
           NEW through \in (-2)..MaxUid, ExtendTo(w, through) # NoWalk
    PROVE  LET v == ExtendTo(w, through)
           IN  /\ v.walk = "up" /\ v.validity = w.validity
               /\ Ordered(v) /\ Under(v)
               /\ v.top = Larger(w.top, through)
               /\ Pending(v) = Pending(w) \cup {u \in Uids : w.top < u /\ u <= through}
               /\ Waits(w) => Waits(v)
<1> DEFINE v == ExtendTo(w, through)
<1>0. w.top \in Nat /\ through \in Int /\ REFRESH_GAP \in Nat
      /\ w.remaining \in SUBSET Uids
  BY BoundsAssumption DEF Walks
<1>1. CASE through <= w.top
  <2>1. v = w
    BY <1>1 DEF ExtendTo
  <2>2. Larger(w.top, through) = w.top
    BY <1>0, <1>1 DEF Larger
  <2>3. {u \in Uids : w.top < u /\ u <= through} = {}
    BY <1>0, <1>1, BoundsAssumption DEF Uids
  <2> QED
    BY <2>1, <2>2, <2>3
<1>2. CASE ~(through <= w.top)
  <2> DEFINE more == {u \in Uids : w.top < u /\ u <= through}
  <2>1. v = [w EXCEPT !.remaining = w.remaining \cup ((w.top + 1)..through), !.top = through]
    BY <1>0, <1>2 DEF ExtendTo
  <2>2. (w.top + 1)..through = more
    BY <1>0, <1>2, BoundsAssumption DEF Uids
  <2>3. /\ v.remaining = w.remaining \cup more /\ v.top = through
        /\ v.narrowed = w.narrowed /\ v.walk = w.walk /\ v.validity = w.validity
    BY <2>1, <2>2 DEF Walks
  <2>4. Larger(w.top, through) = through
    BY <1>0, <1>2 DEF Larger
  <2> HIDE DEF v, more
  <2>5. more \in SUBSET Uids
    BY DEF more
  <2>6. Pending(v) = Pending(w) \cup more
    BY <2>3, <2>5 DEF Pending
  <2>7. Under(v)
    <3>1. \A u \in Pending(w) : u \in Int /\ u <= w.top
      BY BoundsAssumption DEF Under, Pending, Uids
    <3>2. \A u \in more : u <= through
      BY DEF more
    <3> QED
      BY <1>0, <1>2, <2>3, <2>6, <3>1, <3>2 DEF Under
  <2>8. Ordered(v)
    <3>1. \A i \in DOMAIN w.narrowed : Below(w.narrowed[i].uids, more)
      <4>1. \A i \in DOMAIN w.narrowed : w.narrowed[i].uids \in SUBSET Uids
        <5>1. w.narrowed \in Seq(Slices)
          BY DEF Walks
        <5>2. \A i \in DOMAIN w.narrowed : w.narrowed[i] \in Slices
          BY <5>1
        <5> QED
          BY <5>2 DEF Slices
      <4>2. \A i \in DOMAIN w.narrowed : \A u \in w.narrowed[i].uids : u \in Int /\ u <= w.top
        BY <4>1, BoundsAssumption DEF Under, Pending, Uids
      <4>3. \A u \in more : u \in Int /\ w.top < u
        BY BoundsAssumption DEF more, Uids
      <4> QED
        BY <1>0, <4>2, <4>3 DEF Below
    <3> QED
      BY <2>3, <3>1 DEF Ordered, Before, Below
  <2>9. Waits(w) => Waits(v)
    BY <2>3 DEF Waits
  <2> QED
    BY <2>3, <2>4, <2>6, <2>7, <2>8, <2>9 DEF v, more
<1> QED
  BY <1>1, <1>2

\* A fresh walk upward asks for every UID in between or for those present.
LEMMA Rising ==
    ASSUME NEW validity \in Int, NEW from \in Nat \ {0}, NEW through \in (-2)..MaxUid,
           from <= through
    PROVE  LET v == Above(validity, from, through)
           IN  /\ v.walk = "up" /\ v.validity = validity /\ v.top = through
               /\ Ordered(v) /\ Under(v)
               /\ \A u \in Present : from <= u /\ u <= through => u \in Pending(v)
<1> DEFINE v == Above(validity, from, through)
           asked == IF through - from < REFRESH_GAP
                    THEN from..through ELSE Present \cap (from..through)
<1>1. v = [NoWalk EXCEPT !.walk = "up", !.validity = validity,
             !.budget = NARROWING_BUDGET, !.top = through, !.remaining = asked]
  BY DEF Above
<1>2. asked \in SUBSET Uids /\ asked \subseteq from..through
  BY BoundsAssumption DEF Uids, Present
<1>3. \A u \in Present : from <= u /\ u <= through => u \in asked
  BY BoundsAssumption DEF Present, Uids
<1> HIDE DEF asked, v
<1>4. /\ v.walk = "up" /\ v.validity = validity /\ v.top = through
      /\ v.remaining = asked /\ v.narrowed = <<>>
  BY <1>1 DEF NoWalk
<1>5. DOMAIN (<<>>) = {}
  OBVIOUS
<1>6. Pending(v) = asked
  BY <1>2, <1>4, <1>5 DEF Pending
<1>7. Ordered(v) /\ Under(v)
  <2>1. \A u \in from..through : u <= through
    BY BoundsAssumption
  <2>2. Under(v)
    BY <1>2, <1>4, <1>6, <2>1 DEF Under
  <2> QED
    BY <1>4, <1>5, <2>2 DEF Ordered
<1> QED
  BY <1>3, <1>4, <1>6, <1>7 DEF v

-----------------------------------------------------------------------------
(* The inductive invariant *)

\* The cache accounts for what the server has under UID u.
Accounted(u) ==
    box[u].msg # NoMessage => \/ rows[u].msg = box[u].msg
                              \/ box[u].msg \in leftOut \cup marked

\* The history of \Deleted knows every message that bears it.
DeletedInv ==
    \A u \in Uids : box[u].msg # NoMessage /\ box[u].deleted => box[u].msg \in marked

\* The store: what its progress covers is accounted for.
StoreSkip ==
    /\ row = NULL => progress = NoProgress
    /\ progress.synced.messages = NULL => progress.lowest = NULL
    /\ Stands => progress.synced.uid_next <= uidNext
    /\ Stands => \A u \in Uids : Covered(u) => Accounted(u)

\* The UIDNEXT the first sync has on record, or puts there first.
FirstNext == IF progress.synced.messages = NULL THEN sync.opened.uid_next
                                                ELSE progress.synced.uid_next

\* The task: below FirstNext a walk down has accounted for all it does not
\* wait for, and waits for nothing above the lowest UID on record.
TaskSkip ==
    /\ sync.walk \in {"none", "opening", "down"}
    /\ sync.walk # "none" => sync.validity \in 1..uidValidity
    /\ sync.walk # "none" /\ sync.validity = uidValidity =>
         Stands /\ sync.opened.uid_next <= uidNext
    /\ sync.walk = "opening" =>
         ~progress.done /\ sync.validity = uidValidity /\ sync.narrowed = <<>>
    /\ sync.walk = "down" => Ordered(sync)
    /\ sync.walk = "down" /\ sync.validity = uidValidity /\ progress.done => ~Waits(sync)
    /\ sync.walk = "down" /\ sync.validity = uidValidity /\ ~progress.done =>
         /\ progress.lowest # NULL => \A u \in Pending(sync) : u < progress.lowest
         /\ \A u \in Uids : u < FirstNext => u \in Pending(sync) \/ Accounted(u)

\* A walk upward of the present numbering has accounted for all up to its top
\* that it does not wait for.
UpSkip(w) ==
    /\ w.walk = "up" /\ Ordered(w) /\ Under(w) /\ w.validity \in 1..uidValidity
    /\ w.validity = uidValidity =>
         /\ Stands /\ w.top < uidNext
         /\ \A u \in Uids : u <= w.top => u \in Pending(w) \/ Accounted(u)

\* The refresh: once its walk is over, what lies below the UIDNEXT it puts on
\* record is accounted for.  A walk of an older numbering still waits, and
\* finds the folder renumbered when it writes.
RefreshSkip ==
    /\ kept # NoWalk => UpSkip(kept) /\ (leftOut = {} => Waits(kept))
    /\ refresh.phase # "idle" =>
         /\ progress.done /\ refresh.validity \in 1..uidValidity
         /\ refresh.validity = uidValidity => refresh.facts.uid_next <= uidNext
    /\ refresh.phase \in {"walk", "flags", "count", "advance"} =>
         Stands /\ refresh.validity = uidValidity
    /\ refresh.phase = "walk" =>
         /\ UpSkip(refresh.walk)
         /\ refresh.walk.validity # uidValidity => Waits(refresh.walk)
         /\ refresh.facts.uid_next <= refresh.walk.top + 1
    /\ refresh.phase \in {"flags", "count", "advance"} =>
         \A u \in Uids : u < refresh.facts.uid_next => Accounted(u)

SkipInv == DeletedInv /\ StoreSkip /\ TaskSkip /\ RefreshSkip

\* No write was cut from its turn, and no folder was both renumbered and left
\* without one of its messages.
Whole == detached = {} /\ (leftOut = {} \/ uidValidity = 1)

-----------------------------------------------------------------------------
(* What a write accounts for and puts on record *)

\* The fetch of a slice answers every UID of it that is there.
LEMMA Fetched ==
    ASSUME NEW slice \in Slices
    PROVE  \A u \in slice.uids : u \in Answer(slice) \/ box[u].msg = NoMessage
<1> SUFFICES ASSUME NEW u \in slice.uids PROVE u \in Answer(slice) \/ box[u].msg = NoMessage
  OBVIOUS
<1>1. slice.uids \in SUBSET Uids /\ u \in Uids
  BY DEF Slices
<1>2. /\ Min(slice.uids) \in Uids /\ Max(slice.uids) \in Uids
      /\ Min(slice.uids) <= u /\ u <= Max(slice.uids)
  BY <1>1, UidRange
<1> QED
  BY <1>1, <1>2, BoundsAssumption DEF Answer, Asked, Present, Uids

\* A write under the present numbering leaves no message unaccounted for that
\* was accounted for, and accounts for what the fetch answered.
LEMMA WriteAccounts ==
    ASSUME TypeOK, NumberingInv, DeletedInv, Stands,
           NEW w \in Walks, NEW uids, NEW passed \in SUBSET Uids, w.validity = uidValidity,
           WriteBatch(Batch(w, uids, passed)), UNCHANGED server, leftOut \subseteq leftOut'
    PROVE  /\ row' = row
           /\ \A u \in Uids : Accounted(u) => Accounted(u)'
           /\ \A u \in Uids \cap uids : Accounted(u)'
           /\ progress' = Saved(progress, Batch(w, uids, passed).advance)
<1> DEFINE b == Batch(w, uids, passed)
           fresh == {u \in Uids : b.emails[u].msg # NoMessage /\ u \notin Held}
<1>1. Pinned(b.validity)
  BY BatchType DEF Pinned, Stands
<1>2. /\ rows' = [u \in Uids |-> IF u \in fresh THEN b.emails[u] ELSE rows[u]]
      /\ progress' = Saved(progress, b.advance) /\ row' = row
  BY <1>1 DEF WriteBatch
<1>3. box' = box /\ marked' = marked
  BY DEF server
<1>4. b.emails = Emails(uids)
  BY DEF Batch
<1> HIDE DEF b
<1>5. \A u \in Uids : Accounted(u) => Accounted(u)'
  BY <1>2, <1>3 DEF Accounted, Held
<1>6. ASSUME NEW u \in Uids \cap uids PROVE Accounted(u)'
  <2>1. CASE box[u].msg = NoMessage
    BY <1>3, <2>1 DEF Accounted
  <2>2. CASE box[u].msg # NoMessage /\ u \in Held
    BY <1>2, <1>3, <2>2 DEF NumberingInv, Matches, Held, Accounted
  <2>3. CASE box[u].msg # NoMessage /\ box[u].deleted
    BY <1>3, <2>3 DEF DeletedInv, Accounted
  <2>4. CASE box[u].msg # NoMessage /\ u \notin Held /\ ~box[u].deleted
    <3>1. b.emails[u].msg = box[u].msg
      BY <1>4, <1>6, <2>4 DEF Emails, Present
    <3>2. u \in fresh
      BY <2>4, <3>1
    <3> HIDE DEF fresh
    <3>3. rows'[u] = b.emails[u]
      BY <1>2, <3>2
    <3> QED
      BY <1>3, <3>1, <3>3 DEF Accounted
  <2> QED
    BY <2>1, <2>2, <2>3, <2>4
<1> QED
  BY <1>2, <1>5, <1>6 DEF b

\* What a walk down puts on record.
LEMMA SavedDown ==
    ASSUME NEW p \in Progress, NEW w \in Walks, NEW uids, NEW passed \in SUBSET Uids,
           w.walk = "down"
    PROVE  LET q == Saved(p, Batch(w, uids, passed).advance)
           IN  /\ q.lowest = IF passed = {} THEN p.lowest ELSE Min(passed)
               /\ q.done = ~Waits(w)
               /\ q.synced = IF p.synced.messages = NULL THEN w.opened ELSE p.synced
<1> DEFINE a == Batch(w, uids, passed).advance
<1>1. /\ a.walk = "down" /\ a.done = ~Waits(w) /\ a.synced = w.opened
      /\ a.lowest = IF passed = {} THEN NULL ELSE Min(passed)
  BY DEF Batch, Advance
<1> HIDE DEF a
<1>2. passed # {} => Min(passed) # NULL
  BY UidRange, BoundsAssumption DEF Uids, NULL
<1>3. Coalesce(a.lowest, p.lowest) = IF passed = {} THEN p.lowest ELSE Min(passed)
  BY <1>1, <1>2 DEF Coalesce
<1> QED
  BY <1>1, <1>3 DEF Saved, a

\* What a walk upward puts on record.
LEMMA SavedUp ==
    ASSUME NEW p \in Progress, NEW w \in Walks, NEW uids, NEW passed \in SUBSET Uids,
           w.walk = "up", p.synced.messages \in Nat,
           Cardinality(uids \cap Present) \in Nat
    PROVE  LET q == Saved(p, Batch(w, uids, passed).advance)
           IN  /\ q.lowest = p.lowest /\ q.done = p.done /\ q.synced.messages \in Nat
               /\ \/ q.synced.uid_next = p.synced.uid_next
                  \/ q.synced.uid_next = 0
                  \/ passed # {} /\ q.synced.uid_next = Max(passed) + 1
               /\ q.synced.messages = p.synced.messages + Cardinality(uids \cap Present)
               /\ p.synced.uid_next <= q.synced.uid_next
               /\ passed # {} => Max(passed) < q.synced.uid_next
<1> DEFINE a == Batch(w, uids, passed).advance
           c == Coalesce(p.synced.uid_next, 0)
           next == Larger(c, a.uid_next)
           count == p.synced.messages + a.arrived
<1>1. /\ a.walk = "up" /\ a.arrived = Cardinality(uids \cap Present)
      /\ a.uid_next = IF passed = {} THEN NULL ELSE Max(passed) + 1
  BY DEF Batch, Advance
<1>2. count \in Nat /\ p.synced.messages # NULL
  BY <1>1 DEF NULL
<1>3. Saved(p, a) = [p EXCEPT !.synced.uid_next = next, !.synced.messages = count]
  BY <1>1, <1>2 DEF Saved
<1>4. next \in {p.synced.uid_next, 0} \/ (passed # {} /\ next = Max(passed) + 1)
  <2>1. c \in {p.synced.uid_next, 0} /\ c \in Nat
    BY BoundsAssumption DEF Coalesce, Progress, Synced, NULL
  <2>2. next \in {c, a.uid_next}
    BY DEF Larger
  <2>3. passed = {} => next = c
    <3>1. passed = {} => a.uid_next = -1
      BY <1>1 DEF NULL
    <3> HIDE DEF a, c
    <3> QED
      BY <2>1, <3>1 DEF Larger
  <2>4. passed # {} => a.uid_next = Max(passed) + 1
    BY <1>1
  <2> HIDE DEF a, c, next
  <2>5. CASE passed = {}
    BY <2>1, <2>3, <2>5
  <2>6. CASE passed # {}
    BY <2>1, <2>2, <2>4, <2>6
  <2> QED
    BY <2>5, <2>6
<1>6. p.synced.uid_next <= next /\ (passed # {} => Max(passed) < next)
  <2>1. c \in Nat /\ p.synced.uid_next <= c
    BY BoundsAssumption DEF Coalesce, Progress, Synced, NULL
  <2>2. a.uid_next \in Int /\ (passed # {} => Max(passed) \in Int /\ a.uid_next = Max(passed) + 1)
    <3>1. CASE passed = {}
      BY <1>1, <3>1 DEF NULL
    <3>2. CASE passed # {}
      <4>1. Max(passed) \in Uids
        BY <3>2, UidRange
      <4>2. Max(passed) \in Int
        BY <4>1, BoundsAssumption DEF Uids
      <4> HIDE DEF a, c
      <4> QED
        BY <1>1, <3>2, <4>2
    <3> QED
      BY <3>1, <3>2
  <2>3. p.synced.uid_next \in Int
    BY BoundsAssumption DEF Progress, Synced, NULL
  <2> HIDE DEF a, c
  <2>4. next \in Int /\ c <= next /\ a.uid_next <= next
    BY <2>1, <2>2 DEF Larger
  <2> HIDE DEF next
  <2> QED
    BY <2>1, <2>2, <2>3, <2>4
<1> HIDE DEF a, c, next, count
<1>5. /\ Saved(p, a).lowest = p.lowest /\ Saved(p, a).done = p.done
      /\ Saved(p, a).synced.messages = count /\ Saved(p, a).synced.uid_next = next
  <2>1. Saved(p, a).synced = [p.synced EXCEPT !.uid_next = next, !.messages = count]
    BY <1>3 DEF Progress
  <2>2. p.synced \in Synced
    BY DEF Progress
  <2> QED
    BY <1>3, <2>1, <2>2 DEF Progress, Synced
<1>7. count = p.synced.messages + Cardinality(uids \cap Present)
  BY <1>1 DEF count
<1> QED
  BY <1>2, <1>4, <1>5, <1>6, <1>7 DEF a

-----------------------------------------------------------------------------
(* The steps *)

\* A step that leaves alone what a part of the invariant is about keeps it.
LEMMA SkipKept ==
    ASSUME SkipInv, UNCHANGED server, leftOut' = leftOut, UNCHANGED <<row, rows, progress>>
    PROVE  /\ DeletedInv' /\ StoreSkip'
           /\ \A u \in Uids : Accounted(u)' = Accounted(u)
           /\ sync' = sync \/ sync' = NoWalk => TaskSkip'
           /\ (refresh' = refresh \/ refresh' = Idle) /\ kept' \in {kept, NoWalk}
                => RefreshSkip'
<1>1. /\ UNCHANGED <<uidValidity, uidNext, box, marked, leftOut>>
      /\ UNCHANGED <<row, rows, progress>>
  BY DEF server
<1>2. \A u \in Uids : Accounted(u)' = Accounted(u)
  BY <1>1 DEF Accounted
<1>3. DeletedInv' /\ StoreSkip'
  BY <1>1, <1>2 DEF SkipInv, DeletedInv, StoreSkip, Stands, Covered
<1>4. sync' = sync \/ sync' = NoWalk => TaskSkip'
  <2>1. CASE sync' = sync
    BY <1>1, <1>2, <2>1 DEF SkipInv, TaskSkip, FirstNext, Stands
  <2>2. CASE sync' = NoWalk
    BY <2>2 DEF TaskSkip, NoWalk
  <2> QED
    BY <2>1, <2>2
<1>5. (refresh' = refresh \/ refresh' = Idle) /\ kept' \in {kept, NoWalk} => RefreshSkip'
  <2> SUFFICES ASSUME refresh' = refresh \/ refresh' = Idle, kept' \in {kept, NoWalk}
               PROVE  RefreshSkip'
    OBVIOUS
  <2>1. \A w : UpSkip(w) => UpSkip(w)'
    BY <1>1, <1>2 DEF UpSkip, Stands
  <2>2. kept' # NoWalk => UpSkip(kept)' /\ (leftOut' = {} => Waits(kept'))
    <3> SUFFICES ASSUME kept' # NoWalk
                 PROVE  UpSkip(kept)' /\ (leftOut' = {} => Waits(kept'))
      OBVIOUS
    <3>1. kept' = kept /\ UpSkip(kept) /\ (leftOut = {} => Waits(kept))
      BY DEF SkipInv, RefreshSkip
    <3>2. UpSkip(kept)'
      BY <1>1, <1>2, <3>1 DEF UpSkip, Stands
    <3> QED
      BY <1>1, <3>1, <3>2
  <2>3. CASE refresh' = Idle
    BY <2>2, <2>3 DEF RefreshSkip, Idle
  <2>4. CASE refresh' = refresh
    <3>1. refresh.phase = "walk" => UpSkip(refresh.walk)'
      BY <1>1, <1>2, <2>4 DEF SkipInv, RefreshSkip, UpSkip, Stands
    <3> QED
      BY <1>1, <1>2, <2>2, <2>4, <3>1 DEF SkipInv, RefreshSkip, Stands
  <2> QED
    BY <2>3, <2>4
<1> QED
  BY <1>2, <1>3, <1>4, <1>5

\* The server's steps: what arrives lies at or above every UIDNEXT the bridge
\* has read, and a renumbering makes every walk of before a stale one.
LEMMA ServerSkip ==
    ASSUME TypeOK, NumberingInv, SkipInv, Whole', Server
    PROVE  SkipInv'
<1>0. /\ uidNext \in Nat /\ uidValidity \in Nat /\ \A u \in Uids : u \in Nat
  BY BoundsAssumption DEF TypeOK, Uids
<1>1. CASE Arrive \/ SetFlags \/ Expunge
  <2>1. /\ UNCHANGED <<uidValidity, row, rows, progress, sync, refresh, kept, leftOut>>
        /\ uidNext <= uidNext' /\ uidNext' \in Nat
        /\ marked \subseteq marked'
        /\ \A u \in Uids : u < uidNext =>
              box'[u].msg = NoMessage \/ box'[u].msg = box[u].msg
        /\ DeletedInv'
    <3>1. CASE Arrive
      <4>1. PICK v \in uidNext..MaxUid :
               /\ box' = [box EXCEPT ![v] = [msg |-> born + 1, mod |-> highestModseq + 1,
                                          deleted |-> FALSE]]
               /\ uidNext' = v + 1
        BY <3>1 DEF Arrive
      <4>2. v \in Nat /\ uidNext <= v
        BY <1>0, <4>1, BoundsAssumption
      <4>3. \A u \in Uids : box'[u] = box[u] \/ (u = v /\ ~box'[u].deleted)
        BY <4>1 DEF TypeOK
      <4>4. \A u \in Uids : u < uidNext => u # v
        BY <1>0, <4>2
      <4>5. UNCHANGED <<uidValidity, row, rows, progress, sync, refresh, kept, leftOut, marked>>
        BY <3>1 DEF Arrive, store, memory
      <4>6. DeletedInv'
        BY <4>3, <4>5 DEF SkipInv, DeletedInv
      <4>7. \A u \in Uids : u < uidNext => box'[u] = box[u]
        BY <4>1, <4>4 DEF TypeOK
      <4> QED
        BY <1>0, <4>1, <4>2, <4>5, <4>6, <4>7
    <3>2. CASE SetFlags
      <4>1. PICK v \in Present, d \in BOOLEAN :
               /\ box' = [box EXCEPT ![v] = [msg |-> box[v].msg, mod |-> highestModseq + 1,
                                             deleted |-> d]]
               /\ marked' = IF d THEN marked \cup {box[v].msg} ELSE marked
        BY <3>2 DEF SetFlags
      <4>2. /\ \A u \in Uids : box'[u].msg = box[u].msg
            /\ \A u \in Uids : box'[u] = box[u] \/ (u = v /\ box'[u].deleted = d)
        BY <4>1 DEF TypeOK, Present
      <4>3. DeletedInv'
        BY <4>1, <4>2 DEF SkipInv, DeletedInv
      <4>4. UNCHANGED <<uidValidity, uidNext, row, rows, progress, sync, refresh, kept, leftOut>>
        BY <3>2 DEF SetFlags, store, memory
      <4> QED
        BY <1>0, <4>1, <4>2, <4>3, <4>4
    <3>3. CASE Expunge
      <4>1. PICK v \in Present : box' = [box EXCEPT ![v] = Empty]
        BY <3>3 DEF Expunge
      <4>2. \A u \in Uids : box'[u] = box[u] \/ box'[u].msg = NoMessage
        BY <4>1 DEF TypeOK, Empty
      <4>3. UNCHANGED <<uidValidity, uidNext, row, rows, progress, sync, refresh, kept, leftOut, marked>>
        BY <3>3 DEF Expunge, store, memory
      <4>4. DeletedInv'
        BY <4>2, <4>3 DEF SkipInv, DeletedInv
      <4> QED
        BY <1>0, <4>2, <4>3, <4>4
    <3> QED
      BY <1>1, <3>1, <3>2, <3>3
  <2>2. \A u \in Uids : u < uidNext /\ Accounted(u) => Accounted(u)'
    BY <2>1 DEF Accounted
  <2>3. StoreSkip'
    <3>1. progress.synced.uid_next \in Int
      BY BoundsAssumption DEF TypeOK, Progress, Synced, NULL
    <3>2. ASSUME Stands', NEW u \in Uids, Covered(u)'
          PROVE  Accounted(u)'
      <4>1. Stands /\ Covered(u)
        BY <2>1, <3>2 DEF Stands, Covered
      <4>2. u < uidNext
        BY <1>0, <3>1, <4>1 DEF SkipInv, StoreSkip, Covered
      <4> QED
        BY <2>2, <4>1, <4>2 DEF SkipInv, StoreSkip
    <3> QED
      BY <1>0, <2>1, <3>1, <3>2 DEF SkipInv, StoreSkip, Stands
  <2>4. TaskSkip'
    <3>1. /\ progress.synced.uid_next \in Int /\ sync.opened.uid_next \in Int
      BY BoundsAssumption DEF TypeOK, Progress, Synced, Walks, NULL
    <3>2. FirstNext' = FirstNext /\ FirstNext \in Int
      BY <2>1, <3>1 DEF FirstNext
    <3>3. sync.walk # "none" /\ sync.validity = uidValidity => FirstNext <= uidNext
      BY DEF SkipInv, TaskSkip, StoreSkip, FirstNext
    <3>4. ASSUME sync.walk = "down", sync.validity = uidValidity, ~progress.done,
                 NEW u \in Uids, u < FirstNext
          PROVE  u \in Pending(sync) \/ Accounted(u)'
      <4>1. u < uidNext
        BY <1>0, <3>2, <3>3, <3>4
      <4> QED
        BY <2>2, <3>4, <4>1 DEF SkipInv, TaskSkip
    <3> QED
      BY <1>0, <2>1, <3>1, <3>2, <3>4 DEF SkipInv, TaskSkip, Stands
  <2>5. ASSUME NEW w \in Walks, UpSkip(w)
        PROVE  UpSkip(w)'
    <3>1. w.top \in Int
      BY DEF Walks
    <3>2. ASSUME w.validity = uidValidity, NEW u \in Uids, u <= w.top
          PROVE  u \in Pending(w) \/ Accounted(u)'
      <4>1. u < uidNext /\ (u \in Pending(w) \/ Accounted(u))
        BY <1>0, <2>5, <3>1, <3>2 DEF UpSkip
      <4> QED
        BY <2>2, <4>1
    <3> QED
      BY <1>0, <2>1, <2>5, <3>1, <3>2 DEF UpSkip, Stands
  <2>6. RefreshSkip'
    <3>1. /\ refresh.facts.uid_next \in Int /\ kept \in Walks /\ refresh.walk \in Walks
      BY BoundsAssumption DEF TypeOK, Refreshes, Synced, NULL
    <3>2. /\ kept # NoWalk => UpSkip(kept)'
          /\ refresh.phase = "walk" => UpSkip(refresh.walk)'
      <4>2. refresh.phase = "walk" => UpSkip(refresh.walk)'
        <5> SUFFICES ASSUME refresh.phase = "walk" PROVE UpSkip(refresh.walk)'
          OBVIOUS
        <5>1. UpSkip(refresh.walk)
          BY DEF SkipInv, RefreshSkip
        <5>2. PICK w \in Walks : w = refresh.walk
          BY <3>1
        <5>3. UpSkip(w)'
          BY <2>5, <5>1, <5>2
        <5> QED
          BY <2>1, <5>2, <5>3 DEF UpSkip
      <4>3. kept # NoWalk => UpSkip(kept)'
        <5> SUFFICES ASSUME kept # NoWalk PROVE UpSkip(kept)'
          OBVIOUS
        <5>1. UpSkip(kept)
          BY DEF SkipInv, RefreshSkip
        <5>2. PICK w \in Walks : w = kept
          BY <3>1
        <5>3. UpSkip(w)'
          BY <2>5, <5>1, <5>2
        <5> QED
          BY <2>1, <5>2, <5>3 DEF UpSkip
      <4> QED
        BY <4>2, <4>3
    <3>3. ASSUME refresh.phase \in {"flags", "count", "advance"},
                 NEW u \in Uids, u < refresh.facts.uid_next
          PROVE  Accounted(u)'
      <4>1. refresh.facts.uid_next <= uidNext /\ Accounted(u)
        BY <3>3 DEF SkipInv, RefreshSkip
      <4> QED
        BY <1>0, <2>2, <3>1, <3>3, <4>1
    <3>4. refresh.phase # "idle" /\ refresh.validity = uidValidity
            => refresh.facts.uid_next <= uidNext'
      BY <1>0, <2>1, <3>1 DEF SkipInv, RefreshSkip
    <3> QED
      BY <2>1, <3>2, <3>3, <3>4 DEF SkipInv, RefreshSkip, Stands
  <2> QED
    BY <2>1, <2>3, <2>4, <2>6 DEF SkipInv
<1>2. CASE Renumber
  <2>1. /\ UNCHANGED <<row, rows, progress, sync, refresh, kept, leftOut, marked>>
        /\ uidValidity' = uidValidity + 1 /\ ~Selected
    BY <1>2 DEF Renumber, store, memory
  <2>2. ~Stands'
    BY <1>0, <2>1 DEF NumberingInv, Stands, NULL
  <2>3. refresh.phase \notin {"walk", "flags", "count", "advance"} /\ sync.walk # "opening"
    BY <2>1 DEF Selected
  <2>4. \A n \in 1..uidValidity : n \in 1..uidValidity' /\ n # uidValidity'
    BY <1>0, <2>1
  <2>5. DeletedInv'
    <3>1. ASSUME NEW v \in Uids
          PROVE  box'[v] = Empty \/ \E u \in Present : box'[v] = box[u]
      BY <1>2 DEF Renumber
    <3>2. ASSUME NEW v \in Uids, box'[v].msg # NoMessage, box'[v].deleted
          PROVE  box'[v].msg \in marked
      <4>1. PICK u \in Present : box'[v] = box[u]
        BY <3>1, <3>2 DEF Empty
      <4>2. u \in Uids /\ box[u].msg # NoMessage
        BY DEF Present
      <4> QED
        BY <3>2, <4>1, <4>2 DEF SkipInv, DeletedInv
    <3> QED
      BY <2>1, <3>2 DEF DeletedInv
  <2>6. StoreSkip'
    BY <2>1, <2>2 DEF SkipInv, StoreSkip
  <2>7. TaskSkip'
    BY <2>1, <2>3, <2>4 DEF SkipInv, TaskSkip
  <2>8. kept # NoWalk => UpSkip(kept)'
    BY <2>1, <2>4 DEF SkipInv, RefreshSkip, UpSkip
  <2>9. RefreshSkip'
    BY <2>1, <2>3, <2>4, <2>8 DEF SkipInv, RefreshSkip
  <2> QED
    BY <2>5, <2>6, <2>7, <2>9 DEF SkipInv
<1> QED
  BY <1>1, <1>2 DEF Server

\* A write of the walk down: what it passed is accounted for, and what the
\* walk still waits for lies below the lowest UID it puts on record.
LEMMA WriteDown ==
    ASSUME TypeOK, NumberingInv, FlagsInv, SkipInv,
           sync.walk = "down", sync.validity = uidValidity,
           refresh' = Idle, kept' = kept, leftOut \subseteq leftOut',
           NEW w \in Walks, w.walk = "down", w.validity = uidValidity,
           w.opened = sync.opened, Ordered(w), sync' = w \/ sync' = NoWalk,
           NEW uids, NEW passed \in SUBSET Uids,
           WriteBatch(Batch(w, uids, passed)), UNCHANGED server,
           Pending(sync) = passed \cup Pending(w), Below(Pending(w), passed),
           ~Waits(sync) => ~Waits(w),
           \A u \in passed : u \in uids \/ Accounted(u)'
    PROVE  SkipInv'
<1>0. /\ Stands /\ UNCHANGED <<uidValidity, uidNext, box, marked>>
      /\ progress \in Progress /\ sync \in Walks
  BY DEF SkipInv, TaskSkip, server, TypeOK
<1>1. /\ row' = row /\ \A u \in Uids : Accounted(u) => Accounted(u)'
      /\ \A u \in Uids \cap uids : Accounted(u)'
      /\ progress' = Saved(progress, Batch(w, uids, passed).advance)
  BY <1>0, WriteAccounts DEF SkipInv
<1>2. /\ progress'.lowest = IF passed = {} THEN progress.lowest ELSE Min(passed)
      /\ progress'.done = ~Waits(w)
      /\ progress'.synced = IF progress.synced.messages = NULL THEN w.opened ELSE progress.synced
  BY <1>0, <1>1, SavedDown
<1>3. \A u \in passed : Accounted(u)'
  BY <1>1
<1>4. /\ progress.done => passed = {} /\ ~Waits(w) /\ progress.synced.messages # NULL
      /\ ~Waits(w) => Pending(w) = {}
  <2>1. progress.done => ~Waits(sync) /\ progress.synced.messages # NULL
    BY DEF SkipInv, TaskSkip, FlagsInv, FlagsStore, NULL
  <2> QED
    BY <1>0, <2>1, PendingFacts
<1>5. sync.opened.messages \in Nat /\ sync.opened.messages # NULL
  BY DEF FlagsInv, FlagsTask, NULL
<1>6. /\ progress'.synced.messages # NULL /\ progress'.synced.uid_next = FirstNext
      /\ FirstNext <= uidNext
  BY <1>0, <1>2, <1>5 DEF FirstNext, SkipInv, StoreSkip, TaskSkip
<1>7. progress'.lowest # NULL => \A u \in Pending(w) : u < progress'.lowest
  <2>1. CASE passed = {}
    <3>1. CASE progress.done
      BY <1>4, <3>1
    <3>2. CASE ~progress.done
      BY <1>0, <1>2, <2>1, <3>2 DEF SkipInv, TaskSkip
    <3> QED
      BY <3>1, <3>2
  <2>2. CASE passed # {}
    BY <1>2, <2>2, UidRange DEF Below
  <2> QED
    BY <2>1, <2>2
<1>8. ASSUME ~progress.done, NEW u \in Uids, u < FirstNext
      PROVE  u \in Pending(w) \/ Accounted(u)'
  <2>1. u \in Pending(sync) \/ Accounted(u)
    BY <1>8 DEF SkipInv, TaskSkip
  <2> QED
    BY <1>1, <1>3, <2>1
<1>9. ASSUME NEW u \in Uids, Covered(u)'
      PROVE  Accounted(u)'
  <2>1. CASE progress.done
    <3>1. Covered(u)
      BY <1>2, <1>4, <1>9, <2>1 DEF Covered
    <3> QED
      BY <1>0, <1>1, <3>1 DEF SkipInv, StoreSkip
  <2>2. CASE ~progress.done
    <3>1. u < FirstNext /\ (progress'.done \/ (progress'.lowest # NULL /\ progress'.lowest <= u))
      BY <1>6, <1>9 DEF Covered
    <3>2. u \notin Pending(w)
      <4>1. CASE progress'.done
        BY <1>2, <1>4, <4>1
      <4>2. CASE progress'.lowest # NULL /\ progress'.lowest <= u
        <5>1. progress'.lowest \in Int /\ u \in Int
          <6>1. progress' \in Progress
            BY BatchType, WriteType
          <6> QED
            BY <6>1, BoundsAssumption DEF Progress, Uids
        <5> QED
          BY <1>7, <4>2, <5>1
      <4> QED
        BY <3>1, <4>1, <4>2
    <3> QED
      BY <1>8, <2>2, <3>1, <3>2
  <2> QED
    BY <2>1, <2>2
<1>10. DeletedInv'
  BY <1>0 DEF SkipInv, DeletedInv
<1>11. StoreSkip'
  <2>1. row' # NULL
    BY <1>0, <1>1 DEF Stands, TypeOK, NULL
  <2> QED
    BY <1>0, <1>6, <1>9, <2>1 DEF StoreSkip
<1>12. TaskSkip'
  <2>1. CASE sync' = NoWalk
    BY <2>1 DEF TaskSkip, NoWalk
  <2>2. CASE sync' = w
    <3>1. FirstNext' = FirstNext
      BY <1>6 DEF FirstNext
    <3>2. Pending(sync)' = Pending(w) /\ Ordered(sync)' /\ Waits(sync)' = Waits(w)
      BY <2>2 DEF Pending, Ordered, Waits
    <3>3. ASSUME ~progress'.done, NEW u \in Uids, u < FirstNext'
          PROVE  u \in Pending(w) \/ Accounted(u)'
      BY <1>2, <1>4, <1>8, <3>1, <3>3
    <3>4. w.validity \in 1..uidValidity' /\ Stands' /\ w.opened.uid_next <= uidNext'
      BY <1>0, <1>1 DEF SkipInv, TaskSkip, Stands, TypeOK
    <3> QED
      BY <1>0, <1>2, <1>7, <2>2, <3>2, <3>3, <3>4 DEF TaskSkip
  <2> QED
    BY <2>1, <2>2
<1>13. RefreshSkip'
  <2>1. kept # NoWalk => UpSkip(kept)'
    BY <1>0, <1>1 DEF SkipInv, RefreshSkip, UpSkip, Stands
  <2> QED
    BY <2>1 DEF SkipInv, RefreshSkip, Idle
<1> QED
  BY <1>10, <1>11, <1>12, <1>13 DEF SkipInv

\* The steps of the account's task.
LEMMA TaskSkips ==
    ASSUME TypeOK, NumberingInv, FlagsInv, SkipInv, Task \/ BatchFails \/ TaskStops
    PROVE  SkipInv'
<1> DEFINE slice == NextSlice(sync)
           taken == Taken(sync)
<1>0. /\ sync \in Walks /\ slice \in Slices /\ taken \in Walks
      /\ slice.uids \in SUBSET Uids
      /\ taken.opened = sync.opened /\ taken.walk = sync.walk
      /\ taken.validity = sync.validity
  BY SliceType, OpeningKept DEF TypeOK, Slices
<1> HIDE DEF slice, taken
<1>1. CASE Open
  <2>1. /\ UNCHANGED <<server, row, rows, progress, refresh, kept, leftOut>>
        /\ ~progress.done /\ row # NULL /\ uidValidity = row
        /\ sync' = [NoWalk EXCEPT !.walk = "opening", !.validity = row,
                                  !.budget = NARROWING_BUDGET, !.opened = Counts]
    BY <1>1 DEF Open, store
  <2>2. /\ sync'.walk = "opening" /\ sync'.validity = row /\ sync'.narrowed = <<>>
        /\ sync'.opened.uid_next = uidNext
    BY <2>1 DEF NoWalk, Counts
  <2>3. UNCHANGED <<uidValidity, uidNext>> /\ uidValidity \in 1..uidValidity /\ uidNext \in Nat
    BY <2>1 DEF server, TypeOK
  <2>4. TaskSkip'
    BY <2>1, <2>2, <2>3 DEF TaskSkip, Stands
  <2> QED
    BY <2>1, <2>4, SkipKept DEF SkipInv
<1>2. CASE List
  <2> DEFINE all == {u \in Present : progress.lowest # NULL => u < progress.lowest}
  <2>1. /\ UNCHANGED <<server, row, rows, progress, refresh, kept, leftOut>>
        /\ sync.walk = "opening"
        /\ sync' = [sync EXCEPT !.walk = "down", !.remaining = all]
    BY <1>2 DEF List, store
  <2>2. /\ sync'.walk = "down" /\ sync'.remaining = all /\ sync'.narrowed = sync.narrowed
        /\ sync'.opened = sync.opened /\ sync'.validity = sync.validity
    BY <1>0, <2>1 DEF Walks
  <2>3. /\ sync.narrowed = <<>> /\ sync.validity = uidValidity /\ ~progress.done
        /\ Stands /\ sync.opened.uid_next <= uidNext
        /\ sync.validity \in 1..uidValidity
    BY <2>1 DEF SkipInv, TaskSkip
  <2>4. DOMAIN (<<>>) = {} /\ all \in SUBSET Uids
    BY DEF Present
  <2> HIDE DEF all
  <2>5. Pending(sync') = all /\ Ordered(sync')
    BY <2>2, <2>3, <2>4 DEF Pending, Ordered
  <2>6. \A u \in Uids : Accounted(u)' = Accounted(u)
    BY <2>1, SkipKept
  <2>7. FirstNext' = FirstNext
    BY <2>1, <2>2 DEF FirstNext
  <2>8. ASSUME NEW u \in Uids, u < FirstNext
        PROVE  u \in all \/ Accounted(u)
    <3>1. CASE u \notin Present
      BY <3>1 DEF Present, Accounted
    <3>2. CASE u \in Present /\ u \notin all
      <4>1. /\ progress.lowest # NULL /\ ~(u < progress.lowest)
            /\ progress.lowest \in Int /\ u \in Int
        BY <3>2, BoundsAssumption DEF all, TypeOK, Progress, Uids
      <4>2. progress.synced.messages # NULL
        BY <4>1 DEF SkipInv, StoreSkip
      <4>3. Covered(u)
        BY <2>8, <4>1, <4>2 DEF Covered, FirstNext
      <4> QED
        BY <2>3, <4>3 DEF SkipInv, StoreSkip
    <3> QED
      BY <3>1, <3>2
  <2>9. UNCHANGED <<uidValidity, uidNext, row, progress>>
    BY <2>1 DEF server
  <2>10. TaskSkip'
    BY <2>2, <2>3, <2>5, <2>6, <2>7, <2>8, <2>9 DEF TaskSkip, Stands, all
  <2> QED
    BY <2>1, <2>10, SkipKept DEF SkipInv
<1>3. CASE ResumeStale \/ GiveUp \/ TaskStops
  <2>1. UNCHANGED <<server, row, rows, progress, refresh, kept, leftOut>> /\ sync' = NoWalk
    BY <1>3 DEF ResumeStale, GiveUp, TaskStops, store
  <2> QED
    BY <2>1, SkipKept DEF SkipInv
<1>4. ASSUME sync.walk = "down", sync.validity = uidValidity, Waits(sync)
      PROVE  /\ ~progress.done /\ Ordered(taken)
             /\ Pending(sync) = slice.uids \cup Pending(taken)
             /\ Before(sync.walk, slice.uids, Pending(taken))
             /\ Below(Pending(taken), slice.uids)
  <2>1. ~progress.done /\ Ordered(sync)
    BY <1>4 DEF SkipInv, TaskSkip
  <2> QED
    BY <1>0, <1>4, <2>1, Taking DEF slice, taken, Before
<1>5. ASSUME NEW w \in Walks, sync' = w, w.walk = "down", w.validity = sync.validity,
             w.opened = sync.opened, Ordered(w), Pending(w) = Pending(sync),
             sync.walk = "down", sync.validity = uidValidity, ~progress.done,
             UNCHANGED <<server, row, rows, progress, refresh, kept, leftOut>>
      PROVE  SkipInv'
  <2>1. \A u \in Uids : Accounted(u)' = Accounted(u)
    BY <1>5, SkipKept
  <2>2. UNCHANGED <<uidValidity, uidNext, row, progress>> /\ FirstNext' = FirstNext
    BY <1>5 DEF server, FirstNext
  <2>3. TaskSkip'
    <3>1. Pending(sync)' = Pending(sync) /\ Ordered(sync)'
      BY <1>5 DEF Pending, Ordered
    <3> QED
      BY <1>5, <2>1, <2>2, <3>1 DEF SkipInv, TaskSkip, Stands
  <2> QED
    BY <1>5, <2>3, SkipKept DEF SkipInv
<1>6. CASE BatchFails
  <2>1. /\ UNCHANGED <<server, row, rows, progress, refresh, kept, leftOut>>
        /\ sync' = Put(taken, slice) /\ sync.walk = "down" /\ sync.validity = uidValidity
        /\ Waits(sync)
    BY <1>6 DEF BatchFails, store, Turn, taken, slice
  <2>2. /\ Put(taken, slice) \in Walks /\ Ordered(Put(taken, slice))
        /\ Pending(Put(taken, slice)) = Pending(taken) \cup slice.uids
        /\ Put(taken, slice).walk = taken.walk
        /\ Put(taken, slice).validity = taken.validity
        /\ Put(taken, slice).opened = taken.opened
    BY <1>0, <1>4, <2>1, Putting, PutType, OpeningKept
  <2>3. PICK w \in Walks : w = Put(taken, slice)
    BY <2>2
  <2>4. /\ sync' = w /\ w.walk = "down" /\ w.validity = sync.validity
        /\ w.opened = sync.opened /\ Ordered(w) /\ Pending(w) = Pending(sync)
        /\ ~progress.done
    BY <1>0, <1>4, <2>1, <2>2, <2>3
  <2> QED
    BY <1>5, <2>1, <2>4
<1>7. CASE BatchWritten
  <2>1. /\ sync.walk = "down" /\ sync.validity = uidValidity
        /\ refresh = Idle /\ UNCHANGED <<server, refresh, kept, leftOut>>
    BY <1>7 DEF BatchWritten, Turn
  <2>2. CASE Waits(sync)
    <3>1. /\ WriteBatch(Batch(taken, Answer(slice), slice.uids))
          /\ sync' = taken \/ sync' = NoWalk
      BY <1>7, <2>2 DEF BatchWritten, taken, slice
    <3>2. \A u \in slice.uids : u \in Answer(slice) \/ Accounted(u)'
      <4>1. box' = box
        BY <2>1 DEF server
      <4> QED
        BY <1>0, <4>1, Fetched DEF Accounted
    <3> QED
      BY <1>0, <1>4, <2>1, <2>2, <3>1, <3>2, WriteDown
  <2>3. CASE ~Waits(sync)
    <3>1. /\ WriteBatch(Batch(sync, {}, {}))
          /\ sync' = sync \/ sync' = NoWalk
      BY <1>7, <2>3 DEF BatchWritten
    <3>2. PICK none \in SUBSET Uids : none = {}
      OBVIOUS
    <3>3. Ordered(sync) /\ Below(Pending(sync), none)
      BY <2>1, <3>2 DEF SkipInv, TaskSkip, Below
    <3> QED
      BY <1>0, <2>1, <2>3, <3>1, <3>2, <3>3, WriteDown
  <2> QED
    BY <2>2, <2>3
<1>8. CASE BatchNarrowed
  <2> DEFINE narrow == Narrow(taken, slice)
  <2>1. /\ sync.walk = "down" /\ sync.validity = uidValidity /\ Waits(sync)
        /\ refresh = Idle /\ UNCHANGED <<server, refresh, kept>>
        /\ sync' = narrow
        /\ LeavesOut(taken, slice) =>
             /\ WriteBatch(Batch(narrow, {}, slice.uids))
             /\ leftOut' = leftOut \cup {box[u].msg : u \in Answer(slice)}
        /\ ~LeavesOut(taken, slice) => UNCHANGED <<store, leftOut>>
    BY <1>8 DEF BatchNarrowed, Turn, taken, slice
  <2>2. /\ narrow \in Walks /\ Ordered(narrow) /\ narrow.walk = "down"
        /\ narrow.validity = uidValidity /\ narrow.opened = sync.opened
        /\ Pending(narrow) = IF LeavesOut(taken, slice) THEN Pending(taken)
                             ELSE Pending(taken) \cup slice.uids
    BY <1>0, <1>4, <2>1, Narrowing, OpeningKept
  <2> HIDE DEF narrow
  <2>3. CASE LeavesOut(taken, slice)
    <3>1. \A u \in slice.uids : Accounted(u)'
      <4>1. box' = box
        BY <2>1 DEF server
      <4> QED
        BY <1>0, <2>1, <2>3, <4>1, Fetched DEF Accounted
    <3> QED
      BY <1>0, <1>4, <2>1, <2>2, <2>3, <3>1, WriteDown
  <2>4. CASE ~LeavesOut(taken, slice)
    <3>1. UNCHANGED <<server, row, rows, progress, refresh, kept, leftOut>>
      BY <2>1, <2>4 DEF store
    <3> QED
      BY <1>4, <1>5, <2>1, <2>2, <2>4, <3>1
  <2> QED
    BY <2>3, <2>4
<1> QED
  BY <1>1, <1>2, <1>3, <1>6, <1>7, <1>8 DEF Task

\* A write of the walk upward: what lies below the UIDNEXT it puts on record
\* is accounted for, because the walk asks for the lowest first.
LEMMA WriteUp ==
    ASSUME TypeOK, NumberingInv, FlagsInv, SkipInv,
           refresh.phase = "walk", refresh.walk.validity = uidValidity,
           sync' = sync, leftOut \subseteq leftOut',
           NEW w \in Walks, w.walk = "up", w.validity = uidValidity,
           w.top = refresh.walk.top, Ordered(w),
           NEW uids, NEW passed \in SUBSET Uids, uids \subseteq Present,
           WriteBatch(Batch(w, uids, passed)), UNCHANGED server,
           Pending(refresh.walk) = passed \cup Pending(w), Below(passed, Pending(w)),
           \A u \in passed : u \in uids \/ Accounted(u)'
    PROVE  /\ DeletedInv' /\ StoreSkip' /\ TaskSkip' /\ UpSkip(w)'
           /\ row' = row /\ progress'.done
           /\ \A u \in Uids : Accounted(u) => Accounted(u)'
<1>0. /\ Stands /\ UNCHANGED <<uidValidity, uidNext, box, marked>>
      /\ progress \in Progress /\ progress.done /\ progress.synced.messages \in Nat
      /\ UpSkip(refresh.walk) /\ uidValidity \in 1..uidValidity
      /\ uidNext \in Nat /\ uidNext > 0 /\ w.top \in Int
      /\ \A u \in Uids : u \in Int /\ u > 0
  <2>1. Stands /\ progress.done /\ UpSkip(refresh.walk)
    BY DEF SkipInv, RefreshSkip
  <2>2. progress.synced.messages \in Nat
    BY DEF FlagsInv, FlagsRefresh
  <2>3. progress \in Progress /\ uidValidity \in 1..uidValidity /\ uidNext \in Nat
        /\ uidNext > 0 /\ w.top \in Int
    BY DEF TypeOK, Walks
  <2>4. \A u \in Uids : u \in Int /\ u > 0
    BY BoundsAssumption DEF Uids
  <2> QED
    BY <2>1, <2>2, <2>3, <2>4 DEF server
<1>1. /\ row' = row /\ \A u \in Uids : Accounted(u) => Accounted(u)'
      /\ \A u \in Uids \cap uids : Accounted(u)'
      /\ progress' = Saved(progress, Batch(w, uids, passed).advance)
  BY <1>0, WriteAccounts DEF SkipInv
<1>2. Cardinality(uids \cap Present) \in Nat
  BY UidsFinite DEF Present
<1>3. /\ progress'.lowest = progress.lowest /\ progress'.done = progress.done
      /\ progress'.synced.messages \in Nat
      /\ \/ progress'.synced.uid_next = progress.synced.uid_next
         \/ progress'.synced.uid_next = 0
         \/ passed # {} /\ progress'.synced.uid_next = Max(passed) + 1
  <2> DEFINE q == Saved(progress, Batch(w, uids, passed).advance)
  <2>1. /\ q.lowest = progress.lowest /\ q.done = progress.done /\ q.synced.messages \in Nat
        /\ \/ q.synced.uid_next = progress.synced.uid_next
           \/ q.synced.uid_next = 0
           \/ passed # {} /\ q.synced.uid_next = Max(passed) + 1
        /\ q.synced.messages = progress.synced.messages + Cardinality(uids \cap Present)
        /\ progress.synced.uid_next <= q.synced.uid_next
        /\ passed # {} => Max(passed) < q.synced.uid_next
    BY <1>0, <1>2, SavedUp
  <2> HIDE DEF q
  <2>2. progress' = q
    BY <1>1 DEF q
  <2> QED
    BY <2>1, <2>2
<1>4. \A u \in passed : Accounted(u)'
  BY <1>1
<1>5. passed # {} => Max(passed) \in Uids /\ Max(passed) \in passed /\ Max(passed) <= w.top
  BY <1>0, UidRange DEF UpSkip, Under
<1>6. ASSUME NEW u \in Uids, u <= w.top
      PROVE  u \in Pending(w) \/ Accounted(u)'
  BY <1>0, <1>1, <1>4, <1>6 DEF UpSkip
<1>7. ASSUME NEW u \in Uids, u < progress'.synced.uid_next
      PROVE  Accounted(u)'
  <2>1. CASE progress'.synced.uid_next = progress.synced.uid_next
    <3>1. Covered(u)
      BY <1>0, <1>7, <2>1 DEF Covered, NULL
    <3> QED
      BY <1>0, <1>1, <3>1 DEF SkipInv, StoreSkip
  <2>2. CASE progress'.synced.uid_next = 0
    BY <1>0, <1>7, <2>2
  <2>3. CASE passed # {} /\ progress'.synced.uid_next = Max(passed) + 1
    <3>1. u <= Max(passed) /\ u <= w.top
      BY <1>0, <1>5, <1>7, <2>3
    <3>2. u \notin Pending(w)
      BY <1>0, <1>5, <2>3, <3>1 DEF Below
    <3> QED
      BY <1>6, <3>1, <3>2
  <2> QED
    BY <1>3, <2>1, <2>2, <2>3
<1>8. progress'.synced.uid_next <= uidNext
  <2>1. CASE progress'.synced.uid_next = progress.synced.uid_next
    BY <1>0, <2>1 DEF SkipInv, StoreSkip
  <2>2. CASE progress'.synced.uid_next = 0
    BY <1>0, <2>2
  <2>3. CASE passed # {} /\ progress'.synced.uid_next = Max(passed) + 1
    BY <1>0, <1>5, <2>3 DEF UpSkip
  <2> QED
    BY <1>3, <2>1, <2>2, <2>3
<1>9. DeletedInv'
  BY <1>0 DEF SkipInv, DeletedInv
<1>10. StoreSkip'
  <2>1. row' # NULL
    BY <1>0, <1>1 DEF Stands, NULL
  <2> QED
    BY <1>0, <1>3, <1>7, <1>8, <2>1 DEF StoreSkip, Covered, NULL
<1>11. TaskSkip'
  BY <1>0, <1>1, <1>3 DEF SkipInv, TaskSkip, Stands
<1>12. UpSkip(w)'
  <2>1. w.top < uidNext' /\ Under(w)
    BY <1>0 DEF UpSkip, Under
  <2> QED
    BY <1>0, <1>1, <1>6, <2>1 DEF UpSkip, Stands
<1> QED
  BY <1>0, <1>1, <1>3, <1>9, <1>10, <1>11, <1>12

\* A walk kept for the next refresh and nothing else.
LEMMA KeptForNext ==
    ASSUME refresh' = Idle, kept' = NoWalk \/ (UpSkip(kept)' /\ (leftOut' = {} => Waits(kept')))
    PROVE  RefreshSkip'
  BY DEF RefreshSkip, Idle

\* The mailbox pass and EXAMINE, where the walk upward is begun or resumed.
LEMMA OpeningSkip ==
    ASSUME TypeOK, NumberingInv, FlagsInv, SkipInv, Whole, Pass \/ Skip \/ Examine
    PROVE  SkipInv'
<1>0. /\ refresh \in Refreshes /\ uidValidity \in 1..uidValidity /\ uidNext \in Nat
      /\ \A u \in Uids : u \in Int /\ u > 0
  BY BoundsAssumption DEF TypeOK, Uids
<1>1. CASE Skip
  <2>1. /\ UNCHANGED <<server, row, rows, progress, leftOut>> /\ refresh' = Idle
        /\ sync' = sync /\ kept' = kept
    BY <1>1 DEF Skip, store
  <2> QED
    BY <2>1, SkipKept DEF SkipInv
<1>2. CASE Pass
  <2>1. /\ row' = uidValidity /\ UNCHANGED <<server, sync, kept, leftOut>> /\ refresh = Idle
        /\ UNCHANGED <<uidValidity, uidNext, box, marked>>
        /\ sync.walk # "opening"
    BY <1>2 DEF Pass, server
  <2>2. DeletedInv'
    BY <2>1 DEF SkipInv, DeletedInv
  <2>3. CASE row = uidValidity
    <3> DEFINE passed == [Idle EXCEPT !.phase = "passed", !.facts = Counts,
                                      !.validity = uidValidity]
    <3>1. /\ UNCHANGED <<row, rows, progress>>
          /\ refresh' = IF progress.done THEN passed ELSE Idle
      BY <1>2, <2>1, <2>3 DEF Pass
    <3>2. /\ passed.phase = "passed" /\ passed.facts.uid_next = uidNext
          /\ passed.validity = uidValidity
      BY DEF Idle, Counts
    <3> HIDE DEF passed
    <3>3. RefreshSkip'
      <4>1. CASE ~progress.done
        <5>1. refresh' = Idle
          BY <3>1, <4>1
        <5> QED
          BY <2>1, <3>1, <5>1, SkipKept
      <4>2. CASE progress.done
        <5>1. kept # NoWalk => UpSkip(kept)' /\ (leftOut = {} => Waits(kept))
          <6>1. \A u \in Uids : Accounted(u)' = Accounted(u)
            BY <2>1, <3>1, SkipKept
          <6> QED
            BY <2>1, <3>1, <6>1 DEF SkipInv, RefreshSkip, UpSkip, Stands
        <5> QED
          BY <1>0, <2>1, <3>1, <3>2, <4>2, <5>1 DEF RefreshSkip
      <4> QED
        BY <4>1, <4>2
    <3> QED
      BY <2>1, <3>1, <3>3, SkipKept DEF SkipInv
  <2>4. CASE row # uidValidity
    <3>1. /\ progress' = NoProgress /\ refresh' = Idle
      <4>1. CASE row = NULL
        <5>1. progress = NoProgress
          BY <4>1 DEF SkipInv, StoreSkip
        <5> QED
          BY <1>2, <2>1, <4>1, <5>1 DEF Pass, NoProgress
      <4>2. CASE row # NULL
        BY <1>2, <2>1, <2>4, <4>2 DEF Pass, Renumbered
      <4> QED
        BY <4>1, <4>2
    <3>2. /\ progress'.synced.messages = NULL /\ progress'.lowest = NULL
          /\ ~progress'.done /\ progress'.synced.uid_next = -1
      BY <3>1 DEF NoProgress, NothingSynced, NULL
    <3>3. StoreSkip'
      BY <1>0, <2>1, <3>1, <3>2 DEF StoreSkip, Covered
    <3>4. TaskSkip'
      BY <2>1, <2>4 DEF SkipInv, TaskSkip, Stands
    <3>5. kept # NoWalk => UpSkip(kept)'
      BY <2>1, <2>4 DEF SkipInv, RefreshSkip, UpSkip, Stands
    <3>6. RefreshSkip'
      BY <2>1, <3>1, <3>5, KeptForNext DEF SkipInv, RefreshSkip
    <3> QED
      BY <2>2, <3>3, <3>4, <3>6 DEF SkipInv
  <2> QED
    BY <2>3, <2>4
<1>3. CASE Examine
  <2> DEFINE through == refresh.facts.uid_next - 1
             from == Larger(progress.synced.uid_next, 1)
             resumed == IF kept = NoWalk THEN NoWalk ELSE ExtendTo(kept, through)
             fresh == Above(refresh.validity, from, through)
             next == IF resumed # NoWalk THEN resumed ELSE fresh
  <2>1. /\ refresh.phase = "passed" /\ uidValidity = refresh.validity
        /\ refresh' = [refresh EXCEPT !.phase = IF next = NoWalk THEN "flags" ELSE "walk",
                                      !.base = progress.synced,
                                      !.modseq = highestModseq, !.walk = next]
        /\ kept' = NoWalk /\ UNCHANGED <<server, row, rows, progress, sync, leftOut>>
        /\ UNCHANGED <<uidValidity, uidNext, box, marked>>
    BY <1>3 DEF Examine, store, server
  <2>2. /\ through \in (-2)..MaxUid /\ through \in Int /\ from \in Nat \ {0}
        /\ refresh.facts.uid_next = through + 1
        /\ progress.synced.uid_next \in Int
    <3>1. /\ progress.synced.uid_next \in NULL..(MaxUid + 1)
          /\ refresh.facts.uid_next \in NULL..(MaxUid + 1)
      BY <1>0 DEF TypeOK, Progress, Synced, Refreshes
    <3> QED
      BY <3>1, BoundsAssumption DEF NULL, Larger
  <2>3. /\ progress.done /\ progress.synced.messages \in Nat /\ Stands
        /\ refresh.facts.uid_next <= uidNext /\ refresh.validity \in Int
    BY <1>0, <2>1 DEF SkipInv, RefreshSkip, FlagsInv, FlagsRefresh, Stands
  <2>4. \A u \in Uids : Accounted(u)' = Accounted(u)
    BY <2>1, SkipKept
  <2>5. \A u \in Uids : u < from => Accounted(u)
    <3> SUFFICES ASSUME NEW u \in Uids, u < from PROVE Accounted(u)
      OBVIOUS
    <3>1. u < progress.synced.uid_next
      BY <1>0, <2>2 DEF Larger
    <3>2. Covered(u)
      BY <2>3, <3>1 DEF Covered, NULL
    <3> QED
      BY <2>3, <3>2 DEF SkipInv, StoreSkip
  <2> HIDE DEF through, from
  <2>6. ASSUME next # NoWalk
        PROVE  /\ UpSkip(next) /\ through <= next.top
               /\ next.validity # uidValidity => Waits(next)
    <3>1. CASE resumed # NoWalk
      <4>1. /\ kept # NoWalk /\ next = ExtendTo(kept, through) /\ kept \in Walks
            /\ ExtendTo(kept, through) # NoWalk
            /\ UpSkip(kept) /\ (leftOut = {} => Waits(kept)) /\ kept.top \in Int
        BY <3>1 DEF SkipInv, RefreshSkip, TypeOK, Walks
      <4>2. /\ next.walk = "up" /\ next.validity = kept.validity
            /\ Ordered(next) /\ Under(next)
            /\ next.top = Larger(kept.top, through)
            /\ Pending(next) = Pending(kept) \cup {u \in Uids : kept.top < u /\ u <= through}
            /\ Waits(kept) => Waits(next)
        BY <2>2, <4>1, Widening DEF UpSkip
      <4> HIDE DEF next
      <4>3. through <= next.top /\ (next.top = kept.top \/ next.top = through)
        BY <2>2, <4>1, <4>2 DEF Larger
      <4>4. ASSUME next.validity = uidValidity
            PROVE  /\ next.top < uidNext
                   /\ \A u \in Uids : u <= next.top => u \in Pending(next) \/ Accounted(u)
        <5>1. next.top < uidNext
          BY <1>0, <2>2, <2>3, <4>1, <4>2, <4>3, <4>4 DEF UpSkip
        <5>2. ASSUME NEW u \in Uids, u <= next.top
              PROVE  u \in Pending(next) \/ Accounted(u)
          <6>1. CASE u <= kept.top
            BY <4>1, <4>2, <4>4, <6>1 DEF UpSkip
          <6>2. CASE ~(u <= kept.top)
            <7>1. kept.top < u /\ u <= through
              BY <1>0, <2>2, <4>1, <4>3, <5>2, <6>2
            <7> QED
              BY <4>2, <7>1
          <6> QED
            BY <6>1, <6>2
        <5> QED
          BY <5>1, <5>2
      <4>5. next.validity # uidValidity => Waits(next)
        <5>1. next.validity # uidValidity => uidValidity # 1
          BY <1>0, <4>1, <4>2 DEF UpSkip
        <5> QED
          BY <4>1, <4>2, <5>1 DEF Whole
      <4> QED
        BY <2>3, <4>1, <4>2, <4>3, <4>4, <4>5 DEF UpSkip
    <3>2. CASE resumed = NoWalk
      <4>1. next = fresh /\ from <= through
        <5>1. from > through => fresh = NoWalk
          BY DEF Above
        <5> QED
          BY <2>2, <2>6, <3>2, <5>1
      <4>2. /\ next.walk = "up" /\ next.validity = uidValidity /\ next.top = through
            /\ Ordered(next) /\ Under(next)
            /\ \A u \in Present : from <= u /\ u <= through => u \in Pending(next)
        BY <2>1, <2>2, <2>3, <4>1, Rising
      <4> HIDE DEF next
      <4>3. ASSUME NEW u \in Uids, u <= through
            PROVE  u \in Pending(next) \/ Accounted(u)
        <5>1. CASE u < from
          BY <2>5, <5>1
        <5>2. CASE u \notin Present
          BY <5>2 DEF Present, Accounted
        <5>3. CASE ~(u < from) /\ u \in Present
          BY <1>0, <2>2, <4>2, <4>3, <5>3
        <5> QED
          BY <5>1, <5>2, <5>3
      <4> QED
        BY <1>0, <2>2, <2>3, <4>2, <4>3 DEF UpSkip
    <3> QED
      BY <3>1, <3>2
  <2>7. ASSUME next = NoWalk
        PROVE  \A u \in Uids : u < refresh.facts.uid_next => Accounted(u)
    <3>1. fresh = NoWalk
      BY <2>7
    <3>2. from > through
      <4> SUFFICES ASSUME ~(from > through) PROVE FALSE
        OBVIOUS
      <4>1. fresh.walk = "up"
        BY <2>2, <2>3, Rising
      <4> QED
        BY <3>1, <4>1 DEF NoWalk
    <3> QED
      BY <1>0, <2>2, <2>5, <3>2
  <2> HIDE DEF next
  <2>8. /\ refresh'.phase = IF next = NoWalk THEN "flags" ELSE "walk"
        /\ refresh'.facts = refresh.facts /\ refresh'.validity = refresh.validity
        /\ refresh'.walk = next
    BY <1>0, <2>1 DEF Refreshes
  <2>9. RefreshSkip'
    <3>1. CASE next = NoWalk
      BY <1>0, <2>1, <2>3, <2>4, <2>7, <2>8, <3>1 DEF RefreshSkip, Stands
    <3>2. CASE next # NoWalk
      <4>1. next \in Walks
        <5>1. refresh' \in Refreshes
          BY <1>3, RefreshType DEF Refresh, TypeOK
        <5> QED
          BY <2>8, <5>1 DEF Refreshes
      <4>2. PICK v \in Walks : v = next
        BY <4>1
      <4>3. /\ UpSkip(v) /\ through <= v.top /\ v.top \in Int
            /\ v.validity # uidValidity => Waits(v)
        BY <2>6, <3>2, <4>2 DEF Walks
      <4>4. UpSkip(v)'
        BY <2>1, <2>4, <4>3 DEF UpSkip, Stands
      <4>5. refresh'.walk = v /\ refresh.facts.uid_next <= v.top + 1
        BY <2>2, <2>8, <4>2, <4>3
      <4>6. UpSkip(refresh.walk)'
        BY <4>4, <4>5 DEF UpSkip
      <4> QED
        BY <1>0, <2>1, <2>3, <2>8, <3>2, <4>3, <4>5, <4>6 DEF RefreshSkip, Stands
    <3> QED
      BY <3>1, <3>2
  <2> QED
    BY <2>1, <2>9, SkipKept DEF SkipInv
<1> QED
  BY <1>1, <1>2, <1>3

\* The steps of the refresh after EXAMINE.  Whole' speaks of the message the
\* step itself may leave out.
LEMMA RefreshSkips ==
    ASSUME TypeOK, NumberingInv, FlagsInv, SkipInv, Whole',
           \/ WalkWritten \/ WalkNarrowed \/ WalkFails \/ Flags \/ Count \/ Advanced
           \/ RefreshFails
    PROVE  SkipInv'
<1> DEFINE walk == refresh.walk
           slice == NextSlice(walk)
           taken == Taken(walk)
<1>0. /\ refresh \in Refreshes /\ walk \in Walks /\ slice \in Slices /\ taken \in Walks
      /\ slice.uids \in SUBSET Uids
      /\ taken.walk = walk.walk /\ taken.validity = walk.validity
      /\ Answer(slice) \subseteq Present
      /\ uidValidity \in Nat \ {0} /\ \A u \in Uids : u \in Int
  <2>1. refresh \in Refreshes /\ walk \in Walks /\ uidValidity \in Nat \ {0}
    BY DEF TypeOK, Refreshes
  <2> HIDE DEF walk
  <2>2. slice \in Slices /\ taken \in Walks /\ slice.uids \in SUBSET Uids
        /\ taken.walk = walk.walk /\ taken.validity = walk.validity
    BY <2>1, SliceType DEF Slices
  <2> QED
    BY <2>1, <2>2, BoundsAssumption DEF Answer, Uids
<1> HIDE DEF walk, slice, taken
<1>1. ASSUME refresh.phase = "walk"
      PROVE  /\ UpSkip(walk) /\ Stands /\ progress.done
             /\ refresh.validity = uidValidity /\ uidValidity \in 1..uidValidity
             /\ walk.validity # uidValidity => Waits(walk)
             /\ refresh.facts.uid_next <= walk.top + 1 /\ refresh.facts.uid_next <= uidNext
             /\ refresh.facts.uid_next \in Int /\ walk.top \in Int
  <2>1. refresh.facts.uid_next \in Int /\ walk.top \in Int /\ uidValidity \in 1..uidValidity
    BY <1>0, BoundsAssumption DEF Refreshes, Synced, Walks, NULL
  <2> QED
    BY <1>0, <1>1, <2>1 DEF SkipInv, RefreshSkip, walk
<1>2. ASSUME refresh.phase = "walk", Waits(walk)
      PROVE  /\ Ordered(taken) /\ taken.walk = "up" /\ taken.top = walk.top
             /\ Pending(walk) = slice.uids \cup Pending(taken)
             /\ Below(slice.uids, Pending(taken))
             /\ Before(taken.walk, slice.uids, Pending(taken))
             /\ Under(taken)
  <2>1. Ordered(walk) /\ walk.walk = "up" /\ Under(walk)
    BY <1>1, <1>2 DEF UpSkip
  <2>2. /\ Pending(walk) = slice.uids \cup Pending(taken) /\ Ordered(taken)
        /\ Before(walk.walk, slice.uids, Pending(taken)) /\ taken.top = walk.top
    BY <1>0, <1>2, <2>1, Taking DEF slice, taken
  <2> QED
    BY <1>0, <2>1, <2>2 DEF Before, Under
<1>3. CASE RefreshFails
  <2>1. /\ UNCHANGED <<server, row, rows, progress, leftOut>> /\ refresh' = Idle
        /\ sync' = sync /\ kept' = kept
    BY <1>3 DEF RefreshFails, store
  <2> QED
    BY <2>1, SkipKept DEF SkipInv
<1>4. CASE WalkFails
  <2>1. /\ UNCHANGED <<server, row, rows, progress, leftOut>> /\ refresh' = Idle
        /\ sync' = sync /\ refresh.phase = "walk" /\ Waits(walk)
        /\ kept' = Put(taken, slice)
    BY <1>4 DEF WalkFails, store, walk, slice, taken
  <2>2. /\ Ordered(Put(taken, slice)) /\ Put(taken, slice).walk = "up"
        /\ Pending(Put(taken, slice)) = Pending(walk)
        /\ Put(taken, slice).top = walk.top /\ Put(taken, slice).validity = walk.validity
        /\ Waits(Put(taken, slice)) /\ Under(Put(taken, slice))
    <3>1. /\ Ordered(Put(taken, slice)) /\ Put(taken, slice).walk = taken.walk
          /\ Pending(Put(taken, slice)) = Pending(taken) \cup slice.uids
          /\ Put(taken, slice).top = taken.top
      BY <1>0, <1>2, <2>1, Putting
    <3>2. Put(taken, slice).validity = taken.validity /\ Waits(Put(taken, slice))
      BY <1>0, PutType, PutWaits
    <3>3. Under(walk)
      BY <1>1, <2>1 DEF UpSkip
    <3> QED
      BY <1>0, <1>2, <2>1, <3>1, <3>2, <3>3 DEF Under
  <2>3. UpSkip(kept)' /\ Waits(kept')
    <3>1. \A u \in Uids : Accounted(u)' = Accounted(u)
      BY <2>1, SkipKept
    <3>2. UNCHANGED <<uidValidity, uidNext, row>>
      BY <2>1 DEF server
    <3>3. UpSkip(walk)
      BY <1>1, <2>1
    <3> QED
      BY <2>1, <2>2, <3>1, <3>2, <3>3 DEF UpSkip, Stands
  <2> QED
    BY <2>1, <2>3, KeptForNext, SkipKept DEF SkipInv
<1>5. CASE WalkWritten
  <2> DEFINE on == [refresh EXCEPT !.arrived = @ + Cardinality(Answer(slice)),
                      !.phase = IF Waits(taken) THEN "walk" ELSE "flags",
                      !.walk = IF Waits(taken) THEN taken ELSE NoWalk]
  <2>1. /\ refresh.phase = "walk" /\ UNCHANGED <<server, sync, kept, leftOut>>
        /\ UNCHANGED <<uidValidity, uidNext>>
        /\ Waits(walk) => /\ WriteBatch(Batch(taken, Answer(slice), slice.uids))
                          /\ refresh' = IF Pinned(walk.validity) THEN on ELSE Idle
        /\ ~Waits(walk) => /\ refresh' = [refresh EXCEPT !.phase = "flags", !.walk = NoWalk]
                           /\ UNCHANGED store
    BY <1>5 DEF WalkWritten, walk, slice, taken, server
  <2>2. /\ on.phase = (IF Waits(taken) THEN "walk" ELSE "flags")
        /\ on.walk = (IF Waits(taken) THEN taken ELSE NoWalk)
        /\ on.facts = refresh.facts /\ on.validity = refresh.validity
    BY <1>0 DEF Refreshes
  <2> HIDE DEF on
  <2>3. CASE ~Waits(walk)
    <3>1. /\ refresh'.phase = "flags" /\ refresh'.facts = refresh.facts
          /\ refresh'.validity = refresh.validity
          /\ UNCHANGED <<row, rows, progress>>
      BY <1>0, <2>1, <2>3 DEF Refreshes, store
    <3>2. \A u \in Uids : Accounted(u)' = Accounted(u)
      BY <2>1, <3>1, SkipKept
    <3>3. \A u \in Uids : u < refresh.facts.uid_next => Accounted(u)
      <4>1. Pending(walk) = {} /\ walk.validity = uidValidity
        BY <1>0, <1>1, <2>1, <2>3, PendingFacts
      <4>2. \A u \in Uids : u <= walk.top => Accounted(u)
        BY <1>1, <2>1, <4>1 DEF UpSkip
      <4> QED
        BY <1>0, <1>1, <2>1, <4>2
    <3>4. kept # NoWalk => UpSkip(kept)'
      BY <2>1, <3>1, <3>2 DEF SkipInv, RefreshSkip, UpSkip, Stands
    <3>5. RefreshSkip'
      BY <1>1, <2>1, <3>1, <3>2, <3>3, <3>4 DEF SkipInv, RefreshSkip, Stands
    <3> QED
      BY <2>1, <3>1, <3>5, SkipKept DEF SkipInv
  <2>4. CASE Waits(walk) /\ walk.validity # uidValidity
    <3>1. ~Pinned(walk.validity)
      BY <1>1, <2>1, <2>4 DEF Pinned, Stands
    <3>2. UNCHANGED store
      BY <1>0, <2>1, <2>4, <3>1 DEF WriteBatch, Batch
    <3> QED
      BY <2>1, <2>4, <3>1, <3>2, SkipKept DEF SkipInv, store
  <2>5. CASE Waits(walk) /\ walk.validity = uidValidity
    <3>1. \A u \in slice.uids : u \in Answer(slice) \/ Accounted(u)'
      <4>1. box' = box
        BY <2>1 DEF server
      <4> QED
        BY <1>0, <4>1, Fetched DEF Accounted
    <3>2. PICK v \in Walks : v = taken
      BY <1>0
    <3>3. /\ DeletedInv' /\ StoreSkip' /\ TaskSkip' /\ UpSkip(v)'
          /\ row' = row /\ progress'.done
          /\ \A u \in Uids : Accounted(u) => Accounted(u)'
      <4>1. /\ refresh.walk = walk /\ v.validity = uidValidity /\ leftOut \subseteq leftOut'
            /\ v.walk = "up" /\ v.top = walk.top /\ Ordered(v)
            /\ Pending(walk) = slice.uids \cup Pending(v)
            /\ Below(slice.uids, Pending(v))
        BY <1>0, <1>2, <2>1, <2>5, <3>2 DEF walk
      <4>2. WriteBatch(Batch(v, Answer(slice), slice.uids))
        BY <2>1, <2>5, <3>2
      <4> QED
        BY <1>0, <2>1, <2>5, <3>1, <4>1, <4>2, WriteUp
    <3>4. refresh' = on
      BY <1>0, <1>1, <2>1, <2>5 DEF Pinned, Stands
    <3>5. kept # NoWalk => UpSkip(kept)'
      BY <2>1, <3>3 DEF SkipInv, RefreshSkip, UpSkip, Stands
    <3>6. Stands' /\ refresh'.validity = uidValidity' /\ refresh'.facts = refresh.facts
          /\ refresh.facts.uid_next <= uidNext' /\ v.top = walk.top
          /\ v.validity = uidValidity
      BY <1>0, <1>1, <1>2, <2>1, <2>2, <2>5, <3>2, <3>3, <3>4 DEF Stands
    <3>7. CASE Waits(taken)
      <4>1. refresh'.walk = v /\ refresh'.phase = "walk"
        BY <2>2, <3>2, <3>4, <3>7
      <4>2. UpSkip(refresh.walk)'
        BY <3>3, <4>1 DEF UpSkip
      <4>3. RefreshSkip'
        BY <1>1, <2>1, <3>3, <3>5, <3>6, <4>1, <4>2 DEF SkipInv, RefreshSkip
      <4> QED
        BY <3>3, <4>3 DEF SkipInv
    <3>8. CASE ~Waits(taken)
      <4>1. refresh'.phase = "flags"
        BY <2>2, <3>4, <3>8
      <4>2. ASSUME NEW u \in Uids, u < refresh.facts.uid_next
            PROVE  Accounted(u)'
        <5>1. u <= v.top
          BY <1>0, <1>1, <2>1, <3>6, <4>2
        <5>2. Pending(v) = {}
          BY <3>2, <3>8, PendingFacts
        <5> QED
          BY <2>1, <3>3, <3>6, <5>1, <5>2 DEF UpSkip
      <4>3. RefreshSkip'
        BY <1>1, <2>1, <3>3, <3>5, <3>6, <4>1, <4>2 DEF SkipInv, RefreshSkip
      <4> QED
        BY <3>3, <4>3 DEF SkipInv
    <3> QED
      BY <3>7, <3>8
  <2> QED
    BY <2>3, <2>4, <2>5

<1>6. CASE WalkNarrowed
  <2>1. /\ refresh.phase = "walk" /\ Waits(walk) /\ refresh' = Idle
        /\ UNCHANGED <<server, sync, uidValidity, uidNext>>
        /\ kept' = Narrow(taken, slice)
        /\ Breaks(slice)
        /\ LeavesOut(taken, slice) =>
             /\ WriteBatch(Batch(Narrow(taken, slice), {}, slice.uids))
             /\ leftOut' = leftOut \cup {box[u].msg : u \in Answer(slice)}
        /\ ~LeavesOut(taken, slice) => UNCHANGED <<store, leftOut>>
    BY <1>6 DEF WalkNarrowed, walk, slice, taken, server
  <2>2. /\ Narrow(taken, slice) \in Walks /\ Ordered(Narrow(taken, slice))
        /\ Narrow(taken, slice).walk = "up" /\ Narrow(taken, slice).top = walk.top
        /\ Narrow(taken, slice).validity = walk.validity
        /\ Pending(Narrow(taken, slice)) = IF LeavesOut(taken, slice) THEN Pending(taken)
                                           ELSE Pending(walk)
        /\ ~LeavesOut(taken, slice) => Waits(Narrow(taken, slice))
    <3>1. Pending(taken) \cup slice.uids = Pending(walk)
      BY <1>2, <2>1
    <3> QED
      BY <1>0, <1>2, <2>1, <3>1, Narrowing
  <2>3. PICK v \in Walks : v = Narrow(taken, slice)
    BY <2>2
  <2>4. /\ kept' = v /\ v.walk = "up" /\ Ordered(v) /\ Under(v) /\ v.top = walk.top
        /\ v.validity = walk.validity /\ v.validity \in 1..uidValidity'
    <3>1. Under(walk) /\ walk.validity \in 1..uidValidity
      BY <1>1, <2>1 DEF UpSkip
    <3>2. Under(v)
      BY <1>2, <2>1, <2>2, <2>3, <3>1 DEF Under
    <3> QED
      BY <2>1, <2>2, <2>3, <3>1, <3>2
  <2>5. CASE ~LeavesOut(taken, slice)
    <3>1. UNCHANGED <<server, row, rows, progress, leftOut>> /\ sync' = sync
      BY <2>1, <2>5 DEF store
    <3>2. \A u \in Uids : Accounted(u)' = Accounted(u)
      BY <3>1, SkipKept
    <3>3. UpSkip(kept)' /\ Waits(kept')
      <4>1. UpSkip(walk) /\ Pending(v) = Pending(walk) /\ Waits(v)
        BY <1>1, <2>1, <2>2, <2>3, <2>5
      <4> QED
        BY <2>1, <2>4, <3>1, <3>2, <4>1 DEF UpSkip, Stands
    <3> QED
      BY <2>1, <3>1, <3>3, KeptForNext, SkipKept DEF SkipInv
  <2>6. CASE LeavesOut(taken, slice)
    <3>1. leftOut' # {} /\ uidValidity = 1
      <4>1. Answer(slice) # {}
        BY <2>1 DEF Breaks
      <4>2. leftOut' # {}
        BY <2>1, <2>6, <4>1
      <4> QED
        BY <2>1, <4>2 DEF Whole
    <3>2. walk.validity = uidValidity /\ v.validity = uidValidity
      BY <2>1, <2>4, <3>1
    <3>3. \A u \in slice.uids : Accounted(u)'
      <4>1. box' = box
        BY <2>1 DEF server
      <4> QED
        BY <1>0, <2>1, <2>6, <4>1, Fetched DEF Accounted
    <3>4. /\ DeletedInv' /\ StoreSkip' /\ TaskSkip' /\ UpSkip(v)' /\ row' = row
      <4>1. /\ refresh.walk = walk /\ leftOut \subseteq leftOut'
            /\ Pending(walk) = slice.uids \cup Pending(v)
            /\ Below(slice.uids, Pending(v))
        BY <1>2, <2>1, <2>2, <2>3, <2>6 DEF walk
      <4>2. PICK none \in SUBSET Uids : none = {}
        OBVIOUS
      <4>3. WriteBatch(Batch(v, none, slice.uids)) /\ none \subseteq Present
        BY <2>1, <2>3, <2>6, <4>2
      <4> QED
        BY <1>0, <2>1, <2>4, <3>2, <3>3, <4>1, <4>3, WriteUp
    <3>5. UpSkip(kept)'
      BY <2>4, <3>4 DEF UpSkip
    <3> QED
      BY <2>1, <3>1, <3>4, <3>5, KeptForNext DEF SkipInv
  <2> QED
    BY <2>5, <2>6
<1>7. CASE Flags \/ Count
  <2>1. /\ refresh.phase \in {"flags", "count"} /\ refresh'.phase \in {"count", "advance"}
        /\ refresh'.facts = refresh.facts /\ refresh'.validity = refresh.validity
        /\ UNCHANGED <<server, row, progress, sync, kept, leftOut>>
        /\ UNCHANGED <<uidValidity, uidNext, box, marked>>
    BY <1>0, <1>7 DEF Flags, Count, Refreshes, server
  <2>2. \A u \in Uids : Accounted(u) => Accounted(u)'
    <3>1. CASE Flags
      <4> DEFINE changed == {u \in Present \cap Held : box[u].mod > refresh.base.highest_modseq}
      <4>1. rows' = [u \in Uids |->
                       IF u \notin changed THEN rows[u]
                       ELSE IF box[u].deleted THEN NoRow
                       ELSE [rows[u] EXCEPT !.mod = box[u].mod]]
        BY <3>1 DEF Flags
      <4> HIDE DEF changed
      <4>2. \A u \in Uids : rows'[u].msg = rows[u].msg \/ box[u].deleted
        BY <4>1 DEF TypeOK, Rows
      <4> QED
        BY <2>1, <4>2 DEF SkipInv, DeletedInv, Accounted
    <3>2. CASE Count
      <4>1. \A u \in Uids : rows'[u] = rows[u] \/ box[u].msg = NoMessage
        BY <3>2 DEF Count, Present
      <4> QED
        BY <2>1, <4>1 DEF Accounted
    <3> QED
      BY <1>7, <3>1, <3>2
  <2>3. DeletedInv'
    BY <2>1 DEF SkipInv, DeletedInv
  <2>4. StoreSkip'
    BY <2>1, <2>2 DEF SkipInv, StoreSkip, Stands, Covered
  <2>5. TaskSkip'
    BY <2>1, <2>2 DEF SkipInv, TaskSkip, Stands, FirstNext
  <2>6. kept # NoWalk => UpSkip(kept)'
    BY <2>1, <2>2 DEF SkipInv, RefreshSkip, UpSkip, Stands
  <2>7. RefreshSkip'
    BY <2>1, <2>2, <2>6 DEF SkipInv, RefreshSkip, Stands
  <2> QED
    BY <2>3, <2>4, <2>5, <2>7 DEF SkipInv
<1>8. CASE Advanced
  <2>1. /\ progress' = [progress EXCEPT !.synced = Learned] /\ refresh' = Idle
        /\ refresh.phase = "advance" /\ UNCHANGED <<server, row, rows, sync, kept, leftOut>>
        /\ UNCHANGED <<uidValidity, uidNext, box, marked>>
    BY <1>8 DEF Advanced, server
  <2>2. /\ Stands /\ progress.done /\ refresh.facts.uid_next <= uidNext
        /\ \A u \in Uids : u < refresh.facts.uid_next => Accounted(u)
        /\ refresh.facts.messages \in Nat
    BY <1>0, <2>1 DEF SkipInv, RefreshSkip, FlagsInv, FlagsRefresh
  <2>3. /\ progress'.synced.uid_next = refresh.facts.uid_next
        /\ progress'.synced.messages = refresh.facts.messages
        /\ progress'.done = progress.done
    BY <1>0, <2>1 DEF Learned, Refreshes, Synced, TypeOK, Progress
  <2>4. \A u \in Uids : Accounted(u) => Accounted(u)'
    BY <2>1 DEF Accounted
  <2>5. DeletedInv'
    BY <2>1 DEF SkipInv, DeletedInv
  <2>6. StoreSkip'
    BY <1>0, <2>1, <2>2, <2>3, <2>4 DEF StoreSkip, Stands, Covered, NULL
  <2>7. TaskSkip'
    BY <2>1, <2>2, <2>3, <2>4 DEF SkipInv, TaskSkip, Stands
  <2>8. kept # NoWalk => UpSkip(kept)'
    BY <2>1, <2>4 DEF SkipInv, RefreshSkip, UpSkip, Stands
  <2>9. RefreshSkip'
    BY <2>1, <2>8, KeptForNext DEF SkipInv, RefreshSkip
  <2> QED
    BY <2>5, <2>6, <2>7, <2>9 DEF SkipInv
<1> QED
  BY <1>3, <1>4, <1>5, <1>6, <1>7, <1>8

\* The invariant holds throughout where Whole does.
LEMMA SkipHolds == Spec /\ []Whole => []SkipInv
<1>1. Init => SkipInv
  <2> SUFFICES ASSUME Init PROVE SkipInv
    OBVIOUS
  <2>1. DeletedInv
    BY DEF Init, DeletedInv, Empty
  <2>2. StoreSkip
    BY DEF Init, StoreSkip, Stands, NoProgress, NothingSynced, NULL
  <2>3. TaskSkip /\ RefreshSkip
    BY DEF Init, TaskSkip, RefreshSkip, NoWalk, Idle
  <2> QED
    BY <2>1, <2>2, <2>3 DEF SkipInv
<1>2. TypeOK /\ NumberingInv /\ FlagsInv /\ SkipInv /\ Whole /\ Whole' /\ [Next]_vars => SkipInv'
  <2> SUFFICES ASSUME TypeOK, NumberingInv, FlagsInv, SkipInv, Whole, Whole', [Next]_vars
               PROVE  SkipInv'
    OBVIOUS
  <2>1. CASE Server
    BY <2>1, ServerSkip
  <2>2. CASE Task \/ BatchFails \/ TaskStops
    BY <2>2, TaskSkips
  <2>3. CASE Refresh \/ WalkFails \/ RefreshFails
    BY <2>3, OpeningSkip, RefreshSkips DEF Refresh
  <2>4. CASE BatchCut \/ WalkCut \/ Commit \/ Lose
    BY <2>4 DEF BatchCut, WalkCut, Commit, Lose, Whole
  <2>5. CASE Restart
    <3>1. /\ UNCHANGED <<server, row, rows, progress, leftOut>>
          /\ sync' = NoWalk /\ refresh' = Idle /\ kept' = NoWalk
      BY <2>5 DEF Restart, store
    <3> QED
      BY <3>1, SkipKept DEF SkipInv
  <2>6. CASE UNCHANGED vars
    <3>1. UNCHANGED <<server, row, rows, progress, leftOut, sync, refresh, kept>>
      BY <2>6 DEF vars, store, memory
    <3> QED
      BY <3>1, SkipKept DEF SkipInv
  <2> QED
    BY <2>1, <2>2, <2>3, <2>4, <2>5, <2>6 DEF Next, Faulty
<1>3. Whole => detached = {}
  BY DEF Whole
<1> QED
  BY <1>1, <1>2, <1>3, TypeCorrect, NumberingHolds, FlagsHold, PTL DEF Spec

\* Every message of the server below the UIDNEXT on record, and while the
\* first sync runs at or above the lowest UID it has passed, is held: but for
\* one left out and one \Deleted at some time.  It holds whatever arrives,
\* leaves, fails, is narrowed, restarts or is renumbered, where no write is
\* cut from its turn and no folder both renumbers and has a message left out
\* (FolderSync::resume, Refresher::new_mail, progress::save).
THEOREM NothingIsSkipped == Spec /\ []Whole => []NothingSkipped
<1>1. SkipInv => NothingSkipped
  BY DEF SkipInv, StoreSkip, NothingSkipped, Accounted, Present
<1> QED
  BY <1>1, SkipHolds, PTL

-----------------------------------------------------------------------------
(* Messages that leave the cache *)

\* A message has one UID, in the mailbox and among the rows of the present
\* numbering, and no message is known before it arrived.
NamedOnce ==
    /\ \A u \in Uids : box[u].msg <= born /\ rows[u].msg <= born
    /\ \A m \in waiting : m <= born
    /\ \A u, v \in Uids : box[u].msg # NoMessage /\ box[u].msg = box[v].msg => u = v
    /\ Stands => \A u, v \in Uids : rows[u].msg # NoMessage /\ rows[u].msg = box[v].msg => u = v

\* Rows wait only between a renumbering and the end of the first sync that
\* follows it, which EXAMINEs the folder above every message they wait for.
WaitingInv ==
    /\ row = NULL \/ progress.done \/ uidValidity = 1 => waiting = {}
    /\ Stands /\ ~progress.done =>
         \A u \in Uids : box[u].msg # NoMessage /\ box[u].msg \in waiting =>
            /\ progress.synced.messages # NULL => u < progress.synced.uid_next
            /\ sync.walk # "none" /\ sync.validity = uidValidity => u < sync.opened.uid_next

RowsInv == NamedOnce /\ WaitingInv

\* What RowsLeaveForCause asks of a step.
LeaveForCause ==
    \A m \in Cached \ Cached' :
       \/ m \notin OnServer
       \/ m \in marked
       \/ m \in waiting /\ row' # row
       \/ row' # row /\ Cardinality(Held) > REMATCH_LIMIT

\* A step that touches neither the mailbox nor the rows.
LEMMA RowsKept ==
    ASSUME RowsInv, UNCHANGED server, UNCHANGED <<row, rows, waiting, progress>>
    PROVE  /\ LeaveForCause /\ NamedOnce'
           /\ sync' = sync \/ sync' = NoWalk
                \/ (sync'.opened = sync.opened /\ sync'.validity = sync.validity
                     /\ sync.walk # "none")
                => RowsInv'
<1>1. UNCHANGED <<uidValidity, uidNext, box, born>>
  BY DEF server
<1>2. Cached' = Cached
  BY DEF Cached, Held
<1>3. NamedOnce'
  BY <1>1 DEF RowsInv, NamedOnce, Stands
<1>4. NoWalk.walk = "none"
  BY DEF NoWalk
<1> QED
  BY <1>1, <1>2, <1>3, <1>4 DEF RowsInv, WaitingInv, Stands, LeaveForCause

\* A write under the present numbering: the rows it finds stay, the new ones
\* name their message, and what waited goes into a row or stays, but for the
\* write that finishes the first sync.
LEMMA WriteRows ==
    ASSUME TypeOK, NumberingInv, RowsInv, Stands,
           NEW w \in Walks, NEW uids, NEW passed \in SUBSET Uids, w.validity = uidValidity,
           WriteBatch(Batch(w, uids, passed)), UNCHANGED server
    PROVE  /\ NamedOnce' /\ waiting' \subseteq waiting
           /\ Cached \ Cached' \subseteq waiting
           /\ IF Finishes(progress, Batch(w, uids, passed).advance)
              THEN waiting' = {} ELSE Cached \subseteq Cached'
<1> DEFINE b == Batch(w, uids, passed)
           fresh == {u \in Uids : b.emails[u].msg # NoMessage /\ u \notin Held}
           unmatched == waiting \ {b.emails[u].msg : u \in fresh}
<1>1. Pinned(b.validity) /\ b \in Batches
  BY BatchType DEF Pinned, Stands
<1>2. /\ rows' = [u \in Uids |-> IF u \in fresh THEN b.emails[u] ELSE rows[u]]
      /\ waiting' = IF Finishes(progress, b.advance) THEN {} ELSE unmatched
      /\ row' = row
  BY <1>1 DEF WriteBatch
<1>3. UNCHANGED <<uidValidity, box, born>>
  BY DEF server
<1>4. \A u \in Uids : b.emails[u].msg # NoMessage => b.emails[u].msg = box[u].msg
  BY BatchType
<1> HIDE DEF b
<1>5. \A u \in Uids : /\ rows'[u] = rows[u] \/ rows'[u].msg = box[u].msg
                      /\ u \in Held => rows'[u] = rows[u]
                      /\ u \in fresh => rows'[u] = b.emails[u]
  BY <1>2, <1>4
<1>6. waiting' \subseteq waiting
  BY <1>2
<1>7. NamedOnce'
  BY <1>2, <1>3, <1>5, <1>6 DEF RowsInv, NamedOnce, Stands
<1>8. \A m \in Cached : m \in Cached' \/ m \in waiting
  BY <1>5 DEF Cached, Held
<1>9. ~Finishes(progress, b.advance) => Cached \subseteq Cached'
  <2> SUFFICES ASSUME ~Finishes(progress, b.advance), NEW m \in waiting PROVE m \in Cached'
    BY <1>8
  <2>1. CASE m \in unmatched
    BY <1>2, <2>1 DEF Cached
  <2>2. CASE m \notin unmatched
    <3>1. PICK u \in fresh : m = b.emails[u].msg
      BY <2>2
    <3>2. rows'[u].msg = m /\ u \in Uids /\ m # NoMessage
      BY <1>5, <3>1
    <3> QED
      BY <3>2 DEF Cached, Held
  <2> QED
    BY <2>1, <2>2
<1> QED
  BY <1>2, <1>6, <1>7, <1>8, <1>9 DEF b

\* A write of the walk down.  The one that finishes the first sync lets go
\* only of what the walk has accounted for or the server has no more.
LEMMA WriteDownRows ==
    ASSUME TypeOK, NumberingInv, FlagsInv, SkipInv, RowsInv, StoreSkip', Whole',
           sync.walk = "down", sync.validity = uidValidity,
           NEW w \in Walks, w.walk = "down", w.validity = uidValidity,
           w.opened = sync.opened, sync' = w \/ sync' = NoWalk,
           NEW uids, NEW passed \in SUBSET Uids,
           WriteBatch(Batch(w, uids, passed)), UNCHANGED server
    PROVE  RowsInv' /\ LeaveForCause
<1> DEFINE a == Batch(w, uids, passed).advance
<1>0. /\ Stands /\ UNCHANGED <<uidValidity, uidNext, box, born, marked, row>>
      /\ progress \in Progress /\ row # NULL /\ NoWalk.walk = "none"
  <2>1. Stands /\ row' = row
    BY WriteType, BatchType DEF SkipInv, TaskSkip
  <2> QED
    BY <2>1 DEF server, TypeOK, Stands, NULL, NoWalk
<1>1. progress' = Saved(progress, a)
  <2>1. Pinned(Batch(w, uids, passed).validity)
    BY <1>0, BatchType DEF Pinned, Stands
  <2> QED
    BY <2>1 DEF WriteBatch
<1>2. /\ progress'.done = ~Waits(w)
      /\ progress'.synced = IF progress.synced.messages = NULL THEN w.opened ELSE progress.synced
  BY <1>0, <1>1, SavedDown
<1>3. Finishes(progress, a) <=> (progress'.done /\ ~progress.done)
  BY <1>2 DEF Finishes, Batch, Advance
<1>4. /\ NamedOnce' /\ waiting' \subseteq waiting /\ Cached \ Cached' \subseteq waiting
      /\ IF Finishes(progress, a) THEN waiting' = {} ELSE Cached \subseteq Cached'
  BY <1>0, WriteRows
<1> HIDE DEF a
<1>5. progress'.synced.messages # NULL
  BY <1>2 DEF FlagsInv, FlagsTask, NULL
<1>6. ASSUME ~progress.done, NEW u \in Uids, box[u].msg # NoMessage, box[u].msg \in waiting
      PROVE  u < progress'.synced.uid_next /\ u < sync.opened.uid_next
  BY <1>0, <1>2, <1>6 DEF RowsInv, WaitingInv
<1>7. WaitingInv'
  <2>1. progress'.done => waiting' = {}
    BY <1>3, <1>4 DEF RowsInv, WaitingInv
  <2>2. uidValidity' = 1 => waiting' = {}
    BY <1>0, <1>4 DEF RowsInv, WaitingInv
  <2>3. progress.done => waiting = {}
    BY DEF RowsInv, WaitingInv
  <2> QED
    BY <1>0, <1>4, <1>6, <2>1, <2>2, <2>3 DEF WaitingInv
<1>8. LeaveForCause
  <2> SUFFICES ASSUME NEW m \in Cached \ Cached', m \in OnServer
               PROVE  m \in marked
    BY DEF LeaveForCause
  <2>1. m \in waiting /\ Finishes(progress, a)
    BY <1>4
  <2>2. PICK u \in Uids : box[u].msg = m /\ m # NoMessage
    BY DEF OnServer, Present
  <2>3. Covered(u)' /\ Stands'
    BY <1>0, <1>3, <1>5, <1>6, <2>1, <2>2 DEF Covered, Stands
  <2>4. Accounted(u)'
    BY <2>3 DEF StoreSkip
  <2>5. rows'[u].msg # m
    BY <2>2 DEF Cached, Held
  <2>6. m \in leftOut' \cup marked
    BY <1>0, <2>2, <2>4, <2>5 DEF Accounted
  <2>7. leftOut' = {}
    <3>1. uidValidity # 1
      BY <2>1 DEF RowsInv, WaitingInv
    <3> QED
      BY <1>0, <3>1 DEF Whole
  <2> QED
    BY <2>6, <2>7
<1> QED
  BY <1>4, <1>7, <1>8 DEF RowsInv

\* A write of a walk upward, which a folder reaches when nothing waits.
LEMMA WriteUpRows ==
    ASSUME TypeOK, NumberingInv, FlagsInv, SkipInv, RowsInv, sync' = sync,
           refresh.phase = "walk", NEW w \in Walks, w.walk = "up",
           NEW uids, NEW passed \in SUBSET Uids,
           w.validity = refresh.walk.validity,
           WriteBatch(Batch(w, uids, passed)), UNCHANGED server
    PROVE  RowsInv' /\ LeaveForCause
<1>0. Stands /\ progress.done /\ progress \in Progress /\ progress.synced.messages \in Nat
  BY DEF SkipInv, RefreshSkip, FlagsInv, FlagsRefresh, TypeOK
<1>1. CASE w.validity # uidValidity
  <2>1. ~Pinned(Batch(w, uids, passed).validity)
    BY <1>0, <1>1, BatchType DEF Pinned, Stands
  <2>2. UNCHANGED store
    BY <2>1 DEF WriteBatch
  <2> QED
    BY <2>2, RowsKept DEF store
<1>2. CASE w.validity = uidValidity
  <2> DEFINE a == Batch(w, uids, passed).advance
  <2>1. /\ NamedOnce' /\ waiting' \subseteq waiting
        /\ ~Finishes(progress, a) => Cached \subseteq Cached'
    BY <1>0, <1>2, WriteRows
  <2>2. ~Finishes(progress, a)
    BY <1>0 DEF Finishes
  <2>3. progress'.done
    <3>1. progress' = Saved(progress, a)
      <4>1. Pinned(Batch(w, uids, passed).validity)
        BY <1>0, <1>2, BatchType DEF Pinned, Stands
      <4> QED
        BY <4>1 DEF WriteBatch
    <3>2. Cardinality(uids \cap Present) \in Nat
      BY UidsFinite DEF Present
    <3> DEFINE q == Saved(progress, a)
    <3>3. q.done = progress.done
      BY <1>0, <3>2, SavedUp
    <3> HIDE DEF q
    <3>4. progress' = q
      BY <3>1 DEF q
    <3> QED
      BY <1>0, <3>3, <3>4
  <2>4. waiting' = {}
    BY <1>0, <2>1 DEF RowsInv, WaitingInv
  <2> QED
    BY <2>1, <2>2, <2>3, <2>4 DEF RowsInv, WaitingInv, LeaveForCause
<1> QED
  BY <1>1, <1>2


\* The server's steps: what arrives was not known before, and a renumbering
\* gives each message one UID again.
LEMMA ServerRows ==
    ASSUME TypeOK, NumberingInv, RowsInv, Server
    PROVE  RowsInv' /\ LeaveForCause
<1>0. /\ UNCHANGED <<row, rows, waiting, progress, sync>>
      /\ LeaveForCause
  <2>1. UNCHANGED <<row, rows, waiting, progress, sync>>
    BY DEF Server, Arrive, SetFlags, Expunge, Renumber, store, memory
  <2>2. Cached' = Cached
    BY <2>1 DEF Cached, Held
  <2> QED
    BY <2>1, <2>2 DEF LeaveForCause
<1>1. /\ born \in Nat /\ uidValidity \in Nat
      /\ \A u \in Uids : /\ box[u].msg \in Nat /\ rows[u].msg \in Nat
                         /\ box[u].msg <= born /\ rows[u].msg <= born
      /\ \A m \in waiting : m <= born /\ m \in Nat
  BY DEF TypeOK, RowsInv, NamedOnce, Messages, NoMessage, Rows
<1>2. CASE Arrive
  <2>1. PICK v \in uidNext..MaxUid :
           box' = [box EXCEPT ![v] = [msg |-> born + 1, mod |-> highestModseq + 1,
                                      deleted |-> FALSE]]
    BY <1>2 DEF Arrive
  <2>2. v \in Uids /\ born' = born + 1 /\ uidValidity' = uidValidity
    BY <1>2, <2>1, BoundsAssumption DEF Arrive, TypeOK, Uids
  <2>3. \A u \in Uids : box'[u].msg = IF u = v THEN born + 1 ELSE box[u].msg
    BY <2>1, <2>2 DEF TypeOK
  <2>4. NamedOnce'
    <3>1. /\ \A u \in Uids : box'[u].msg <= born' /\ rows'[u].msg <= born'
          /\ \A m \in waiting' : m <= born'
      BY <1>0, <1>1, <2>2, <2>3
    <3>2. \A u, w \in Uids : box'[u].msg # NoMessage /\ box'[u].msg = box'[w].msg => u = w
      BY <1>1, <2>3 DEF RowsInv, NamedOnce
    <3>3. Stands' => \A u, w \in Uids :
                        rows'[u].msg # NoMessage /\ rows'[u].msg = box'[w].msg => u = w
      BY <1>0, <1>1, <2>2, <2>3 DEF RowsInv, NamedOnce, Stands
    <3> QED
      BY <3>1, <3>2, <3>3 DEF NamedOnce
  <2>5. WaitingInv'
    <3>1. \A u \in Uids : box'[u].msg \in waiting => box'[u].msg = box[u].msg
      BY <1>1, <2>3
    <3> QED
      BY <1>0, <2>2, <3>1 DEF RowsInv, WaitingInv, Stands
  <2> QED
    BY <1>0, <2>4, <2>5 DEF RowsInv
<1>3. CASE SetFlags \/ Expunge
  <2>1. \A u \in Uids : box'[u].msg = box[u].msg \/ box'[u].msg = NoMessage
    BY <1>3 DEF SetFlags, Expunge, TypeOK, Present, Empty
  <2>2. UNCHANGED <<born, uidValidity>>
    BY <1>3 DEF SetFlags, Expunge
  <2>3. NamedOnce'
    BY <1>0, <1>1, <2>1, <2>2 DEF RowsInv, NamedOnce, Stands, NoMessage
  <2>4. WaitingInv'
    BY <1>0, <2>1, <2>2 DEF RowsInv, WaitingInv, Stands
  <2> QED
    BY <1>0, <2>3, <2>4 DEF RowsInv
<1>4. CASE Renumber
  <2> DEFINE Rank(u) == Cardinality({x \in Present : x <= u})
             Of(v) == CHOOSE u \in Present : Rank(u) = v
  <2>1. /\ uidValidity' = uidValidity + 1 /\ born' = born
        /\ \A v \in Uids : box'[v] = IF \E u \in Present : Rank(u) = v
                                     THEN box[Of(v)] ELSE Empty
    BY <1>4 DEF Renumber
  <2>2. \A v \in Uids : (\E u \in Present : Rank(u) = v) => Of(v) \in Present /\ Rank(Of(v)) = v
    OBVIOUS
  <2> HIDE DEF Rank, Of
  <2>3. ASSUME NEW v \in Uids, box'[v].msg # NoMessage
        PROVE  Of(v) \in Uids /\ Rank(Of(v)) = v /\ box'[v] = box[Of(v)]
    BY <2>1, <2>2, <2>3 DEF Empty, Present
  <2>4. \A u, w \in Uids : box'[u].msg # NoMessage /\ box'[u].msg = box'[w].msg => u = w
    BY <2>3 DEF RowsInv, NamedOnce
  <2>5. \A u \in Uids : box'[u].msg <= born
    BY <1>1, <2>3 DEF NoMessage
  <2>6. ~Stands' /\ uidValidity' # 1
    BY <1>0, <1>1, <2>1 DEF NumberingInv, Stands, NULL, TypeOK
  <2>7. NamedOnce'
    BY <1>0, <1>1, <2>1, <2>4, <2>5, <2>6 DEF NamedOnce
  <2>8. WaitingInv'
    BY <1>0, <2>6 DEF RowsInv, WaitingInv
  <2> QED
    BY <1>0, <2>7, <2>8 DEF RowsInv
<1> QED
  BY <1>2, <1>3, <1>4 DEF Server

\* The steps of the account's task.
LEMMA TaskRows ==
    ASSUME TypeOK, NumberingInv, FlagsInv, SkipInv, SkipInv', Whole', RowsInv,
           Task \/ BatchFails \/ TaskStops
    PROVE  RowsInv' /\ LeaveForCause
<1> DEFINE slice == NextSlice(sync)
           taken == Taken(sync)
           narrow == Narrow(taken, slice)
<1>0. /\ sync \in Walks /\ slice \in Slices /\ slice.uids \in SUBSET Uids
      /\ taken \in Walks /\ taken.opened = sync.opened /\ taken.walk = sync.walk
      /\ taken.validity = sync.validity
      /\ narrow \in Walks /\ narrow.opened = sync.opened /\ narrow.walk = sync.walk
      /\ narrow.validity = sync.validity
      /\ Put(taken, slice).opened = sync.opened
      /\ Put(taken, slice).validity = sync.validity
  <2>1. sync \in Walks
    BY DEF TypeOK
  <2>2. /\ slice \in Slices /\ taken \in Walks /\ taken.opened = sync.opened
        /\ taken.walk = sync.walk /\ taken.validity = sync.validity
    BY <2>1, SliceType, OpeningKept
  <2> HIDE DEF slice, taken
  <2>3. /\ narrow \in Walks /\ narrow.opened = taken.opened /\ narrow.walk = taken.walk
        /\ narrow.validity = taken.validity
        /\ Put(taken, slice).opened = taken.opened
        /\ Put(taken, slice).validity = taken.validity
    BY <2>2, NarrowType, OpeningKept, PutType
  <2> QED
    BY <2>1, <2>2, <2>3 DEF Slices
<1> HIDE DEF slice, taken, narrow
<1>1. CASE Open
  <2>1. UNCHANGED <<server, row, rows, waiting, progress>> /\ sync'.opened.uid_next = uidNext
    BY <1>1 DEF Open, store, NoWalk, Counts
  <2>2. UNCHANGED <<uidValidity, box>>
    BY <2>1 DEF server
  <2>3. LeaveForCause /\ NamedOnce'
    BY <2>1, RowsKept
  <2>4. WaitingInv'
    BY <2>1, <2>2 DEF RowsInv, WaitingInv, Stands, NumberingInv
  <2> QED
    BY <2>3, <2>4 DEF RowsInv
<1>2. CASE List \/ ResumeStale \/ GiveUp \/ TaskStops \/ BatchFails
  <2>1. UNCHANGED <<server, row, rows, waiting, progress>>
    BY <1>2 DEF List, ResumeStale, GiveUp, TaskStops, BatchFails, store
  <2>2. \/ sync' = NoWalk
        \/ sync'.opened = sync.opened /\ sync'.validity = sync.validity /\ sync.walk # "none"
    <3>1. CASE List
      BY <1>0, <3>1 DEF List, Walks
    <3>2. CASE BatchFails
      <4>1. sync' = Put(taken, slice) /\ sync.walk = "down"
        BY <3>2 DEF BatchFails, Turn, taken, slice
      <4> QED
        BY <1>0, <4>1
    <3> QED
      BY <1>2, <3>1, <3>2 DEF ResumeStale, GiveUp, TaskStops
  <2> QED
    BY <2>1, <2>2, RowsKept
<1>3. CASE BatchWritten
  <2>1. /\ sync.walk = "down" /\ sync.validity = uidValidity /\ UNCHANGED server
    BY <1>3 DEF BatchWritten, Turn
  <2>2. CASE Waits(sync)
    <3>1. /\ WriteBatch(Batch(taken, Answer(slice), slice.uids))
          /\ sync' = taken \/ sync' = NoWalk
      BY <1>3, <2>2 DEF BatchWritten, taken, slice
    <3> QED
      BY <1>0, <2>1, <3>1, WriteDownRows DEF SkipInv
  <2>3. CASE ~Waits(sync)
    <3>1. /\ WriteBatch(Batch(sync, {}, {}))
          /\ sync' = sync \/ sync' = NoWalk
      BY <1>3, <2>3 DEF BatchWritten
    <3>2. PICK none \in SUBSET Uids : none = {}
      OBVIOUS
    <3> QED
      BY <1>0, <2>1, <3>1, <3>2, WriteDownRows DEF SkipInv
  <2> QED
    BY <2>2, <2>3
<1>4. CASE BatchNarrowed
  <2>1. /\ sync.walk = "down" /\ sync.validity = uidValidity /\ UNCHANGED server
        /\ sync' = narrow
        /\ LeavesOut(taken, slice) => WriteBatch(Batch(narrow, {}, slice.uids))
        /\ ~LeavesOut(taken, slice) => UNCHANGED store
    BY <1>4 DEF BatchNarrowed, Turn, taken, slice, narrow
  <2>2. CASE LeavesOut(taken, slice)
    BY <1>0, <2>1, <2>2, WriteDownRows DEF SkipInv
  <2>3. CASE ~LeavesOut(taken, slice)
    BY <1>0, <2>1, <2>3, RowsKept DEF store
  <2> QED
    BY <2>2, <2>3
<1> QED
  BY <1>1, <1>2, <1>3, <1>4 DEF Task

\* A step of the refresh of a finished folder that writes no row anew.
LEMMA RowsGone ==
    ASSUME TypeOK, RowsInv, progress.done, progress'.done,
           UNCHANGED <<server, row, waiting, sync>>,
           \A u \in Uids : rows'[u].msg = rows[u].msg \/ rows'[u].msg = NoMessage
    PROVE  RowsInv'
<1>1. UNCHANGED <<uidValidity, box, born>>
  BY DEF server
<1>2. waiting = {}
  BY DEF RowsInv, WaitingInv
<1>3. NamedOnce'
  <2>1. born \in Nat
    BY DEF TypeOK
  <2> QED
    BY <1>1, <2>1 DEF RowsInv, NamedOnce, Stands, NoMessage
<1> QED
  BY <1>2, <1>3 DEF RowsInv, WaitingInv

\* The steps of the refresh.
LEMMA RefreshRows ==
    ASSUME TypeOK, NumberingInv, FlagsInv, SkipInv, RowsInv,
           Refresh \/ WalkFails \/ RefreshFails
    PROVE  RowsInv' /\ LeaveForCause
<1>1. CASE Skip \/ Examine \/ WalkFails \/ RefreshFails
  <2>1. UNCHANGED server /\ UNCHANGED <<row, rows, waiting, progress>> /\ sync' = sync
    BY <1>1 DEF Skip, Examine, WalkFails, RefreshFails, store
  <2> QED
    BY <2>1, RowsKept
<1>2. CASE Pass
  <2>1. /\ UNCHANGED <<server, sync>> /\ row' = uidValidity
        /\ row \notin {NULL, uidValidity} => Renumbered
        /\ row \in {NULL, uidValidity} => UNCHANGED <<rows, waiting, progress>>
    BY <1>2 DEF Pass
  <2>2. UNCHANGED <<uidValidity, box, born>> /\ uidValidity \in Nat \ {0} /\ born \in Nat
        /\ uidValidity # NULL
    BY <2>1 DEF server, TypeOK, NULL
  <2>3. CASE row = uidValidity
    BY <2>1, <2>3, RowsKept
  <2>4. CASE row = NULL
    <3>1. waiting = {} /\ Held = {}
      BY <2>4 DEF RowsInv, WaitingInv, NumberingInv
    <3>2. NamedOnce'
      BY <2>1, <2>2, <2>4, <3>1 DEF RowsInv, NamedOnce, Held
    <3>3. WaitingInv'
      BY <2>1, <2>4, <3>1 DEF WaitingInv
    <3>4. LeaveForCause
      BY <2>1, <2>4, <3>1 DEF LeaveForCause, Cached, Held
    <3> QED
      BY <3>2, <3>3, <3>4 DEF RowsInv
  <2>5. CASE row \notin {NULL, uidValidity}
    <3>1. /\ waiting' = IF Cardinality(Held) > REMATCH_LIMIT
                        THEN {} ELSE {rows[u].msg : u \in Held}
          /\ rows' = NoRows /\ progress' = NoProgress
      BY <2>1, <2>5 DEF Renumbered
    <3>2. \A u \in Uids : rows'[u].msg = NoMessage
      BY <3>1 DEF NoRows, NoRow
    <3>3. ~Stands /\ row \in 1..uidValidity /\ uidValidity # 1
      BY <2>2, <2>5 DEF NumberingInv, Stands
    <3>4. ~progress'.done /\ progress'.synced.messages = NULL
      BY <3>1 DEF NoProgress, NothingSynced
    <3>5. NamedOnce'
      <4>1. \A m \in waiting' : m <= born
        BY <3>1 DEF RowsInv, NamedOnce, Held
      <4>2. \A u \in Uids : rows'[u].msg <= born
        BY <2>2, <3>2 DEF NoMessage
      <4> QED
        BY <2>2, <3>2, <4>1, <4>2 DEF RowsInv, NamedOnce
    <3>6. WaitingInv'
      <4>1. ~(sync.walk # "none" /\ sync.validity = uidValidity)
        BY <3>3 DEF SkipInv, TaskSkip
      <4> QED
        BY <2>1, <2>2, <3>3, <3>4, <4>1 DEF WaitingInv
    <3>7. LeaveForCause
      <4>1. row' # row
        BY <2>1, <2>5
      <4>2. Cardinality(Held) > REMATCH_LIMIT \/ \A u \in Held : rows[u].msg \in waiting'
        BY <3>1
      <4> QED
        BY <4>1, <4>2 DEF LeaveForCause, Cached
    <3> QED
      BY <3>5, <3>6, <3>7 DEF RowsInv
  <2> QED
    BY <2>3, <2>4, <2>5
<1>3. CASE WalkWritten \/ WalkNarrowed
  <2> DEFINE walk == refresh.walk
             slice == NextSlice(walk)
             taken == Taken(walk)
             narrow == Narrow(taken, slice)
  <2>1. walk \in Walks
    BY DEF TypeOK, Refreshes
  <2>2. refresh.phase = "walk" /\ walk.walk = "up"
    BY <1>3 DEF WalkWritten, WalkNarrowed, SkipInv, RefreshSkip, UpSkip
  <2>3. /\ UNCHANGED server /\ sync' = sync
        /\ \/ UNCHANGED store
           \/ WriteBatch(Batch(taken, Answer(slice), slice.uids))
           \/ WriteBatch(Batch(narrow, {}, slice.uids))
    BY <1>3 DEF WalkWritten, WalkNarrowed
  <2>4. refresh.walk.validity = walk.validity
    OBVIOUS
  <2> HIDE DEF walk
  <2>5. /\ slice \in Slices /\ taken \in Walks /\ taken.walk = walk.walk
        /\ taken.validity = walk.validity
    BY <2>1, SliceType
  <2> HIDE DEF slice, taken
  <2>6. narrow \in Walks /\ narrow.walk = "up" /\ narrow.validity = walk.validity
    <3>1. /\ narrow \in Walks /\ narrow.validity = taken.validity
          /\ narrow.walk = taken.walk
      BY <2>5, NarrowType, OpeningKept
    <3> QED
      BY <2>2, <2>5, <3>1
  <2> HIDE DEF narrow
  <2>7. slice.uids \in SUBSET Uids
    BY <2>5 DEF Slices
  <2>8. CASE UNCHANGED store
    BY <2>3, <2>8, RowsKept DEF store
  <2>9. CASE WriteBatch(Batch(taken, Answer(slice), slice.uids))
    BY <2>2, <2>3, <2>4, <2>5, <2>7, <2>9, WriteUpRows
  <2>10. CASE WriteBatch(Batch(narrow, {}, slice.uids))
    BY <2>2, <2>3, <2>4, <2>6, <2>7, <2>10, WriteUpRows
  <2> QED
    BY <2>3, <2>8, <2>9, <2>10
<1>4. CASE Flags \/ Count \/ Advanced
  <2>1. /\ refresh.phase \in {"flags", "count", "advance"} /\ progress.done /\ Stands
        /\ waiting = {}
    BY <1>4 DEF Flags, Count, Advanced, SkipInv, RefreshSkip, RowsInv, WaitingInv
  <2>2. UNCHANGED <<server, row, waiting, sync>> /\ progress'.done
    <3>1. CASE Flags \/ Count
      BY <2>1, <3>1 DEF Flags, Count
    <3>2. CASE Advanced
      BY <2>1, <3>2 DEF Advanced, TypeOK, Progress
    <3> QED
      BY <1>4, <3>1, <3>2
  <2>3. ASSUME NEW u \in Uids
        PROVE  \/ rows'[u].msg = rows[u].msg
               \/ rows'[u].msg = NoMessage /\ box[u].msg # NoMessage /\ box[u].deleted
               \/ rows'[u].msg = NoMessage /\ box[u].msg = NoMessage
    <3>1. CASE Flags
      <4> DEFINE changed == {v \in Present \cap Held : box[v].mod > refresh.base.highest_modseq}
      <4>1. rows' = [v \in Uids |->
                       IF v \notin changed THEN rows[v]
                       ELSE IF box[v].deleted THEN NoRow
                       ELSE [rows[v] EXCEPT !.mod = box[v].mod]]
        BY <3>1 DEF Flags
      <4>2. \A v \in changed : box[v].msg # NoMessage
        BY DEF Present
      <4> HIDE DEF changed
      <4> QED
        BY <4>1, <4>2 DEF TypeOK, Rows, NoRow
    <3>2. CASE Count
      <4>1. rows' = rows \/ rows' = [v \in Uids |-> IF v \in Present THEN rows[v] ELSE NoRow]
        BY <3>2 DEF Count
      <4> QED
        BY <4>1 DEF Present, NoRow
    <3>3. CASE Advanced
      BY <3>3 DEF Advanced
    <3> QED
      BY <1>4, <3>1, <3>2, <3>3
  <2>4. RowsInv'
    BY <2>1, <2>2, <2>3, RowsGone
  <2>5. LeaveForCause
    <3> SUFFICES ASSUME NEW m \in Cached \ Cached', m \in OnServer
                 PROVE  m \in marked
      BY DEF LeaveForCause
    <3>1. PICK u \in Uids : rows[u].msg = m /\ m # NoMessage
      BY <2>1 DEF Cached, Held
    <3>2. rows'[u].msg # m
      BY <3>1 DEF Cached, Held
    <3>3. PICK v \in Uids : box[v].msg = m
      BY DEF OnServer, Present
    <3>4. box[u].msg = m
      BY <2>1, <3>1, <3>3 DEF RowsInv, NamedOnce
    <3> QED
      BY <2>3, <3>1, <3>2, <3>4 DEF SkipInv, DeletedInv
  <2> QED
    BY <2>4, <2>5
<1> QED
  BY <1>1, <1>2, <1>3, <1>4 DEF Refresh

\* A message leaves the cache, and with it the JMAP id the client knows, only
\* when it left the server or bore \Deleted, or in a renumbering that found it
\* still waiting or found more rows than may wait: no batch, no narrowing, no
\* count and no write that finishes the first sync lets go of another
\* (store/renumber.rs, write_batch, Refresher::expunged).
THEOREM RowsLeaveAsTheyMust == Spec /\ []Whole => RowsLeaveForCause
<1>1. Init => RowsInv
  <2> SUFFICES ASSUME Init PROVE RowsInv
    OBVIOUS
  <2>1. NamedOnce
    BY DEF Init, NamedOnce, NoRows, NoRow, Empty, NoMessage
  <2>2. WaitingInv
    BY DEF Init, WaitingInv
  <2> QED
    BY <2>1, <2>2 DEF RowsInv
<1>2. TypeOK /\ NumberingInv /\ FlagsInv /\ SkipInv /\ SkipInv' /\ RowsInv /\ Whole /\ Whole'
        /\ [Next]_vars => RowsInv' /\ LeaveForCause
  <2> SUFFICES ASSUME TypeOK, NumberingInv, FlagsInv, SkipInv, SkipInv', RowsInv,
                      Whole, Whole', [Next]_vars
               PROVE  RowsInv' /\ LeaveForCause
    OBVIOUS
  <2>1. CASE Server
    BY <2>1, ServerRows
  <2>2. CASE Task \/ BatchFails \/ TaskStops
    BY <2>2, TaskRows
  <2>3. CASE Refresh \/ WalkFails \/ RefreshFails
    BY <2>3, RefreshRows
  <2>4. CASE BatchCut \/ WalkCut \/ Commit \/ Lose
    BY <2>4 DEF BatchCut, WalkCut, Commit, Lose, Whole
  <2>5. CASE Restart
    <3>1. UNCHANGED server /\ UNCHANGED <<row, rows, waiting, progress>> /\ sync' = NoWalk
      BY <2>5 DEF Restart, store
    <3> QED
      BY <3>1, RowsKept
  <2>6. CASE UNCHANGED vars
    <3>1. UNCHANGED server /\ UNCHANGED <<row, rows, waiting, progress>> /\ sync' = sync
      BY <2>6 DEF vars, store, memory
    <3> QED
      BY <3>1, RowsKept
  <2> QED
    BY <2>1, <2>2, <2>3, <2>4, <2>5, <2>6 DEF Next, Faulty
<1>3. Whole => detached = {}
  BY DEF Whole
<1>4. Spec /\ []Whole => [][LeaveForCause]_vars
  BY <1>1, <1>2, <1>3, TypeCorrect, NumberingHolds, FlagsHold, SkipHolds, PTL DEF Spec
<1> QED
  BY <1>4 DEF RowsLeaveForCause, LeaveForCause

-----------------------------------------------------------------------------
(* The count on record *)

\* A row that did not slip into the first sync behind its EXAMINE.
Named(u) == u \in Held /\ rows[u].msg \notin slipped

\* The UIDs below n the server has, and those it has or a row names.
Live(n) == {u \in Present : u < n}
Known(n) == {u \in Uids : u < n /\ (u \in Present \/ Named(u))}

\* The count on record is that of all that is known below the UIDNEXT on
\* record, but for a message left out.
CountStore ==
    Stands /\ progress.synced.messages # NULL /\ leftOut = {} =>
      /\ Cardinality(Known(progress.synced.uid_next)) <= progress.synced.messages
      /\ \A u \in Uids : Named(u) => u < progress.synced.uid_next

\* So is the count of the EXAMINE a walk down will put there.
CountTask ==
    sync.walk # "none" /\ sync.validity = uidValidity =>
      Cardinality(Live(sync.opened.uid_next)) <= sync.opened.messages

\* No slice is empty.
Full(w) == \A i \in DOMAIN w.narrowed : w.narrowed[i].uids # {}

\* Between the UIDNEXT on record and its top a walk upward waits for all the
\* server has, so that its answers count it.
UpCount(w) ==
    /\ Full(w)
    /\ w.validity = uidValidity =>
         /\ progress.synced.messages # NULL
         /\ leftOut = {} => \A u \in Present : progress.synced.uid_next <= u /\ u <= w.top
                                                 => u \in Pending(w)

\* The refresh: MESSAGES of the pass counts what is there below its UIDNEXT,
\* and the record moves with what the walk was answered.  Once the walk is
\* over nothing lies between the two UIDNEXTs, and once the UIDs are compared
\* MESSAGES counts the rows too.
CountRefresh ==
    /\ kept # NoWalk => UpCount(kept)
    /\ refresh.phase # "idle" /\ refresh.validity = uidValidity =>
         /\ refresh.facts.uid_next \in Nat
         /\ Cardinality(Live(refresh.facts.uid_next)) <= refresh.facts.messages
         /\ progress.synced.uid_next <= refresh.facts.uid_next
         /\ kept # NoWalk /\ kept.validity = uidValidity => kept.top < refresh.facts.uid_next
    /\ refresh.phase = "passed" => refresh.arrived = 0
    /\ refresh.phase \in {"walk", "flags", "count", "advance"} => kept = NoWalk
    /\ refresh.phase \in {"walk", "flags", "count"} =>
         progress.synced.messages = refresh.base.messages + refresh.arrived
    /\ refresh.phase = "walk" =>
         /\ UpCount(refresh.walk)
         /\ refresh.walk.validity = uidValidity => refresh.walk.top < refresh.facts.uid_next
    /\ refresh.phase \in {"flags", "count"} /\ leftOut = {} =>
         \A u \in Present : u < refresh.facts.uid_next => u < progress.synced.uid_next
    /\ refresh.phase = "advance" /\ leftOut = {} =>
         Cardinality(Known(refresh.facts.uid_next)) <= refresh.facts.messages

CountInv == CountStore /\ CountTask /\ CountRefresh

\* The next slice of a walk is not empty, nor what is put on or narrowed.
LEMMA FullKept ==
    ASSUME NEW w \in Walks, Full(w)
    PROVE  /\ Waits(w) => NextSlice(w).uids # {}
           /\ Full(Taken(w))
           /\ \A slice \in Slices : slice.uids # {} => /\ Full(Put(w, slice))
                                                       /\ Full(Narrow(w, slice))
<1> DEFINE n == w.narrowed
           k == Len(n)
<1>0. /\ n \in Seq(Slices) /\ k \in Nat /\ DOMAIN n = 1..k
      /\ w.remaining \in SUBSET Uids
  BY DEF Walks
<1>1. Waits(w) => NextSlice(w).uids # {}
  <2>1. CASE n # <<>>
    <3>1. k \in 1..k
      BY <1>0, <2>1
    <3> QED
      BY <1>0, <2>1, <3>1 DEF NextSlice, Full
  <2>2. CASE n = <<>> /\ w.remaining # {}
    <3>1. SYNC_BATCH \in Nat /\ SYNC_BATCH >= 1
      BY BoundsAssumption
    <3> QED
      BY <1>0, <2>2, <3>1, PartsFull DEF NextSlice
  <2> QED
    BY <2>1, <2>2 DEF Waits
<1>2. Full(Taken(w))
  <2>1. CASE n # <<>>
    <3> DEFINE m == SubSeq(n, 1, k - 1)
    <3>1. DOMAIN m = 1..(k - 1) /\ \A i \in 1..(k - 1) : m[i] = n[i] /\ i \in 1..k
      BY <1>0, <2>1
    <3>2. Taken(w) = [w EXCEPT !.narrowed = m]
      BY <2>1 DEF Taken
    <3> HIDE DEF m
    <3>3. Taken(w).narrowed = m
      BY <3>2 DEF Walks
    <3> QED
      BY <1>0, <3>1, <3>3 DEF Full
  <2>2. CASE n = <<>>
    <3>1. Taken(w).narrowed = n
      BY <2>2 DEF Taken, Walks
    <3> QED
      BY <3>1 DEF Full
  <2> QED
    BY <2>1, <2>2
<1>3. ASSUME NEW v \in Walks, Full(v), NEW slice \in Slices, slice.uids # {}
      PROVE  Full(Put(v, slice))
  <2> DEFINE m == Append(v.narrowed, slice)
             j == Len(v.narrowed)
  <2>1. /\ v.narrowed \in Seq(Slices) /\ j \in Nat /\ DOMAIN v.narrowed = 1..j
    BY DEF Walks
  <2>2. /\ DOMAIN m = 1..(j + 1) /\ m[j + 1] = slice
        /\ \A i \in 1..j : m[i] = v.narrowed[i]
        /\ \A i \in 1..(j + 1) : i \in 1..j \/ i = j + 1
    BY <2>1
  <2>3. Put(v, slice).narrowed = m
    BY DEF Put, Walks
  <2> HIDE DEF m
  <2> QED
    BY <1>3, <2>1, <2>2, <2>3 DEF Full
<1>4. ASSUME NEW slice \in Slices, slice.uids # {}
      PROVE  Full(Narrow(w, slice))
  <2>1. PICK v \in Walks :
          /\ v.walk = w.walk /\ v.remaining = w.remaining /\ v.narrowed = w.narrowed
          /\ v.top = w.top
          /\ LeavesOut(w, slice) => Narrow(w, slice) = v
          /\ ~LeavesOut(w, slice) =>
               \/ \E s \in Slices : s.uids = slice.uids /\ Narrow(w, slice) = Put(v, s)
               \/ \E s, t \in Slices :
                    /\ s.uids \cup t.uids = slice.uids /\ s.uids # {} /\ t.uids # {}
                    /\ Before(w.walk, t.uids, s.uids)
                    /\ Narrow(w, slice) = Put(Put(v, s), t)
    BY NarrowCases
  <2>2. Full(v)
    BY <2>1 DEF Full
  <2>3. ASSUME NEW s \in Slices, NEW t \in Slices, s.uids # {}, t.uids # {}
        PROVE  Full(Put(Put(v, s), t))
    <3>1. PICK one \in Walks : one = Put(v, s)
      BY PutType
    <3>2. Full(one)
      BY <1>3, <2>2, <2>3, <3>1
    <3>3. Full(Put(one, t))
      BY <1>3, <2>3, <3>2
    <3> QED
      BY <3>1, <3>3
  <2>4. CASE LeavesOut(w, slice)
    BY <2>1, <2>2, <2>4
  <2>5. CASE \E s \in Slices : s.uids = slice.uids /\ Narrow(w, slice) = Put(v, s)
    BY <1>3, <1>4, <2>2, <2>5
  <2>6. CASE \E s, t \in Slices :
               /\ s.uids \cup t.uids = slice.uids /\ s.uids # {} /\ t.uids # {}
               /\ Before(w.walk, t.uids, s.uids)
               /\ Narrow(w, slice) = Put(Put(v, s), t)
    BY <2>3, <2>6
  <2> QED
    BY <2>1, <2>4, <2>5, <2>6
<1> QED
  BY <1>1, <1>2, <1>3, <1>4

\* What is counted is a natural number, and less of it counts no more.
LEMMA CountedFacts ==
    /\ \A n : /\ Live(n) \in SUBSET Uids /\ Cardinality(Live(n)) \in Nat
              /\ Known(n) \in SUBSET Uids /\ Cardinality(Known(n)) \in Nat
    /\ \A S, T \in SUBSET Uids : S \subseteq T => Cardinality(S) <= Cardinality(T)
<1>1. \A n : Live(n) \in SUBSET Uids /\ Known(n) \in SUBSET Uids
  BY DEF Live, Known, Present
<1>2. \A S, T \in SUBSET Uids : S \subseteq T => Cardinality(S) <= Cardinality(T)
  BY UidsFinite, FS_Subset
<1> QED
  BY <1>1, <1>2, UidsFinite

\* Where nothing arrives below n and no row comes, no more is known below n.
LEMMA Fewer ==
    ASSUME \A u \in Uids : Named(u)' => Named(u) \/ box[u].msg # NoMessage,
           NEW n,
           \A u \in Uids : u < n => box'[u].msg = NoMessage \/ box[u].msg # NoMessage
    PROVE  /\ Live(n)' \subseteq Live(n) /\ Known(n)' \subseteq Known(n)
           /\ Cardinality(Live(n))' <= Cardinality(Live(n))
           /\ Cardinality(Known(n))' <= Cardinality(Known(n))
<1>1. Live(n)' \subseteq Live(n)
  BY DEF Live, Present
<1>2. Known(n)' \subseteq Known(n)
  BY DEF Known, Present
<1> QED
  BY <1>1, <1>2, CountedFacts

\* A step that brings no row and nothing below the UIDNEXT of the server.
LEMMA CountKept ==
    ASSUME TypeOK, SkipInv, CountInv, UNCHANGED <<uidValidity, row, progress, leftOut>>,
           \A u \in Uids : Named(u)' => Named(u),
           \A u \in Uids : u < uidNext => box'[u].msg = NoMessage \/ box[u].msg # NoMessage
    PROVE  /\ CountStore'
           /\ (\/ sync' = sync \/ sync' = NoWalk
               \/ /\ sync.walk # "none" /\ sync'.opened = sync.opened
                  /\ sync'.validity = sync.validity)
                => CountTask'
           /\ \A w \in Walks : UpSkip(w) /\ UpCount(w) => UpCount(w)'
           /\ (refresh' = refresh \/ refresh' = Idle) /\ kept' \in {kept, NoWalk}
                => CountRefresh'
<1>0. /\ uidNext \in Int /\ \A u \in Uids : u \in Int
      /\ progress.synced.uid_next \in Int /\ sync.opened.uid_next \in Int
      /\ refresh.facts.uid_next \in Int
  <2>1. uidNext \in Int /\ \A u \in Uids : u \in Int
    BY BoundsAssumption DEF TypeOK, Uids
  <2>2. \A s \in Synced : s.uid_next \in Int
    BY BoundsAssumption DEF Synced, NULL
  <2>3. progress.synced \in Synced /\ sync.opened \in Synced /\ refresh.facts \in Synced
    BY DEF TypeOK, Progress, Walks, Refreshes
  <2> QED
    BY <2>1, <2>2, <2>3
<1>1. ASSUME NEW n \in Int, n <= uidNext
      PROVE  /\ Cardinality(Live(n))' <= Cardinality(Live(n))
             /\ Cardinality(Known(n))' <= Cardinality(Known(n))
             /\ Cardinality(Live(n)) \in Nat /\ Cardinality(Known(n)) \in Nat
             /\ Cardinality(Live(n))' \in Nat /\ Cardinality(Known(n))' \in Nat
  <2>1. \A u \in Uids : u < n => box'[u].msg = NoMessage \/ box[u].msg # NoMessage
    BY <1>0, <1>1
  <2>2. /\ Cardinality(Live(n))' <= Cardinality(Live(n))
        /\ Cardinality(Known(n))' <= Cardinality(Known(n))
    BY <2>1, Fewer
  <2>3. Live(n)' \in SUBSET Uids /\ Known(n)' \in SUBSET Uids
    BY DEF Live, Known, Present
  <2>4. Cardinality(Live(n))' \in Nat /\ Cardinality(Known(n))' \in Nat
    BY <2>3, UidsFinite
  <2> QED
    BY <2>2, <2>4, CountedFacts
<1>2. CountStore'
  <2> SUFFICES ASSUME Stands', progress.synced.messages # NULL, leftOut = {}
               PROVE  /\ Cardinality(Known(progress.synced.uid_next))' <= progress.synced.messages
                      /\ \A u \in Uids : Named(u)' => u < progress.synced.uid_next
    BY DEF CountStore
  <2>1. PICK n \in Int : n = progress.synced.uid_next
    BY <1>0
  <2>2. Stands /\ n <= uidNext
    BY <2>1 DEF Stands, SkipInv, StoreSkip
  <2>3. /\ Cardinality(Known(n)) <= progress.synced.messages
        /\ \A u \in Uids : Named(u) => u < n
    BY <2>1, <2>2 DEF CountInv, CountStore
  <2>4. Known(progress.synced.uid_next)' = Known(n)'
    BY <2>1 DEF Known
  <2>5. Cardinality(Known(n))' <= Cardinality(Known(n)) /\ Cardinality(Known(n)) \in Nat
        /\ Cardinality(Known(n))' \in Nat
    BY <1>1, <2>2
  <2>6. progress.synced.messages \in Int
    BY DEF TypeOK, Progress, Synced
  <2> QED
    BY <2>1, <2>3, <2>4, <2>5, <2>6
<1>3. ASSUME \/ sync' = sync \/ sync' = NoWalk
             \/ /\ sync.walk # "none" /\ sync'.opened = sync.opened
                /\ sync'.validity = sync.validity
      PROVE  CountTask'
  <2> SUFFICES ASSUME sync'.walk # "none", sync'.validity = uidValidity
               PROVE  Cardinality(Live(sync.opened.uid_next))' <= sync'.opened.messages
    BY DEF CountTask
  <2>1. sync.walk # "none" /\ sync'.opened = sync.opened /\ sync.validity = uidValidity
    BY <1>3 DEF NoWalk
  <2>2. PICK n \in Int : n = sync.opened.uid_next
    BY <1>0
  <2>3. n <= uidNext /\ Cardinality(Live(n)) <= sync.opened.messages
    BY <2>1, <2>2 DEF SkipInv, TaskSkip, CountInv, CountTask
  <2>4. Live(sync.opened.uid_next)' = Live(n)'
    BY <2>1, <2>2 DEF Live
  <2>5. Cardinality(Live(n))' <= Cardinality(Live(n)) /\ Cardinality(Live(n)) \in Nat
        /\ Cardinality(Live(n))' \in Nat
    BY <1>1, <2>3
  <2>6. sync.opened.messages \in Int
    BY DEF TypeOK, Walks, Synced
  <2> QED
    BY <2>1, <2>3, <2>4, <2>5, <2>6
<1>4. ASSUME NEW w \in Walks, UpSkip(w), UpCount(w)
      PROVE  UpCount(w)'
  <2>1. w.top \in Int
    BY DEF Walks
  <2>2. ASSUME w.validity = uidValidity, leftOut = {}, NEW u \in Present',
               progress.synced.uid_next <= u, u <= w.top
        PROVE  u \in Pending(w)
    <3>1. u \in Uids /\ u < uidNext /\ box'[u].msg # NoMessage
      BY <1>0, <1>4, <2>1, <2>2 DEF UpSkip, Present
    <3>2. u \in Present
      BY <3>1 DEF Present
    <3> QED
      BY <1>4, <2>2, <3>2 DEF UpCount
  <2> QED
    BY <1>4, <2>2 DEF UpCount
<1>5. ASSUME refresh' = refresh \/ refresh' = Idle, kept' \in {kept, NoWalk}
      PROVE  CountRefresh'
  <2>2. kept' # NoWalk => UpCount(kept)'
    <3> SUFFICES ASSUME kept' # NoWalk PROVE UpCount(kept)'
      OBVIOUS
    <3>1. kept' = kept /\ kept \in Walks /\ UpSkip(kept) /\ UpCount(kept)
      BY <1>5 DEF SkipInv, RefreshSkip, CountInv, CountRefresh, TypeOK
    <3>2. PICK w \in Walks : w = kept
      BY <3>1
    <3>3. UpCount(w)'
      BY <1>4, <3>1, <3>2
    <3> QED
      BY <3>1, <3>2, <3>3 DEF UpCount
  <2>3. CASE refresh' = Idle
    BY <2>2, <2>3 DEF CountRefresh, Idle
  <2>4. CASE refresh' = refresh
    <3>1. refresh.phase = "walk" => UpCount(refresh.walk)'
      <4> SUFFICES ASSUME refresh.phase = "walk" PROVE UpCount(refresh.walk)'
        OBVIOUS
      <4>1. refresh.walk \in Walks /\ UpSkip(refresh.walk) /\ UpCount(refresh.walk)
        BY DEF SkipInv, RefreshSkip, CountInv, CountRefresh, TypeOK, Refreshes
      <4>2. PICK w \in Walks : w = refresh.walk
        BY <4>1
      <4>3. UpCount(w)'
        BY <1>4, <4>1, <4>2
      <4> QED
        BY <2>4, <4>2, <4>3 DEF UpCount
    <3>2. PICK n \in Int : n = refresh.facts.uid_next
      BY <1>0
    <3>3. ASSUME refresh.phase # "idle", refresh.validity = uidValidity
          PROVE  /\ n <= uidNext
                 /\ Cardinality(Live(n))' <= refresh.facts.messages
      <4>1. n <= uidNext /\ Cardinality(Live(n)) <= refresh.facts.messages
        BY <3>2, <3>3 DEF SkipInv, RefreshSkip, CountInv, CountRefresh
      <4>2. refresh.facts.messages \in Int
        BY DEF TypeOK, Refreshes, Synced
      <4> QED
        BY <1>1, <4>1, <4>2
    <3>4. ASSUME refresh.phase = "advance", leftOut = {}
          PROVE  Cardinality(Known(n))' <= refresh.facts.messages
      <4>1. n <= uidNext /\ Cardinality(Known(n)) <= refresh.facts.messages
        BY <3>2, <3>4 DEF SkipInv, RefreshSkip, CountInv, CountRefresh
      <4>2. refresh.facts.messages \in Int
        BY DEF TypeOK, Refreshes, Synced
      <4> QED
        BY <1>1, <4>1, <4>2
    <3>5. /\ Live(refresh.facts.uid_next)' = Live(n)'
          /\ Known(refresh.facts.uid_next)' = Known(n)'
      BY <2>4, <3>2 DEF Live, Known
    <3>6. ASSUME refresh.phase \in {"flags", "count"}, leftOut = {},
                 NEW u \in Present', u < refresh.facts.uid_next
          PROVE  u < progress.synced.uid_next
      <4>1. refresh.facts.uid_next <= uidNext /\ u \in Uids /\ box'[u].msg # NoMessage
        BY <3>6 DEF SkipInv, RefreshSkip, Present
      <4>2. u \in Present
        BY <1>0, <3>6, <4>1 DEF Present
      <4> QED
        BY <3>6, <4>2 DEF CountInv, CountRefresh
    <3> QED
      BY <1>5, <2>2, <2>4, <3>1, <3>2, <3>3, <3>4, <3>5, <3>6 DEF CountInv, CountRefresh
  <2> QED
    BY <1>5, <2>3, <2>4
<1> QED
  BY <1>2, <1>3, <1>4, <1>5

\* The server's steps.
LEMMA ServerCount ==
    ASSUME TypeOK, NumberingInv, SkipInv, CountInv, Server
    PROVE  CountInv'
<1>0. /\ uidNext \in Nat /\ uidValidity \in Nat /\ \A u \in Uids : u \in Nat
      /\ UNCHANGED <<row, rows, progress, slipped, sync, refresh, kept, leftOut>>
      /\ \A u \in Uids : Named(u)' => Named(u)
  <2>1. UNCHANGED <<row, rows, progress, slipped, sync, refresh, kept, leftOut>>
    BY DEF Server, Arrive, SetFlags, Expunge, Renumber, store, memory
  <2> QED
    BY <2>1, BoundsAssumption DEF TypeOK, Uids, Named, Held
<1>1. CASE Arrive \/ SetFlags \/ Expunge
  <2>1. uidValidity' = uidValidity
    BY <1>1 DEF Arrive, SetFlags, Expunge
  <2>2. \A u \in Uids : u < uidNext => box'[u].msg = NoMessage \/ box[u].msg # NoMessage
    <3>1. CASE Arrive
      <4>1. PICK v \in uidNext..MaxUid :
               box' = [box EXCEPT ![v] = [msg |-> born + 1, mod |-> highestModseq + 1,
                                          deleted |-> FALSE]]
        BY <3>1 DEF Arrive
      <4>2. uidNext <= v /\ v \in Int
        BY <1>0, <4>1, BoundsAssumption
      <4>3. \A u \in Uids : u < uidNext => u # v
        BY <1>0, <4>2
      <4> QED
        BY <4>1, <4>3 DEF TypeOK
    <3>2. CASE SetFlags \/ Expunge
      BY <3>2 DEF SetFlags, Expunge, TypeOK, Present, Empty
    <3> QED
      BY <1>1, <3>1, <3>2
  <2>3. CountStore' /\ CountTask' /\ CountRefresh'
    BY <1>0, <2>1, <2>2, CountKept
  <2> QED
    BY <2>3 DEF CountInv
<1>2. CASE Renumber
  <2>1. uidValidity' = uidValidity + 1 /\ ~Selected
    BY <1>2 DEF Renumber
  <2>2. ~Stands'
    BY <1>0, <2>1 DEF NumberingInv, Stands, NULL
  <2>3. refresh.phase \notin {"walk", "flags", "count", "advance"}
    BY <2>1 DEF Selected
  <2>4. \A n \in 1..uidValidity : n # uidValidity'
    BY <1>0, <2>1
  <2>5. CountStore'
    BY <2>2 DEF CountStore
  <2>6. CountTask'
    BY <1>0, <2>4 DEF CountTask, SkipInv, TaskSkip
  <2>7. CountRefresh'
    <3>1. kept # NoWalk => UpCount(kept)'
      BY <1>0, <2>4 DEF UpCount, CountInv, CountRefresh, SkipInv, RefreshSkip, UpSkip
    <3>2. refresh.phase # "idle" => refresh.validity # uidValidity'
      BY <2>4 DEF SkipInv, RefreshSkip
    <3> QED
      BY <1>0, <2>3, <3>1, <3>2 DEF CountInv, CountRefresh
  <2> QED
    BY <2>5, <2>6, <2>7 DEF CountInv
<1> QED
  BY <1>1, <1>2 DEF Server

\* A write brings rows of what it was answered, and knows as slipped those at
\* or above the UIDNEXT a walk down puts on record.
LEMMA WriteNames ==
    ASSUME TypeOK, Stands, NEW w \in Walks, NEW uids, NEW passed \in SUBSET Uids,
           w.validity = uidValidity, WriteBatch(Batch(w, uids, passed))
    PROVE  /\ row' = row /\ progress' = Saved(progress, Batch(w, uids, passed).advance)
           /\ \A u \in Uids : Named(u)' =>
                \/ Named(u)
                \/ /\ u \in uids /\ box[u].msg # NoMessage
                   /\ w.walk = "down" => ~(u >= progress'.synced.uid_next)
<1> DEFINE b == Batch(w, uids, passed)
           fresh == {u \in Uids : b.emails[u].msg # NoMessage /\ u \notin Held}
<1>1. Pinned(b.validity)
  BY BatchType DEF Pinned, Stands
<1>2. /\ rows' = [u \in Uids |-> IF u \in fresh THEN b.emails[u] ELSE rows[u]]
      /\ progress' = Saved(progress, b.advance) /\ row' = row
      /\ slipped' = slipped \cup Slip(b, fresh)
  BY <1>1 DEF WriteBatch
<1>3. /\ \A u \in Uids : b.emails[u].msg # NoMessage => u \in uids /\ box[u].msg # NoMessage
      /\ b.advance.walk = w.walk
  BY DEF Batch, Emails, Present, NoRow, Advance
<1> HIDE DEF b
<1>4. \A u \in fresh : /\ b.emails[u].msg # NoMessage /\ u \in Uids /\ u \notin Held
                       /\ w.walk = "down" /\ u >= progress'.synced.uid_next
                            => b.emails[u].msg \in slipped'
  BY <1>2, <1>3 DEF Slip
<1> HIDE DEF fresh
<1>5. ASSUME NEW u \in Uids, Named(u)', ~Named(u)
      PROVE  u \in fresh
  BY <1>2, <1>5 DEF Named, Held
<1>6. ASSUME NEW u \in fresh
      PROVE  Named(u)' => ~(w.walk = "down" /\ u >= progress'.synced.uid_next)
  BY <1>2, <1>4, <1>6 DEF Named
<1> QED
  BY <1>2, <1>3, <1>4, <1>5, <1>6 DEF b

\* A write of the walk down: the first puts the count of its EXAMINE on
\* record, and every row it brings is of a message counted there or slipped.
LEMMA WriteDownCount ==
    ASSUME TypeOK, FlagsInv, SkipInv, CountInv,
           sync.walk = "down", sync.validity = uidValidity,
           refresh' = Idle, kept' = kept, leftOut \subseteq leftOut',
           NEW w \in Walks, w.walk = "down", w.validity = uidValidity,
           w.opened = sync.opened, sync' = w \/ sync' = NoWalk,
           NEW uids, NEW passed \in SUBSET Uids,
           WriteBatch(Batch(w, uids, passed)), UNCHANGED server
    PROVE  CountInv'
<1>0. /\ Stands /\ UNCHANGED <<uidValidity, uidNext, box>>
      /\ progress \in Progress /\ sync.opened \in Synced
      /\ \A s \in Synced : s.uid_next \in Int /\ s.messages \in Int
      /\ \A u \in Uids : u \in Int
      /\ leftOut' = {} => leftOut = {}
  <2>1. \A s \in Synced : s.uid_next \in Int /\ s.messages \in Int
    BY BoundsAssumption DEF Synced, NULL
  <2> QED
    BY <2>1, BoundsAssumption DEF SkipInv, TaskSkip, server, TypeOK, Walks, Uids
<1>1. /\ row' = row /\ progress' = Saved(progress, Batch(w, uids, passed).advance)
      /\ \A u \in Uids : Named(u)' => \/ Named(u)
                                      \/ /\ box[u].msg # NoMessage
                                         /\ ~(u >= progress'.synced.uid_next)
  BY <1>0, WriteNames
<1>2. progress'.synced = IF progress.synced.messages = NULL THEN w.opened ELSE progress.synced
  BY <1>0, <1>1, SavedDown
<1>3. PICK n \in Int : n = progress'.synced.uid_next
  <2>1. progress'.synced \in Synced
    BY <1>0, <1>2 DEF Progress
  <2> QED
    BY <1>0, <2>1
<1>4. Known(progress.synced.uid_next)' = Known(n)'
  BY <1>3 DEF Known
<1>5. CountStore'
  <2> SUFFICES ASSUME leftOut' = {}
               PROVE  /\ Cardinality(Known(n))' <= progress'.synced.messages
                      /\ \A u \in Uids : Named(u)' => u < n
    BY <1>3, <1>4 DEF CountStore
  <2>1. CASE progress.synced.messages # NULL
    <3>1. /\ Cardinality(Known(n)) <= progress'.synced.messages
          /\ \A u \in Uids : Named(u) => u < n
      BY <1>0, <1>2, <1>3, <2>1 DEF CountInv, CountStore
    <3>2. Cardinality(Known(n))' <= Cardinality(Known(n))
      BY <1>0, <1>1, Fewer
    <3>3. Known(n)' \in SUBSET Uids
      BY DEF Known
    <3>4. Cardinality(Known(n))' \in Nat /\ Cardinality(Known(n)) \in Nat
      BY <3>3, UidsFinite, CountedFacts
    <3>5. progress'.synced.messages \in Int
      BY <1>0, <1>2, <2>1 DEF Progress
    <3> QED
      BY <1>0, <1>1, <1>3, <3>1, <3>2, <3>4, <3>5
  <2>2. CASE progress.synced.messages = NULL
    <3>1. \A u \in Uids : ~Named(u)
      BY <2>2 DEF FlagsInv, FlagsStore, Named, NULL
    <3>2. /\ Cardinality(Live(n)) <= progress'.synced.messages
          /\ progress'.synced.messages \in Int
      BY <1>0, <1>2, <1>3, <2>2 DEF CountInv, CountTask
    <3>3. Known(n)' \subseteq Live(n)
      BY <1>0, <1>1, <3>1 DEF Known, Live, Present
    <3>4. Cardinality(Known(n))' <= Cardinality(Live(n))
      BY <3>3, CountedFacts
    <3>5. Cardinality(Known(n))' \in Nat /\ Cardinality(Live(n)) \in Nat
      <4>1. Known(n)' \in SUBSET Uids
        BY DEF Known
      <4> QED
        BY <4>1, UidsFinite, CountedFacts
    <3> QED
      BY <1>0, <1>1, <1>3, <3>1, <3>2, <3>4, <3>5
  <2> QED
    BY <2>1, <2>2
<1>6. CountTask'
  <2>1. CASE sync' = NoWalk
    BY <2>1 DEF CountTask, NoWalk
  <2>2. CASE sync' = w
    <3>1. Live(sync.opened.uid_next)' = Live(sync.opened.uid_next)
      BY <1>0, <2>2 DEF Live, Present
    <3> QED
      BY <1>0, <2>2, <3>1 DEF CountTask, CountInv
  <2> QED
    BY <2>1, <2>2
<1>7. CountRefresh'
  <2>1. kept # NoWalk => UpCount(kept)'
    BY <1>0, <1>2 DEF UpCount, CountInv, CountRefresh, Present, Pending
  <2> QED
    BY <2>1 DEF CountRefresh, Idle
<1> QED
  BY <1>5, <1>6, <1>7 DEF CountInv

\* A batch of a walk upward adds what it was answered to the count on record:
\* no less than what it newly knows.
LEMMA WriteUpCount ==
    ASSUME TypeOK, FlagsInv, SkipInv, CountInv,
           refresh.phase = "walk", refresh.walk.validity = uidValidity,
           sync' = sync, leftOut' = leftOut,
           NEW w \in Walks, w.walk = "up", w.validity = uidValidity,
           w.top = refresh.walk.top, Full(w),
           NEW slice \in Slices, slice.uids # {},
           WriteBatch(Batch(w, Answer(slice), slice.uids)), UNCHANGED server,
           Pending(refresh.walk) = slice.uids \cup Pending(w),
           Below(slice.uids, Pending(w))
    PROVE  /\ CountStore' /\ CountTask' /\ UpCount(w)'
           /\ progress'.synced.messages = progress.synced.messages + Cardinality(Answer(slice))
           /\ progress'.synced.uid_next <= refresh.facts.uid_next
<1> DEFINE A == Answer(slice)
           passed == slice.uids
           N == progress.synced.uid_next
           M == progress.synced.messages
<1>0. /\ Stands /\ UNCHANGED <<uidValidity, uidNext, box>> /\ progress \in Progress
      /\ passed \in SUBSET Uids /\ A \in SUBSET Present /\ A \in SUBSET Uids
      /\ M \in Nat /\ Cardinality(A) \in Nat /\ A \cap Present = A
      /\ UpSkip(refresh.walk) /\ UpCount(refresh.walk)
      /\ w.top < refresh.facts.uid_next /\ refresh.facts.uid_next \in Nat
      /\ N <= refresh.facts.uid_next
  <2>1. Stands /\ UpSkip(refresh.walk) /\ refresh.validity = uidValidity
    BY DEF SkipInv, RefreshSkip
  <2>2. passed \in SUBSET Uids /\ A \in SUBSET Present /\ A \in SUBSET Uids
    BY DEF Slices, Answer, Present
  <2>3. Cardinality(A) \in Nat
    BY <2>2, UidsFinite
  <2> QED
    BY <2>1, <2>2, <2>3 DEF FlagsInv, FlagsRefresh, TypeOK, server, CountInv, CountRefresh
<1>1. /\ N \in Int /\ w.top \in Int /\ \A u \in Uids : u \in Int
      /\ Max(passed) \in passed /\ \A u \in passed : u <= Max(passed)
      /\ Max(passed) \in Uids /\ Max(passed) <= w.top
  <2>1. N \in Int /\ w.top \in Int /\ \A u \in Uids : u \in Int
    <3>1. N \in Int
      BY <1>0, BoundsAssumption DEF Progress, Synced, NULL
    <3> QED
      BY <3>1, BoundsAssumption DEF Walks, Uids
  <2>2. Max(passed) \in passed /\ \A u \in passed : u <= Max(passed)
    BY <1>0, UidRange
  <2> QED
    BY <1>0, <2>1, <2>2 DEF UpSkip, Under
<1>2. \A u \in A : u <= Max(passed)
  <2>1. Min(passed) \in Int
    BY <1>0, <1>1, UidRange
  <2> QED
    BY <1>0, <1>1, <2>1 DEF Answer, Asked
<1>3. /\ row' = row /\ progress' = Saved(progress, Batch(w, A, passed).advance)
      /\ \A u \in Uids : Named(u)' => Named(u) \/ u \in A
  BY <1>0, WriteNames
<1>4. /\ progress'.synced.messages = M + Cardinality(A)
      /\ N <= progress'.synced.uid_next /\ Max(passed) < progress'.synced.uid_next
      /\ \/ progress'.synced.uid_next = N
         \/ progress'.synced.uid_next = 0
         \/ progress'.synced.uid_next = Max(passed) + 1
  <2> DEFINE q == Saved(progress, Batch(w, A, passed).advance)
  <2> HIDE DEF A, passed
  <2>1. /\ q.lowest = progress.lowest /\ q.done = progress.done /\ q.synced.messages \in Nat
        /\ \/ q.synced.uid_next = progress.synced.uid_next
           \/ q.synced.uid_next = 0
           \/ passed # {} /\ q.synced.uid_next = Max(passed) + 1
        /\ q.synced.messages = progress.synced.messages + Cardinality(A \cap Present)
        /\ progress.synced.uid_next <= q.synced.uid_next
        /\ passed # {} => Max(passed) < q.synced.uid_next
    <3>1. progress.synced.messages \in Nat /\ Cardinality(A \cap Present) \in Nat
      BY <1>0
    <3> QED
      BY <1>0, <3>1, SavedUp
  <2> HIDE DEF q
  <2>2. progress' = q
    BY <1>3 DEF q
  <2>3. passed # {}
    BY DEF passed
  <2> QED
    BY <1>0, <2>1, <2>2, <2>3
<1> HIDE DEF A, passed, N, M
<1>5. progress'.synced.uid_next <= refresh.facts.uid_next
  BY <1>0, <1>1, <1>4
<1>6. PICK n \in Int : n = progress'.synced.uid_next
  BY <1>1, <1>4
<1>7. ASSUME leftOut = {}, NEW u \in Present, N <= u, u < n
      PROVE  u \in A
  <2>1. u \in Uids /\ u <= Max(passed) /\ u <= w.top
    BY <1>1, <1>4, <1>6, <1>7 DEF Present, Uids, A, passed, N, M
  <2>2. u \in Pending(refresh.walk)
    BY <1>0, <1>7, <2>1 DEF UpCount, N
  <2>3. u \in passed
    BY <1>1, <2>1, <2>2 DEF Below, passed
  <2>4. u \in Answer(slice) \/ box[u].msg = NoMessage
    BY <2>3, Fetched DEF passed
  <2> QED
    BY <1>7, <2>4 DEF Present, A
<1>8. CountStore'
  <2> SUFFICES ASSUME leftOut = {}
               PROVE  /\ Cardinality(Known(n))' <= progress'.synced.messages
                      /\ \A u \in Uids : Named(u)' => u < n
    <3>1. Known(progress.synced.uid_next)' = Known(n)'
      BY <1>6 DEF Known
    <3> QED
      BY <1>6, <3>1 DEF CountStore
  <2>1. Cardinality(Known(N)) <= M /\ \A u \in Uids : Named(u) => u < N
    BY <1>0 DEF CountInv, CountStore, N, M, NULL
  <2>2. \A u \in Uids : Named(u)' => u < n
    BY <1>0, <1>1, <1>2, <1>3, <1>4, <1>6, <2>1
  <2>3. Known(n)' \subseteq Known(N) \cup A
    <3> SUFFICES ASSUME NEW u \in Uids, u < n, u \in Present \/ Named(u)'
                 PROVE  u \in Known(N) \cup A
      BY <1>0 DEF Known, Present
    <3>1. CASE Named(u)'
      BY <1>3, <2>1, <3>1 DEF Known
    <3>2. CASE u \in Present /\ u < N
      BY <3>2 DEF Known
    <3>3. CASE u \in Present /\ ~(u < N)
      BY <1>1, <1>7, <3>3
    <3> QED
      BY <3>1, <3>2, <3>3
  <2>4. Cardinality(Known(N) \cup A) <= Cardinality(Known(N)) + Cardinality(A)
    <3>1. Known(N) \in SUBSET Uids /\ Cardinality(Known(N)) \in Nat
      BY CountedFacts
    <3>2. IsFiniteSet(Known(N)) /\ IsFiniteSet(A) /\ Cardinality(Known(N) \cap A) \in Nat
      BY <1>0, <3>1, UidsFinite
    <3>3. Cardinality(Known(N) \cup A)
            = Cardinality(Known(N)) + Cardinality(A) - Cardinality(Known(N) \cap A)
      BY <3>2, FS_Union
    <3> QED
      BY <1>0, <3>1, <3>2, <3>3
  <2>5. Cardinality(Known(n))' <= Cardinality(Known(N) \cup A)
    <3>1. Known(N) \cup A \in SUBSET Uids
      BY <1>0, CountedFacts
    <3> QED
      BY <2>3, <3>1, CountedFacts
  <2>6. /\ Cardinality(Known(n))' \in Nat /\ Cardinality(Known(N)) \in Nat
        /\ Cardinality(Known(N) \cup A) \in Nat
    <3>1. Known(n)' \in SUBSET Uids /\ Known(N) \cup A \in SUBSET Uids
      BY <1>0 DEF Known
    <3> QED
      BY <3>1, UidsFinite, CountedFacts
  <2> QED
    BY <1>0, <1>4, <2>1, <2>2, <2>4, <2>5, <2>6
<1>9. CountTask'
  <2>1. Live(sync.opened.uid_next)' = Live(sync.opened.uid_next)
    BY <1>0 DEF Live, Present
  <2> QED
    BY <1>0, <2>1 DEF CountTask, CountInv
<1>10. UpCount(w)'
  <2>1. progress'.synced.messages # NULL
    BY <1>0, <1>4 DEF NULL
  <2>2. ASSUME leftOut = {}, NEW u \in Present, n <= u, u <= w.top
        PROVE  u \in Pending(w)
    <3>1. u \in Uids /\ N <= u /\ ~(u <= Max(passed))
      BY <1>1, <1>4, <1>6, <2>2 DEF Present
    <3>2. u \in Pending(refresh.walk)
      BY <1>0, <2>2, <3>1 DEF UpCount, N
    <3> QED
      BY <1>1, <3>1, <3>2 DEF passed
  <2> QED
    BY <1>0, <1>6, <2>1, <2>2 DEF UpCount, Present
<1> QED
  BY <1>4, <1>5, <1>8, <1>9, <1>10 DEF A, M

\* The steps of the account's task.
LEMMA TaskCount ==
    ASSUME TypeOK, NumberingInv, FlagsInv, SkipInv, CountInv, Task \/ BatchFails \/ TaskStops
    PROVE  CountInv'
<1> DEFINE slice == NextSlice(sync)
           taken == Taken(sync)
           narrow == Narrow(taken, slice)
<1>0. /\ sync \in Walks /\ slice.uids \in SUBSET Uids
      /\ taken \in Walks /\ taken.opened = sync.opened /\ taken.walk = sync.walk
      /\ taken.validity = sync.validity
      /\ Put(taken, slice).opened = sync.opened /\ Put(taken, slice).validity = sync.validity
      /\ narrow \in Walks /\ narrow.opened = sync.opened /\ narrow.walk = sync.walk
      /\ narrow.validity = sync.validity
  <2>1. sync \in Walks
    BY DEF TypeOK
  <2>2. /\ slice \in Slices /\ taken \in Walks /\ taken.opened = sync.opened
        /\ taken.walk = sync.walk /\ taken.validity = sync.validity
    BY <2>1, SliceType, OpeningKept
  <2> HIDE DEF slice, taken
  <2>3. /\ narrow \in Walks /\ narrow.opened = taken.opened /\ narrow.walk = taken.walk
        /\ narrow.validity = taken.validity
        /\ Put(taken, slice).opened = taken.opened
        /\ Put(taken, slice).validity = taken.validity
    BY <2>2, NarrowType, OpeningKept, PutType
  <2> QED
    BY <2>1, <2>2, <2>3 DEF Slices
<1> HIDE DEF slice, taken, narrow
<1>1. ASSUME UNCHANGED <<server, store, refresh, kept, leftOut>>
      PROVE  /\ CountStore' /\ CountRefresh'
             /\ (\/ sync' = NoWalk
                 \/ /\ sync.walk # "none" /\ sync'.opened = sync.opened
                    /\ sync'.validity = sync.validity)
                  => CountTask'
  <2>1. UNCHANGED <<uidValidity, box, row, rows, progress, slipped, leftOut, refresh, kept>>
    BY <1>1 DEF server, store
  <2>2. \A u \in Uids : Named(u)' => Named(u)
    BY <2>1 DEF Named, Held
  <2> QED
    BY <2>1, <2>2, CountKept
<1>2. CASE Open
  <2>1. /\ UNCHANGED <<server, store, refresh, kept, leftOut>>
        /\ sync'.opened = Counts
    BY <1>2 DEF Open, NoWalk
  <2>2. CountTask'
    <3>1. Live(uidNext)' \subseteq Present /\ Present \in SUBSET Uids
      BY <2>1 DEF Live, Present, server
    <3>2. Cardinality(Live(uidNext))' <= Cardinality(Present)
      BY <3>1, CountedFacts
    <3>3. /\ sync'.opened.uid_next = uidNext' /\ sync'.opened.messages = Cardinality(Present)
      BY <2>1 DEF Counts, server
    <3>4. Live(sync.opened.uid_next)' = Live(uidNext)'
      BY <3>3 DEF Live
    <3> QED
      BY <3>2, <3>3, <3>4 DEF CountTask
  <2> QED
    BY <1>1, <2>1, <2>2 DEF CountInv
<1>3. CASE List \/ ResumeStale \/ GiveUp \/ TaskStops \/ BatchFails
  <2>1. UNCHANGED <<server, store, refresh, kept, leftOut>>
    BY <1>3 DEF List, ResumeStale, GiveUp, TaskStops, BatchFails
  <2>2. \/ sync' = NoWalk
        \/ sync.walk # "none" /\ sync'.opened = sync.opened /\ sync'.validity = sync.validity
    <3>1. CASE List
      BY <1>0, <3>1 DEF List, Walks
    <3>2. CASE BatchFails
      <4>1. sync' = Put(taken, slice) /\ sync.walk = "down"
        BY <3>2 DEF BatchFails, Turn, taken, slice
      <4> QED
        BY <1>0, <4>1
    <3> QED
      BY <1>3, <3>1, <3>2 DEF ResumeStale, GiveUp, TaskStops
  <2> QED
    BY <1>1, <2>1, <2>2 DEF CountInv
<1>4. CASE BatchWritten
  <2>1. /\ sync.walk = "down" /\ sync.validity = uidValidity
        /\ refresh' = Idle /\ kept' = kept /\ leftOut' = leftOut /\ UNCHANGED server
    BY <1>4 DEF BatchWritten, Turn
  <2>2. CASE Waits(sync)
    <3>1. /\ WriteBatch(Batch(taken, Answer(slice), slice.uids))
          /\ sync' = taken \/ sync' = NoWalk
      BY <1>4, <2>2 DEF BatchWritten, taken, slice
    <3> QED
      BY <1>0, <2>1, <3>1, WriteDownCount
  <2>3. CASE ~Waits(sync)
    <3>1. /\ WriteBatch(Batch(sync, {}, {}))
          /\ sync' = sync \/ sync' = NoWalk
      BY <1>4, <2>3 DEF BatchWritten
    <3>2. PICK none \in SUBSET Uids : none = {}
      OBVIOUS
    <3> QED
      BY <1>0, <2>1, <3>1, <3>2, WriteDownCount
  <2> QED
    BY <2>2, <2>3
<1>5. CASE BatchNarrowed
  <2>1. /\ sync.walk = "down" /\ sync.validity = uidValidity /\ UNCHANGED server
        /\ refresh = Idle /\ refresh' = refresh /\ kept' = kept
        /\ sync' = narrow /\ leftOut \subseteq leftOut'
        /\ LeavesOut(taken, slice) => WriteBatch(Batch(narrow, {}, slice.uids))
        /\ ~LeavesOut(taken, slice) => UNCHANGED <<store, leftOut>>
    BY <1>5 DEF BatchNarrowed, Turn, taken, slice, narrow
  <2>2. CASE LeavesOut(taken, slice)
    BY <1>0, <2>1, <2>2, WriteDownCount
  <2>3. CASE ~LeavesOut(taken, slice)
    <3>1. UNCHANGED <<server, store, refresh, kept, leftOut>>
      BY <2>1, <2>3
    <3> QED
      BY <1>0, <1>1, <2>1, <3>1 DEF CountInv
  <2> QED
    BY <2>2, <2>3
<1> QED
  BY <1>2, <1>3, <1>4, <1>5 DEF Task

\* A walk widened or begun leaves no slice empty.
LEMMA FullBegun ==
    ASSUME NEW through
    PROVE  /\ \A w \in Walks : Full(w) => Full(ExtendTo(w, through)) \/ ExtendTo(w, through) = NoWalk
           /\ \A validity, from : Full(Above(validity, from, through))
<1>1. ASSUME NEW w \in Walks, Full(w)
      PROVE  Full(ExtendTo(w, through)) \/ ExtendTo(w, through) = NoWalk
  <2>1. CASE ExtendTo(w, through) = w
    BY <1>1, <2>1
  <2>2. CASE ExtendTo(w, through) = NoWalk
    BY <2>2
  <2>3. CASE ExtendTo(w, through) = [w EXCEPT !.remaining = @ \cup ((w.top + 1)..through),
                                              !.top = through]
    <3>1. ExtendTo(w, through).narrowed = w.narrowed
      BY <2>3 DEF Walks
    <3> QED
      BY <1>1, <3>1 DEF Full
  <2> QED
    BY <2>1, <2>2, <2>3 DEF ExtendTo
<1>2. ASSUME NEW validity, NEW from
      PROVE  Full(Above(validity, from, through))
  <2>1. Above(validity, from, through).narrowed = <<>>
    BY DEF Above, NoWalk
  <2> QED
    BY <2>1 DEF Full
<1> QED
  BY <1>1, <1>2

\* The mailbox pass and EXAMINE: the walk begun or resumed asks for all that
\* lies between the UIDNEXT on record and that of the pass.
LEMMA OpeningCount ==
    ASSUME TypeOK, NumberingInv, FlagsInv, SkipInv, CountInv, Pass \/ Skip \/ Examine
    PROVE  CountInv'
<1>0. /\ refresh \in Refreshes /\ kept \in Walks /\ kept.top \in Int
      /\ uidValidity \in Nat \ {0} /\ uidNext \in Nat
      /\ progress.synced.uid_next \in (-1)..(MaxUid + 1)
      /\ refresh.facts.uid_next \in (-1)..(MaxUid + 1) /\ MaxUid \in Nat
      /\ progress.synced.messages \in Int
      /\ \A u \in Uids : u \in Int /\ u >= 1
  <2>1. /\ refresh \in Refreshes /\ kept \in Walks /\ uidValidity \in Nat \ {0}
        /\ uidNext \in Nat /\ progress.synced \in Synced
    BY BoundsAssumption DEF TypeOK, Progress
  <2>2. refresh.facts \in Synced /\ kept.top \in Int
    BY <2>1 DEF Refreshes, Walks
  <2>3. MaxUid \in Nat /\ \A u \in Uids : u \in Int /\ u >= 1
    BY BoundsAssumption DEF Uids
  <2> QED
    BY <2>1, <2>2, <2>3 DEF Synced, NULL
<1>1. /\ UNCHANGED <<uidValidity, uidNext, box, leftOut, sync, slipped>>
      /\ Live(uidNext) \subseteq Present /\ Cardinality(Live(uidNext)) <= Cardinality(Present)
  <2>1. UNCHANGED <<uidValidity, uidNext, box, leftOut, sync, slipped>>
    BY DEF Pass, Skip, Examine, server, store
  <2>2. Live(uidNext) \subseteq Present /\ Present \in SUBSET Uids
    BY DEF Live, Present
  <2> QED
    BY <2>1, <2>2, CountedFacts
<1>2. ASSUME UNCHANGED <<row, rows, progress>>
      PROVE  /\ CountStore' /\ CountTask'
             /\ \A w \in Walks : UpSkip(w) /\ UpCount(w) => UpCount(w)'
             /\ (refresh' = refresh \/ refresh' = Idle) /\ kept' \in {kept, NoWalk}
                  => CountRefresh'
  <2>1. \A u \in Uids : Named(u)' => Named(u)
    BY <1>1, <1>2 DEF Named, Held
  <2> QED
    BY <1>1, <1>2, <2>1, CountKept
<1>3. CASE Skip
  <2>1. UNCHANGED <<row, rows, progress, kept>> /\ refresh' = Idle
    BY <1>3 DEF Skip, store
  <2> QED
    BY <1>2, <2>1 DEF CountInv
<1>4. CASE Pass /\ row = uidValidity
  <2>1. /\ UNCHANGED <<row, rows, progress, kept>> /\ refresh = Idle
        /\ refresh' = IF progress.done
                      THEN [Idle EXCEPT !.phase = "passed", !.facts = Counts,
                                        !.validity = uidValidity]
                      ELSE Idle
    BY <1>4 DEF Pass
  <2>2. CASE ~progress.done
    BY <1>2, <2>1, <2>2 DEF CountInv
  <2>3. CASE progress.done
    <3>1. /\ refresh'.phase = "passed" /\ refresh'.arrived = 0
          /\ refresh'.facts.uid_next = uidNext
          /\ refresh'.facts.messages = Cardinality(Present)
      BY <2>1, <2>3 DEF Idle, Counts
    <3>2. kept # NoWalk => UpSkip(kept) /\ UpCount(kept)
      BY DEF SkipInv, RefreshSkip, CountInv, CountRefresh
    <3>3. kept # NoWalk => UpCount(kept)'
      BY <1>0, <1>1, <2>1, <3>2 DEF UpCount, Present, Pending
    <3>4. kept # NoWalk /\ kept.validity = uidValidity => kept.top < uidNext
      BY <3>2 DEF UpSkip
    <3>5. progress.synced.uid_next <= uidNext
      BY <1>4 DEF SkipInv, StoreSkip, Stands
    <3>6. Live(refresh.facts.uid_next)' = Live(uidNext)
      BY <1>1, <3>1 DEF Live, Present
    <3>7. CountRefresh'
      BY <1>0, <1>1, <2>1, <3>1, <3>3, <3>4, <3>5, <3>6 DEF CountRefresh
    <3> QED
      BY <1>2, <2>1, <3>7 DEF CountInv
  <2> QED
    BY <2>2, <2>3
<1>5. CASE Pass /\ row # uidValidity
  <2>1. /\ progress'.synced.messages = NULL /\ refresh' = Idle /\ kept' = kept
    <3>1. CASE row = NULL
      <4>1. progress = NoProgress /\ progress' = progress
        BY <1>5, <3>1 DEF SkipInv, StoreSkip, Pass
      <4> QED
        BY <1>5, <3>1, <4>1 DEF Pass, NoProgress, NothingSynced
    <3>2. CASE row # NULL
      BY <1>5, <3>2 DEF Pass, Renumbered, NoProgress, NothingSynced
    <3> QED
      BY <3>1, <3>2
  <2>2. CountStore'
    BY <2>1 DEF CountStore
  <2>3. CountTask'
    <3>1. Live(sync.opened.uid_next)' = Live(sync.opened.uid_next)
      BY <1>1 DEF Live, Present
    <3> QED
      BY <1>1, <3>1 DEF CountTask, CountInv
  <2>4. kept # NoWalk => UpCount(kept)'
    <3>1. kept # NoWalk => kept.validity # uidValidity /\ Full(kept)
      BY <1>5 DEF SkipInv, RefreshSkip, UpSkip, Stands, CountInv, CountRefresh, UpCount
    <3> QED
      BY <1>1, <2>1, <3>1 DEF UpCount
  <2>5. CountRefresh'
    BY <2>1, <2>4 DEF CountRefresh, Idle
  <2> QED
    BY <2>2, <2>3, <2>5 DEF CountInv
<1>6. CASE Examine
  <2> DEFINE N == progress.synced.uid_next
             F == refresh.facts.uid_next
             through == F - 1
             from == Larger(N, 1)
             resumed == IF kept = NoWalk THEN NoWalk ELSE ExtendTo(kept, through)
             fresh == Above(refresh.validity, from, through)
             next == IF resumed # NoWalk THEN resumed ELSE fresh
  <2>1. /\ refresh.phase = "passed" /\ uidValidity = refresh.validity
        /\ refresh' = [refresh EXCEPT !.phase = IF next = NoWalk THEN "flags" ELSE "walk",
                                      !.base = progress.synced,
                                      !.modseq = highestModseq, !.walk = next]
        /\ kept' = NoWalk /\ UNCHANGED <<row, rows, progress>>
    BY <1>6 DEF Examine, store
  <2>2. /\ F \in Int /\ N \in Int /\ through \in (-2)..MaxUid /\ through \in Int
        /\ from \in Nat \ {0} /\ N <= from /\ (from = N \/ from = 1) /\ F = through + 1
    BY <1>0 DEF Larger
  <2>3. /\ progress.synced.messages \in Nat /\ progress.synced.messages # NULL
        /\ Cardinality(Live(F)) <= refresh.facts.messages /\ N <= F /\ refresh.arrived = 0
        /\ F \in Nat
        /\ kept # NoWalk /\ kept.validity = uidValidity => kept.top < F
    BY <2>1 DEF FlagsInv, FlagsRefresh, CountInv, CountRefresh, NULL
  <2> HIDE DEF through, from, N, F
  <2>4. ASSUME next # NoWalk
        PROVE  /\ Full(next)
               /\ next.validity = uidValidity =>
                    /\ next.top < F
                    /\ leftOut = {} =>
                         \A u \in Present : N <= u /\ u <= next.top => u \in Pending(next)
    <3>1. CASE resumed # NoWalk
      <4>1. /\ kept # NoWalk /\ next = ExtendTo(kept, through)
            /\ ExtendTo(kept, through) # NoWalk /\ UpSkip(kept) /\ UpCount(kept)
        BY <3>1 DEF SkipInv, RefreshSkip, CountInv, CountRefresh
      <4>2. /\ next.validity = kept.validity
            /\ next.top = Larger(kept.top, through)
            /\ Pending(next) = Pending(kept) \cup {u \in Uids : kept.top < u /\ u <= through}
        BY <1>0, <2>2, <4>1, Widening DEF UpSkip
      <4>3. Full(next)
        BY <1>0, <4>1, FullBegun DEF UpCount
      <4> HIDE DEF next
      <4>4. next.top = kept.top \/ (next.top = through /\ kept.top <= through)
        BY <1>0, <2>2, <4>2 DEF Larger
      <4>5. ASSUME next.validity = uidValidity
            PROVE  next.top < F
        BY <1>0, <2>2, <2>3, <4>1, <4>2, <4>4, <4>5
      <4>6. ASSUME next.validity = uidValidity, leftOut = {}, NEW u \in Present,
                   N <= u, u <= next.top
            PROVE  u \in Pending(next)
        <5>1. CASE u <= kept.top
          BY <4>1, <4>2, <4>6, <5>1 DEF UpCount, N
        <5>2. CASE ~(u <= kept.top)
          <6>1. u \in Uids /\ kept.top < u /\ u <= through
            BY <1>0, <2>2, <4>4, <4>6, <5>2 DEF Present
          <6> QED
            BY <4>2, <6>1
        <5> QED
          BY <5>1, <5>2
      <4> QED
        BY <4>3, <4>5, <4>6
    <3>2. CASE resumed = NoWalk
      <4>1. next = fresh /\ from <= through
        <5>1. from > through => fresh = NoWalk
          BY DEF Above
        <5> QED
          BY <2>2, <2>4, <3>2, <5>1
      <4>2. refresh.validity \in Int
        BY <1>0, <2>1
      <4>3. /\ next.top = through
            /\ \A u \in Present : from <= u /\ u <= through => u \in Pending(next)
        BY <2>2, <4>1, <4>2, Rising
      <4>4. Full(next)
        BY <4>1, FullBegun
      <4> HIDE DEF next
      <4>5. \A u \in Present : N <= u => from <= u
        BY <1>0, <2>2 DEF Present
      <4> QED
        BY <2>2, <4>3, <4>4, <4>5
    <3> QED
      BY <3>1, <3>2
  <2>5. ASSUME next = NoWalk, NEW u \in Present, u < F
        PROVE  u < N
    <3>1. from > through
      <4> SUFFICES ASSUME ~(from > through) PROVE FALSE
        OBVIOUS
      <4>1. fresh.walk = "up"
        BY <1>0, <2>1, <2>2, Rising
      <4> QED
        BY <2>5, <4>1 DEF NoWalk
    <3>2. u \in Int /\ u >= 1
      BY <1>0 DEF Present
    <3> QED
      BY <2>2, <2>5, <3>1, <3>2
  <2> HIDE DEF next
  <2>6. /\ refresh'.phase = IF next = NoWalk THEN "flags" ELSE "walk"
        /\ refresh'.facts = refresh.facts /\ refresh'.validity = refresh.validity
        /\ refresh'.walk = next /\ refresh'.base = progress.synced /\ refresh'.arrived = 0
    BY <1>0, <2>1, <2>3 DEF Refreshes
  <2>7. refresh'.facts.uid_next = F /\ progress'.synced.uid_next = N
        /\ progress'.synced.messages = refresh'.base.messages + refresh'.arrived
    BY <1>0, <2>1, <2>6 DEF F, N
  <2>8. Live(refresh.facts.uid_next)' = Live(F)
    BY <1>1, <2>7 DEF Live, Present
  <2>9. Present' = Present
    BY <1>1 DEF Present
  <2>10. CASE next = NoWalk
    <3>1. refresh'.phase = "flags"
      BY <2>6, <2>10
    <3>2. CountRefresh'
      BY <1>1, <2>1, <2>3, <2>5, <2>6, <2>7, <2>8, <2>9, <2>10, <3>1 DEF CountRefresh
    <3> QED
      BY <1>2, <2>1, <3>2 DEF CountInv
  <2>11. CASE next # NoWalk
    <3>1. refresh'.phase = "walk"
      BY <2>6, <2>11
    <3>2. UpCount(refresh.walk)'
      <4>1. refresh'.walk = next
        BY <2>6
      <4>2. Pending(refresh.walk)' = Pending(next) /\ Full(refresh.walk)' = Full(next)
        BY <4>1 DEF Pending, Full
      <4> QED
        BY <1>1, <2>1, <2>3, <2>4, <2>7, <2>9, <2>11, <4>1, <4>2 DEF UpCount
    <3>3. CountRefresh'
      BY <1>1, <2>1, <2>3, <2>4, <2>6, <2>7, <2>8, <2>11, <3>1, <3>2 DEF CountRefresh
    <3> QED
      BY <1>2, <2>1, <3>3 DEF CountInv
  <2> QED
    BY <2>10, <2>11
<1> QED
  BY <1>3, <1>4, <1>5, <1>6

\* The walk upward: what a batch answers joins the count on record, and what
\* waits once more is waited for still.
LEMMA WalkCount ==
    ASSUME TypeOK, NumberingInv, FlagsInv, SkipInv, CountInv,
           WalkWritten \/ WalkNarrowed \/ WalkFails
    PROVE  CountInv'
<1> DEFINE walk == refresh.walk
           slice == NextSlice(walk)
           taken == Taken(walk)
           F == refresh.facts.uid_next
<1>0. /\ refresh \in Refreshes /\ walk \in Walks /\ slice \in Slices /\ taken \in Walks
      /\ slice.uids \in SUBSET Uids /\ Answer(slice) \in SUBSET Uids
      /\ taken.walk = walk.walk /\ taken.validity = walk.validity
      /\ \A u \in Uids : u \in Int
      /\ refresh.arrived \in Nat /\ Cardinality(Answer(slice)) \in Nat
  <2>1. refresh \in Refreshes /\ walk \in Walks /\ refresh.arrived \in Nat
    BY DEF TypeOK, Refreshes
  <2> HIDE DEF walk
  <2>2. slice \in Slices /\ taken \in Walks /\ slice.uids \in SUBSET Uids
        /\ taken.walk = walk.walk /\ taken.validity = walk.validity
    BY <2>1, SliceType DEF Slices
  <2>3. Answer(slice) \in SUBSET Uids
    BY DEF Answer, Present
  <2> QED
    BY <2>1, <2>2, <2>3, UidsFinite, BoundsAssumption DEF Uids
<1>1. refresh.phase = "walk"
  BY DEF WalkWritten, WalkNarrowed, WalkFails
<1> HIDE DEF walk, slice, taken, F
<1>2. /\ UpSkip(walk) /\ UpCount(walk) /\ Stands /\ refresh.validity = uidValidity
      /\ walk.validity # uidValidity => Waits(walk)
      /\ walk.validity = uidValidity => walk.top < F
      /\ F <= walk.top + 1 /\ F \in Nat /\ walk.top \in Int
      /\ kept = NoWalk /\ progress.synced.uid_next <= F
      /\ Cardinality(Live(F)) <= refresh.facts.messages
      /\ progress.synced.messages = refresh.base.messages + refresh.arrived
      /\ refresh.base.messages \in Int /\ progress.synced.messages \in Nat
  <2>1. walk.top \in Int /\ refresh.base.messages \in Int
    BY <1>0 DEF Walks, Refreshes, Synced
  <2> QED
    BY <1>1, <2>1 DEF SkipInv, RefreshSkip, CountInv, CountRefresh, FlagsInv, FlagsRefresh, walk, F
<1>3. UNCHANGED <<uidValidity, uidNext, box, sync>> /\ UNCHANGED server /\ Present' = Present
  BY DEF WalkWritten, WalkNarrowed, WalkFails, server, Present
<1>4. ASSUME Waits(walk)
      PROVE  /\ Ordered(taken) /\ taken.walk = "up" /\ taken.top = walk.top
             /\ Pending(walk) = slice.uids \cup Pending(taken)
             /\ Below(slice.uids, Pending(taken))
             /\ Before(taken.walk, slice.uids, Pending(taken))
             /\ Full(taken) /\ slice.uids # {}
  <2>1. Ordered(walk) /\ walk.walk = "up" /\ Full(walk)
    BY <1>2 DEF UpSkip, UpCount
  <2>2. /\ Pending(walk) = slice.uids \cup Pending(taken) /\ Ordered(taken)
        /\ Before(walk.walk, slice.uids, Pending(taken)) /\ taken.top = walk.top
    BY <1>0, <1>4, <2>1, Taking DEF slice, taken
  <2>3. Full(taken) /\ slice.uids # {}
    BY <1>0, <1>4, <2>1, FullKept DEF slice, taken
  <2> QED
    BY <1>0, <2>1, <2>2, <2>3 DEF Before
<1>5. progress' \in Progress
  <2>1. TypeOK'
    BY RefreshType DEF Refresh
  <2> QED
    BY <2>1 DEF TypeOK
<1>6. CountTask'
  <2>1. Live(sync.opened.uid_next)' = Live(sync.opened.uid_next)
    BY <1>3 DEF Live
  <2> QED
    BY <1>3, <2>1 DEF CountTask, CountInv
<1>7. ASSUME UNCHANGED <<store, leftOut>>
      PROVE  CountStore'
  <2>1. \A u \in Uids : Named(u)' => Named(u)
    BY <1>7 DEF store, Named, Held
  <2> QED
    BY <1>3, <1>7, <2>1, CountKept DEF store
<1>8. ASSUME NEW w, kept' = w, refresh' = Idle, UNCHANGED <<store, leftOut>>,
             Full(w), w.validity = walk.validity, w.top = walk.top, Pending(w) = Pending(walk)
      PROVE  CountInv'
  <2>1. UpCount(kept)'
    <3>1. /\ Pending(kept)' = Pending(walk) /\ Full(kept)' /\ kept'.top = walk.top
          /\ kept'.validity = walk.validity
      BY <1>8 DEF Pending, Full
    <3> QED
      BY <1>2, <1>3, <1>8, <3>1 DEF UpCount, store
  <2>2. CountRefresh'
    BY <1>8, <2>1 DEF CountRefresh, Idle
  <2> QED
    BY <1>6, <1>7, <1>8, <2>2 DEF CountInv
<1>9. ASSUME refresh'.phase = "flags", refresh'.facts = refresh.facts, kept' = kept,
             refresh'.validity = refresh.validity,
             leftOut' = leftOut, walk.validity = uidValidity,
             progress'.synced.messages = refresh'.base.messages + refresh'.arrived,
             progress'.synced.uid_next <= F,
             NEW w, UpCount(w)', w.validity = uidValidity, w.top = walk.top, Pending(w) = {}
      PROVE  CountRefresh'
  <2>1. Live(refresh.facts.uid_next)' = Live(F)
    BY <1>3, <1>9 DEF Live, F
  <2>2. ASSUME leftOut = {}, NEW u \in Present, u < F
        PROVE  u < progress'.synced.uid_next
    <3>1. u \in Int /\ u <= w.top /\ progress'.synced.uid_next \in Int
      <4>1. u \in Int
        BY <1>0 DEF Present
      <4>2. progress'.synced.uid_next \in Int
        BY <1>5, BoundsAssumption DEF Progress, Synced, NULL
      <4> QED
        BY <1>2, <1>9, <2>2, <4>1, <4>2
    <3>2. ~(progress'.synced.uid_next <= u)
      BY <1>3, <1>9, <2>2, <3>1 DEF UpCount
    <3> QED
      BY <3>1, <3>2
  <2> QED
    BY <1>2, <1>3, <1>9, <2>1, <2>2 DEF CountRefresh, F
<1>10. CASE WalkFails
  <2>1. /\ Waits(walk) /\ kept' = Put(taken, slice) /\ refresh' = Idle
        /\ UNCHANGED <<store, leftOut>>
    BY <1>10 DEF WalkFails, walk, taken, slice
  <2>2. /\ Put(taken, slice).top = walk.top
        /\ Put(taken, slice).validity = walk.validity
        /\ Pending(Put(taken, slice)) = Pending(walk) /\ Full(Put(taken, slice))
    BY <1>0, <1>4, <2>1, Putting, PutType, FullKept
  <2>3. PICK w : w = Put(taken, slice)
    OBVIOUS
  <2> QED
    BY <1>8, <2>1, <2>2, <2>3
<1>11. CASE WalkNarrowed
  <2> DEFINE narrow == Narrow(taken, slice)
  <2>1. /\ Waits(walk) /\ Breaks(slice) /\ kept' = narrow /\ refresh' = Idle
        /\ LeavesOut(taken, slice) =>
             /\ WriteBatch(Batch(narrow, {}, slice.uids))
             /\ leftOut' = leftOut \cup {box[u].msg : u \in Answer(slice)}
        /\ ~LeavesOut(taken, slice) => UNCHANGED <<store, leftOut>>
    BY <1>11 DEF WalkNarrowed, walk, taken, slice
  <2>2. /\ narrow \in Walks /\ narrow.walk = "up" /\ narrow.top = walk.top
        /\ narrow.validity = walk.validity
        /\ Pending(narrow) = IF LeavesOut(taken, slice) THEN Pending(taken)
                             ELSE Pending(taken) \cup slice.uids
        /\ Full(narrow)
    BY <1>0, <1>4, <2>1, Narrowing, FullKept
  <2> HIDE DEF narrow
  <2>3. CASE ~LeavesOut(taken, slice)
    <3>1. PICK w : w = narrow
      OBVIOUS
    <3> QED
      BY <1>4, <1>8, <2>1, <2>2, <2>3, <3>1
  <2>4. CASE LeavesOut(taken, slice)
    <3>1. leftOut' # {}
      BY <2>1, <2>4 DEF Breaks
    <3>2. narrow.validity = uidValidity => progress'.synced.messages # NULL
      <4> SUFFICES ASSUME narrow.validity = uidValidity
                   PROVE  progress'.synced.messages # NULL
        OBVIOUS
      <4> DEFINE q == Saved(progress, Batch(narrow, {}, slice.uids).advance)
      <4>1. progress' = q
        BY <1>0, <1>2, <2>1, <2>2, <2>4, WriteNames
      <4>2. PICK none \in SUBSET Uids : none = {}
        OBVIOUS
      <4>3. Cardinality(none \cap Present) \in Nat
        BY UidsFinite
      <4>4. Saved(progress, Batch(narrow, none, slice.uids).advance).synced.messages \in Nat
        <5>1. progress \in Progress
          BY DEF TypeOK
        <5> QED
          BY <1>0, <1>2, <2>2, <4>3, <5>1, SavedUp
      <4>5. q.synced.messages \in Nat
        BY <4>2, <4>4
      <4> HIDE DEF q
      <4> QED
        BY <4>1, <4>5 DEF NULL
    <3>3. CountStore'
      BY <3>1 DEF CountStore
    <3>4. UpCount(kept)'
      <4>1. Full(kept)' /\ kept'.validity = narrow.validity
        BY <2>1, <2>2 DEF Full
      <4> QED
        BY <1>3, <3>1, <3>2, <4>1 DEF UpCount
    <3>5. CountRefresh'
      BY <2>1, <3>4 DEF CountRefresh, Idle
    <3> QED
      BY <1>6, <3>3, <3>5 DEF CountInv
  <2> QED
    BY <2>3, <2>4
<1>12. CASE WalkWritten
  <2>0. kept' = kept /\ leftOut' = leftOut /\ sync' = sync
    BY <1>12 DEF WalkWritten
  <2>1. CASE ~Waits(walk)
    <3>1. /\ refresh' = [refresh EXCEPT !.phase = "flags", !.walk = NoWalk]
          /\ UNCHANGED store
      BY <1>12, <2>1 DEF WalkWritten, walk
    <3>2. /\ refresh'.phase = "flags" /\ refresh'.facts = refresh.facts
          /\ refresh'.validity = refresh.validity
          /\ refresh'.base = refresh.base /\ refresh'.arrived = refresh.arrived
      BY <1>0, <3>1 DEF Refreshes
    <3>3. walk.validity = uidValidity /\ Pending(walk) = {}
      BY <1>0, <1>2, <2>1, PendingFacts
    <3>4. progress' = progress
      BY <3>1 DEF store
    <3>5. PICK w \in Walks : w = walk
      BY <1>0
    <3>6. UpCount(w)'
      BY <1>2, <1>3, <2>0, <3>4, <3>5 DEF UpCount
    <3>7. CountRefresh'
      BY <1>2, <1>9, <2>0, <3>2, <3>3, <3>4, <3>5, <3>6
    <3> QED
      BY <1>6, <1>7, <2>0, <3>1, <3>7 DEF CountInv
  <2>2. CASE Waits(walk) /\ walk.validity # uidValidity
    <3>1. refresh' = Idle /\ UNCHANGED <<store, leftOut>>
      <4>1. ~Pinned(walk.validity) /\ ~Pinned(Batch(taken, Answer(slice), slice.uids).validity)
        <5>1. Batch(taken, Answer(slice), slice.uids).validity = taken.validity
          BY DEF Batch
        <5> QED
          BY <1>0, <1>2, <2>2, <5>1 DEF Pinned, Stands
      <4>2. /\ WriteBatch(Batch(taken, Answer(slice), slice.uids))
            /\ ~Pinned(walk.validity) => refresh' = Idle
        BY <1>12, <2>2 DEF WalkWritten, walk, taken, slice
      <4> QED
        BY <2>0, <4>1, <4>2 DEF WriteBatch
    <3>2. CountRefresh'
      BY <1>2, <2>0, <3>1 DEF CountRefresh, Idle
    <3> QED
      BY <1>6, <1>7, <3>1, <3>2 DEF CountInv
  <2>3. CASE Waits(walk) /\ walk.validity = uidValidity
    <3> DEFINE on == [refresh EXCEPT !.arrived = @ + Cardinality(Answer(slice)),
                        !.phase = IF Waits(taken) THEN "walk" ELSE "flags",
                        !.walk = IF Waits(taken) THEN taken ELSE NoWalk]
    <3>1. /\ WriteBatch(Batch(taken, Answer(slice), slice.uids)) /\ refresh' = on
      <4>1. Pinned(walk.validity)
        BY <1>2, <2>3 DEF Pinned, Stands
      <4> QED
        BY <1>12, <2>3, <4>1 DEF WalkWritten, walk, taken, slice
    <3>2. /\ refresh'.phase = (IF Waits(taken) THEN "walk" ELSE "flags")
          /\ refresh'.walk = (IF Waits(taken) THEN taken ELSE NoWalk)
          /\ refresh'.arrived = refresh.arrived + Cardinality(Answer(slice))
          /\ refresh'.facts = refresh.facts /\ refresh'.validity = refresh.validity
          /\ refresh'.base = refresh.base
      BY <1>0, <3>1 DEF Refreshes
    <3> HIDE DEF on
    <3>3. PICK w \in Walks : w = taken
      BY <1>0
    <3>4. /\ CountStore' /\ UpCount(w)'
          /\ progress'.synced.messages
               = progress.synced.messages + Cardinality(Answer(slice))
          /\ progress'.synced.uid_next <= F
      <4>1. refresh.walk = walk
        BY DEF walk
      <4>2. /\ w.walk = "up" /\ w.validity = uidValidity /\ w.top = refresh.walk.top
            /\ Full(w) /\ Pending(refresh.walk) = slice.uids \cup Pending(w)
            /\ Below(slice.uids, Pending(w))
            /\ WriteBatch(Batch(w, Answer(slice), slice.uids))
        BY <1>0, <1>4, <2>3, <3>1, <3>3, <4>1
      <4>3. PICK s \in Slices : s = slice
        BY <1>0
      <4> QED
        BY <1>1, <1>3, <1>4, <2>0, <2>3, <4>1, <4>2, <4>3, WriteUpCount DEF F
    <3>5. progress'.synced.messages = refresh'.base.messages + refresh'.arrived
      BY <1>0, <1>2, <3>2, <3>4
    <3>7. CASE ~Waits(taken)
      <4>1. Pending(w) = {}
        BY <1>0, <3>3, <3>7, PendingFacts
      <4>2. CountRefresh'
        BY <1>0, <1>4, <1>9, <2>0, <2>3, <3>2, <3>3, <3>4, <3>5, <3>7, <4>1
      <4> QED
        BY <1>6, <3>4, <4>2 DEF CountInv
    <3>8. CASE Waits(taken)
      <4>1. refresh'.phase = "walk" /\ refresh'.walk = w
        BY <3>2, <3>3, <3>8
      <4>2. UpCount(refresh.walk)'
        BY <3>4, <4>1 DEF UpCount
      <4>3. Live(refresh.facts.uid_next)' = Live(F)
        BY <1>3, <3>2 DEF Live, F
      <4>4. w.top < F
        BY <1>2, <1>4, <2>3, <3>3
      <4>5. CountRefresh'
        BY <1>2, <1>3, <2>0, <3>2, <3>4, <3>5, <4>1, <4>2, <4>3, <4>4 DEF CountRefresh, F
      <4> QED
        BY <1>6, <3>4, <4>5 DEF CountInv
    <3> QED
      BY <3>7, <3>8
  <2> QED
    BY <2>1, <2>2, <2>3
<1> QED
  BY <1>10, <1>11, <1>12

\* The steps after the walk: where MESSAGES of the pass falls short of the
\* count, the rows the server lacks leave; where it does not, it counts them.
LEMMA AfterWalkCount ==
    ASSUME TypeOK, NumberingInv, FlagsInv, SkipInv, CountInv,
           Flags \/ Count \/ Advanced \/ RefreshFails
    PROVE  CountInv'
<1> DEFINE N == progress.synced.uid_next
           M == progress.synced.messages
           F == refresh.facts.uid_next
<1>0. /\ refresh \in Refreshes /\ refresh.facts \in Synced /\ progress \in Progress
      /\ N \in Int /\ F \in Int /\ M \in Int /\ refresh.facts.messages \in Int
      /\ \A u \in Uids : u \in Int
  <2>1. refresh \in Refreshes /\ refresh.facts \in Synced /\ progress \in Progress
        /\ progress.synced \in Synced
    BY DEF TypeOK, Refreshes, Progress
  <2>2. \A s \in Synced : s.uid_next \in Int /\ s.messages \in Int
    BY BoundsAssumption DEF Synced, NULL
  <2> QED
    BY <2>1, <2>2, BoundsAssumption DEF Uids
<1>1. /\ UNCHANGED <<uidValidity, uidNext, box, row, sync, kept, leftOut, slipped>>
      /\ \A u \in Uids : Named(u)' => Named(u)
  <2>1. UNCHANGED <<uidValidity, uidNext, box, row, sync, kept, leftOut, slipped>>
    BY DEF Flags, Count, Advanced, RefreshFails, server, store
  <2>2. \A u \in Uids : rows'[u].msg = rows[u].msg \/ rows'[u].msg = NoMessage
    <3>1. CASE Flags
      <4> DEFINE changed == {v \in Present \cap Held : box[v].mod > refresh.base.highest_modseq}
      <4>1. rows' = [v \in Uids |->
                       IF v \notin changed THEN rows[v]
                       ELSE IF box[v].deleted THEN NoRow
                       ELSE [rows[v] EXCEPT !.mod = box[v].mod]]
        BY <3>1 DEF Flags
      <4> HIDE DEF changed
      <4> QED
        BY <4>1 DEF TypeOK, Rows, NoRow
    <3>2. CASE Count
      <4>1. rows' = rows \/ rows' = [v \in Uids |-> IF v \in Present THEN rows[v] ELSE NoRow]
        BY <3>2 DEF Count
      <4> QED
        BY <4>1 DEF NoRow
    <3>3. CASE Advanced \/ RefreshFails
      BY <3>3 DEF Advanced, RefreshFails, store
    <3> QED
      BY <3>1, <3>2, <3>3
  <2> QED
    BY <2>1, <2>2 DEF Named, Held
<1>2. Live(sync.opened.uid_next)' = Live(sync.opened.uid_next) /\ Present' = Present
  BY <1>1 DEF Live, Present
<1>3. CountTask'
  BY <1>1, <1>2 DEF CountTask, CountInv
<1>4. ASSUME refresh.phase \in {"flags", "count", "advance"}
      PROVE  /\ Stands /\ refresh.validity = uidValidity /\ kept = NoWalk
             /\ M # NULL /\ F \in Nat /\ N <= F
             /\ Cardinality(Live(F)) <= refresh.facts.messages
             /\ refresh.phase \in {"flags", "count"} =>
                  /\ M = refresh.base.messages + refresh.arrived
                  /\ leftOut = {} => \A u \in Present : u < F => u < N
             /\ leftOut = {} => /\ Cardinality(Known(N)) <= M
                                /\ \A u \in Uids : Named(u) => u < N
             /\ refresh.phase = "advance" /\ leftOut = {} =>
                  Cardinality(Known(F)) <= refresh.facts.messages
  <2>1. Stands /\ refresh.validity = uidValidity /\ M # NULL
    BY <1>4 DEF SkipInv, RefreshSkip, FlagsInv, FlagsRefresh, NULL
  <2> QED
    BY <1>4, <2>1 DEF CountInv, CountRefresh, CountStore
<1>5. CASE RefreshFails
  <2>1. UNCHANGED progress /\ refresh' = Idle
    BY <1>5 DEF RefreshFails, store
  <2> QED
    BY <1>1, <1>3, <2>1, CountKept DEF CountInv
<1>6. ASSUME Flags \/ Count
      PROVE  /\ CountStore'
             /\ refresh'.phase = (IF refresh.phase = "flags" THEN "count" ELSE "advance")
             /\ refresh'.facts = refresh.facts /\ refresh'.validity = refresh.validity
             /\ refresh'.base = refresh.base /\ refresh'.arrived = refresh.arrived
             /\ progress' = progress /\ refresh.phase \in {"flags", "count"}
             /\ Live(refresh.facts.uid_next)' = Live(F)
  <2>1. /\ progress' = progress /\ refresh.phase \in {"flags", "count"}
        /\ refresh' = [refresh EXCEPT !.phase = IF refresh.phase = "flags" THEN "count"
                                                                         ELSE "advance"]
    BY <1>6 DEF Flags, Count
  <2>2. CountStore'
    BY <1>1, <2>1, CountKept
  <2>3. /\ refresh'.phase = (IF refresh.phase = "flags" THEN "count" ELSE "advance")
        /\ refresh'.facts = refresh.facts /\ refresh'.validity = refresh.validity
        /\ refresh'.base = refresh.base /\ refresh'.arrived = refresh.arrived
    BY <1>0, <2>1 DEF Refreshes
  <2> QED
    BY <1>2, <2>1, <2>2, <2>3 DEF Live
<1>7. CASE Flags
  <2>1. refresh.phase = "flags" /\ refresh'.phase = "count"
    BY <1>6, <1>7 DEF Flags
  <2>2. CountRefresh'
    BY <1>1, <1>2, <1>4, <1>6, <1>7, <2>1 DEF CountRefresh
  <2> QED
    BY <1>3, <1>6, <1>7, <2>2 DEF CountInv
<1>8. CASE Count
  <2>1. refresh.phase = "count" /\ refresh'.phase = "advance"
    BY <1>6, <1>8 DEF Count
  <2>2. PICK f \in Int : f = F
    BY <1>0
  <2>3. ASSUME leftOut = {}
        PROVE  Cardinality(Known(f))' <= refresh.facts.messages
    <3>1. Known(f)' \in SUBSET Uids
      BY DEF Known
    <3>2. Cardinality(Known(f))' \in Nat
      BY <3>1, UidsFinite
    <3>3. CASE FellShort
      <4>1. rows' = [v \in Uids |-> IF v \in Present THEN rows[v] ELSE NoRow]
        BY <1>8, <3>3 DEF Count
      <4>2. Known(f)' \subseteq Live(f)
        BY <1>2, <4>1 DEF Known, Live, Named, Held, NoRow
      <4>3. Cardinality(Known(f))' <= Cardinality(Live(f)) /\ Cardinality(Live(f)) \in Nat
        BY <4>2, CountedFacts
      <4> QED
        BY <1>0, <1>4, <2>1, <2>2, <3>2, <4>3
    <3>4. CASE ~FellShort
      <4>1. M <= refresh.facts.messages
        <5>1. refresh.base.messages + refresh.arrived = M
          BY <1>4, <2>1
        <5> QED
          BY <1>0, <3>4, <5>1 DEF FellShort
      <4>2. Known(f)' \subseteq Known(N)
        BY <1>1, <1>2, <1>4, <2>1, <2>2, <2>3 DEF Known
      <4>3. Cardinality(Known(f))' <= Cardinality(Known(N)) /\ Cardinality(Known(N)) \in Nat
        BY <4>2, CountedFacts
      <4> QED
        BY <1>0, <1>4, <2>1, <2>3, <3>2, <4>1, <4>3
    <3> QED
      BY <3>3, <3>4
  <2>4. Known(refresh.facts.uid_next)' = Known(f)'
    BY <1>6, <1>8, <2>2 DEF Known
  <2>5. CountRefresh'
    BY <1>1, <1>4, <1>6, <1>8, <2>1, <2>3, <2>4 DEF CountRefresh
  <2> QED
    BY <1>3, <1>6, <1>8, <2>5 DEF CountInv
<1>9. CASE Advanced
  <2>1. /\ refresh.phase = "advance" /\ refresh' = Idle
        /\ progress' = [progress EXCEPT !.synced = Learned] /\ rows' = rows
    BY <1>9 DEF Advanced
  <2>2. /\ progress'.synced.uid_next = F
        /\ progress'.synced.messages = refresh.facts.messages
    <3>1. progress'.synced = Learned
      BY <1>0, <2>1 DEF Progress
    <3> QED
      BY <1>0, <3>1 DEF Learned, Synced
  <2>3. PICK f \in Int : f = F
    BY <1>0
  <2>4. Known(f)' = Known(f)
    BY <1>1, <1>2, <2>1 DEF Known, Named, Held
  <2>5. Known(progress.synced.uid_next)' = Known(f)'
    BY <2>2, <2>3 DEF Known
  <2>6. leftOut = {} => \A u \in Uids : Named(u)' => u < F
    BY <1>0, <1>1, <1>4, <2>1
  <2>7. CountStore'
    BY <1>1, <1>4, <2>1, <2>2, <2>3, <2>4, <2>5, <2>6 DEF CountStore
  <2>8. CountRefresh'
    BY <1>1, <1>4, <2>1 DEF CountRefresh, Idle
  <2> QED
    BY <1>3, <2>7, <2>8 DEF CountInv
<1> QED
  BY <1>5, <1>7, <1>8, <1>9

\* In every state the count on record is no lower than what is known below
\* the UIDNEXT on record.
LEMMA CountHolds == Spec /\ []Whole => []CountInv
<1>1. Init => CountInv
  <2> SUFFICES ASSUME Init PROVE CountInv
    OBVIOUS
  <2>1. CountStore
    BY DEF Init, CountStore, NoProgress, NothingSynced
  <2>2. CountTask
    BY DEF Init, CountTask, NoWalk
  <2>3. CountRefresh
    BY DEF Init, CountRefresh, Idle
  <2> QED
    BY <2>1, <2>2, <2>3 DEF CountInv
<1>2. TypeOK /\ NumberingInv /\ FlagsInv /\ SkipInv /\ CountInv /\ Whole /\ Whole'
        /\ [Next]_vars => CountInv'
  <2> SUFFICES ASSUME TypeOK, NumberingInv, FlagsInv, SkipInv, CountInv,
                      Whole, Whole', [Next]_vars
               PROVE  CountInv'
    OBVIOUS
  <2>1. CASE Server
    BY <2>1, ServerCount
  <2>2. CASE Task \/ BatchFails \/ TaskStops
    BY <2>2, TaskCount
  <2>3. CASE Refresh \/ WalkFails \/ RefreshFails
    BY <2>3, OpeningCount, WalkCount, AfterWalkCount DEF Refresh
  <2>4. CASE BatchCut \/ WalkCut \/ Commit \/ Lose
    BY <2>4 DEF BatchCut, WalkCut, Commit, Lose, Whole
  <2>5. CASE Restart \/ UNCHANGED vars
    <3>1. /\ UNCHANGED <<uidValidity, box, row, rows, progress, slipped, leftOut>>
          /\ sync' = sync \/ sync' = NoWalk
          /\ refresh' = refresh \/ refresh' = Idle
          /\ kept' \in {kept, NoWalk}
      BY <2>5 DEF Restart, vars, server, store, memory
    <3>2. \A u \in Uids : Named(u)' => Named(u)
      BY <3>1 DEF Named, Held
    <3> QED
      BY <3>1, <3>2, CountKept DEF CountInv
  <2> QED
    BY <2>1, <2>2, <2>3, <2>4, <2>5 DEF Next, Faulty
<1>3. Whole => detached = {}
  BY DEF Whole
<1> QED
  BY <1>1, <1>2, <1>3, TypeCorrect, NumberingHolds, FlagsHold, SkipHolds, PTL DEF Spec

\* While the cache of a finished folder holds a row the server expunged, but
\* for one that slipped into the first sync behind its count, the count on
\* record lies above what the server has below the recorded UIDNEXT, so that
\* a later refresh reads the UID list and lets the row go, whatever arrived,
\* failed or was narrowed in between (progress::save, Refresher::expunged).
THEOREM ExpungesShow == Spec /\ []Whole => []ExpungeShows
<1>1. TypeOK /\ FlagsInv /\ CountInv => ExpungeShows
  <2> SUFFICES ASSUME TypeOK, FlagsInv, CountInv, leftOut = {},
                      NEW u \in StaleRows, rows[u].msg \notin slipped
               PROVE  Shortfall
    BY DEF ExpungeShows
  <2> DEFINE n == progress.synced.uid_next
             M == progress.synced.messages
  <2>1. Stands /\ progress.done /\ u \in Held \ Present /\ u \in Uids
    BY DEF StaleRows, Held
  <2>2. M \in Nat /\ M # NULL
    BY <2>1 DEF FlagsInv, FlagsStore, NULL
  <2>3. /\ Cardinality(Known(n)) <= M /\ Named(u) /\ u < n
    BY <2>1, <2>2 DEF CountInv, CountStore, Named
  <2> HIDE DEF n, M
  <2>4. Live(n) \cup {u} \subseteq Known(n) /\ u \notin Live(n)
    BY <2>1, <2>3 DEF Live, Known, Present
  <2>5. Cardinality(Live(n) \cup {u}) = Cardinality(Live(n)) + 1
    <3>1. IsFiniteSet(Live(n))
      BY CountedFacts, UidsFinite
    <3> QED
      BY <2>4, <3>1, FS_AddElement
  <2>6. Cardinality(Live(n) \cup {u}) <= Cardinality(Known(n))
    <3>1. Live(n) \cup {u} \in SUBSET Uids
      BY <2>1, CountedFacts
    <3> QED
      BY <2>4, <3>1, CountedFacts
  <2>7. Cardinality(Live(n)) \in Nat /\ Cardinality(Known(n)) \in Nat
    BY CountedFacts
  <2>8. Cardinality(Live(n)) < M
    BY <2>2, <2>3, <2>5, <2>6, <2>7
  <2> QED
    BY <2>8 DEF Shortfall, Live, n, M
<1>2. Whole => detached = {}
  BY DEF Whole
<1> QED
  BY <1>1, <1>2, TypeCorrect, FlagsHold, CountHolds, PTL
=============================================================================
