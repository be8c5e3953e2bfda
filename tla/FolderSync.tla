----------------------------- MODULE FolderSync -----------------------------
(***************************************************************************)
(* One IMAP folder, the rows the bridge caches of it and the two readers   *)
(* that fill them: the account's task, which walks a new folder downward   *)
(* batch by batch, and the refresh, which walks the new mail of a finished *)
(* folder upward, then takes the changed flags and the expunges.           *)
(*                                                                         *)
(* The server moves at any time.  A message is a number (its identity      *)
(* across renumberings), its flags are the mod-sequence they were last     *)
(* changed under, and the \Deleted flag, which the bridge treats apart.    *)
(* The readers share one conversation: a refresh holds its lock from the   *)
(* mailbox pass to the end, a turn of the task for one batch.              *)
(***************************************************************************)
EXTENDS Integers, Sequences, FiniteSetsExt

CONSTANTS
    MaxUid,           \* bound: the highest UID the server gives out
    MaxMessage,       \* bound: the messages that ever arrive
    MaxModseq,        \* bound: the changes the server counts
    MaxValidity,      \* bound: 1 + the renumberings
    MaxFaults,        \* bound: lost sessions, deadlines, crashes, store errors
    SYNC_BATCH,       \* the messages of one fetch
    NARROWING_BUDGET, \* the failed fetches one walk spends on narrowing
    REFRESH_GAP,      \* the UIDs a walk upward asks for one by one
    REMATCH_LIMIT,    \* the rows of a renumbered folder that wait for a match
    Undescribable,    \* messages whose fetch always breaks the answer's bounds
    Unstructured,     \* messages that break them only with BODYSTRUCTURE
    CutWrites         \* whether a deadline may pass while a batch is written

ASSUME BoundsAssumption ==
    /\ {MaxUid, MaxMessage, MaxModseq, MaxValidity} \subseteq Nat \ {0}
    /\ {MaxFaults, NARROWING_BUDGET, REMATCH_LIMIT} \subseteq Nat
    /\ {SYNC_BATCH, REFRESH_GAP} \subseteq Nat \ {0}

ASSUME MessagesAssumption ==
    /\ Undescribable \subseteq 1..MaxMessage
    /\ Unstructured \subseteq 1..MaxMessage
    /\ CutWrites \in BOOLEAN

VARIABLES
    uidValidity, uidNext, highestModseq, box, born,    \* the server
    row, rows, waiting, progress,                      \* the store
    sync,                                              \* the account's task
    refresh, kept,                                     \* the refresher
    detached,                                          \* writes nobody awaits
    faults,
    leftOut, marked, slipped                           \* history

server == <<uidValidity, uidNext, highestModseq, box, born, marked>>
store  == <<row, rows, waiting, progress, slipped>>
memory == <<sync, refresh, kept, detached>>
vars   == <<server, store, memory, faults, leftOut>>

-----------------------------------------------------------------------------
(* Values *)

NULL == -1                        \* an SQL NULL and an Option's None
Uids == 1..MaxUid
Messages == 1..MaxMessage
NoMessage == 0

Synced == [uid_next : NULL..(MaxUid + 1), highest_modseq : Int, messages : Int]
NothingSynced == [uid_next |-> NULL, highest_modseq |-> NULL, messages |-> NULL]

NoProgress == [lowest |-> NULL, done |-> FALSE, synced |-> NothingSynced]

Slices == [uids : SUBSET Uids, structure : BOOLEAN]
NoWalk == [walk |-> "none", validity |-> NULL, remaining |-> {}, narrowed |-> <<>>,
           budget |-> 0, top |-> 0, opened |-> NothingSynced]

NoRow == [msg |-> NoMessage, mod |-> 0]
NoRows == [u \in Uids |-> NoRow]
Empty == [msg |-> NoMessage, mod |-> 0, deleted |-> FALSE]

Idle == [phase |-> "idle", facts |-> NothingSynced, validity |-> NULL,
         base |-> NothingSynced, modseq |-> NULL, walk |-> NoWalk, arrived |-> 0]

Present == {u \in Uids : box[u].msg # NoMessage}
Held == {u \in Uids : rows[u].msg # NoMessage}
OnServer == {box[u].msg : u \in Present}
Cached == {rows[u].msg : u \in Held} \cup waiting

Coalesce(a, b) == IF a = NULL THEN b ELSE a
Larger(a, b) == IF a < b THEN b ELSE a

\* The n lowest and the n highest elements of a set of UIDs.
Lowest(S, n)  == {u \in S : Cardinality({v \in S : v < u}) < n}
Highest(S, n) == {u \in S : Cardinality({v \in S : v > u}) < n}

\* UIDNEXT, HIGHESTMODSEQ and MESSAGES, as STATUS and EXAMINE give them.
Counts == [uid_next |-> uidNext, highest_modseq |-> highestModseq,
           messages |-> Cardinality(Present)]

-----------------------------------------------------------------------------
(* A walk over the UIDs of the folder, one slice at a time *)

Waits(w) == w.narrowed # <<>> \/ w.remaining # {}

Put(w, slice) == [w EXCEPT !.narrowed = Append(@, slice)]

\* The narrowed slice that goes next, else the next SYNC_BATCH UIDs.
NextSlice(w) ==
    IF w.narrowed # <<>> THEN w.narrowed[Len(w.narrowed)]
    ELSE [uids |-> IF w.walk = "down" THEN Highest(w.remaining, SYNC_BATCH)
                                      ELSE Lowest(w.remaining, SYNC_BATCH),
          structure |-> TRUE]

\* The walk with its next slice taken out.
Taken(w) ==
    IF w.narrowed # <<>>
    THEN [w EXCEPT !.narrowed = SubSeq(@, 1, Len(@) - 1)]
    ELSE [w EXCEPT !.remaining = @ \ NextSlice(w).uids]

\* Mutant: no last fetch without BODYSTRUCTURE.
LeavesOutEarly(w, slice) == w.budget > 0 /\ Cardinality(slice.uids) = 1

\* Whether a failed slice is one message that its last fetch leaves out.
LeavesOut(w, slice) ==
    /\ w.budget > 0
    /\ Cardinality(slice.uids) = 1
    /\ ~slice.structure

\* Mutant: a failed slice goes back whole.
NarrowNever(w, slice) == Put(w, slice)

\* Mutant: the budget is not checked before it is spent.
NarrowUnbounded(w, slice) == [Put(w, slice) EXCEPT !.budget = @ - 1]

\* What a failed slice narrows to: the half the walk reaches first on top,
\* a lone message without its structure, nothing for one left out, and the
\* whole slice once the budget is spent.
Narrow(w, slice) ==
    LET spent == [w EXCEPT !.budget = @ - 1]
        lower == Lowest(slice.uids, Cardinality(slice.uids) \div 2)
        Half(uids) == [slice EXCEPT !.uids = uids]
    IN CASE w.budget = 0 -> Put(w, slice)
         [] w.budget > 0 /\ Cardinality(slice.uids) > 1 ->
              IF w.walk = "down"
              THEN Put(Put(spent, Half(lower)), Half(slice.uids \ lower))
              ELSE Put(Put(spent, Half(slice.uids \ lower)), Half(lower))
         [] LeavesOut(w, slice) -> spent
         [] OTHER -> Put(spent, [slice EXCEPT !.structure = FALSE])

\* A walk upward widened to `through`; the UIDs above its top are added
\* unless they are too many, and NoWalk stands for a walk to start afresh.
ExtendTo(w, through) ==
    CASE through <= w.top -> w
      [] through - w.top >= REFRESH_GAP -> NoWalk
      [] OTHER -> [w EXCEPT !.remaining = @ \cup ((w.top + 1)..through),
                            !.top = through]

\* The new mail from `from` up to `through`: every UID in between, or those
\* the UID list names where the gap is wide.
Above(validity, from, through) ==
    IF from > through THEN NoWalk
    ELSE [NoWalk EXCEPT !.walk = "up", !.validity = validity,
            !.budget = NARROWING_BUDGET, !.top = through,
            !.remaining = IF through - from < REFRESH_GAP
                          THEN from..through ELSE Present \cap (from..through)]

-----------------------------------------------------------------------------
(* The fetch of a slice asks for the range from its first UID to its last. *)

Asked(slice) == Min(slice.uids)..Max(slice.uids)
Answer(slice) == Asked(slice) \cap Present

\* Whether the answer breaks the bounds the session reads it under.
Breaks(slice) ==
    \E u \in Answer(slice) : \/ box[u].msg \in Undescribable
                             \/ slice.structure /\ box[u].msg \in Unstructured

\* The answer as the rows it maps to; a message flagged \Deleted has none.
Emails(uids) ==
    [u \in Uids |-> IF u \in uids \cap Present /\ ~box[u].deleted
                    THEN [msg |-> box[u].msg, mod |-> box[u].mod] ELSE NoRow]

\* How far the folder stands after a write of walk w (its slice taken) that
\* passed the UIDs `passed` with `arrived` messages answered.
Advance(w, passed, arrived) ==
    [walk |-> w.walk,
     lowest |-> IF passed = {} THEN NULL ELSE Min(passed),
     done |-> ~Waits(w), synced |-> w.opened,
     uid_next |-> IF passed = {} THEN NULL ELSE Max(passed) + 1,
     arrived |-> arrived]

Batch(w, uids, passed) ==
    [validity |-> w.validity, emails |-> Emails(uids),
     advance |-> Advance(w, passed, Cardinality(uids \cap Present))]

-----------------------------------------------------------------------------
(* Store transactions *)

\* Mutant: a later opening overwrites the values of the first.
SavedAnew(p, advance) ==
    IF advance.walk = "up"
    THEN [p EXCEPT !.synced.uid_next = Larger(Coalesce(@, 0), advance.uid_next),
                   !.synced.messages = IF @ = NULL THEN NULL ELSE @ + advance.arrived]
    ELSE [lowest |-> Coalesce(advance.lowest, p.lowest),
          done |-> advance.done, synced |-> advance.synced]

\* progress::save.  A walk down keeps the values of its first opening; a
\* walk up moves UIDNEXT forward and the count by what was answered.
Saved(p, advance) ==
    IF advance.walk = "up"
    THEN [p EXCEPT !.synced.uid_next = Larger(Coalesce(@, 0), advance.uid_next),
                   !.synced.messages = IF @ = NULL THEN NULL ELSE @ + advance.arrived]
    ELSE [lowest |-> Coalesce(advance.lowest, p.lowest),
          done |-> advance.done,
          synced |-> IF p.synced.messages = NULL THEN advance.synced ELSE p.synced]

\* Mutant: the waiting rows leave with the first batch.
FinishesEarly(p, advance) == advance.walk = "down" /\ ~p.done

\* Whether the write is the one that finishes the first sync.
Finishes(p, advance) == advance.walk = "down" /\ advance.done /\ ~p.done

\* History: the messages a walk down brings that arrived after its EXAMINE,
\* so at or above the UIDNEXT on record.
Slip(b, fresh) ==
    {b.emails[u].msg : u \in {v \in fresh : /\ b.advance.walk = "down"
                                            /\ v >= Saved(progress, b.advance).synced.uid_next}}

\* Mutant: the folder's UIDVALIDITY is not compared.
PinnedAlways(validity) == TRUE

\* folders::pinned: the row stands under the UIDVALIDITY the walk read.
Pinned(validity) == row = validity

\* write_batch: nothing unless the folder stands.  A UID already held is
\* skipped; a waiting row of the same identity is rewritten under its new
\* UID, and the write that finishes the first sync lets the rows nothing
\* matched leave.
WriteBatch(b) ==
    IF Pinned(b.validity)
    THEN LET fresh == {u \in Uids : b.emails[u].msg # NoMessage /\ u \notin Held}
             unmatched == waiting \ {b.emails[u].msg : u \in fresh}
         IN /\ rows' = [u \in Uids |-> IF u \in fresh THEN b.emails[u] ELSE rows[u]]
            /\ waiting' = IF Finishes(progress, b.advance) THEN {} ELSE unmatched
            /\ progress' = Saved(progress, b.advance)
            /\ slipped' = slipped \cup Slip(b, fresh)
            /\ UNCHANGED row
    ELSE UNCHANGED store

\* folders::renumber inside the mailbox pass: what waited leaves, the rows
\* wait in their place unless they are too many, the progress starts over.
Renumbered ==
    /\ waiting' = IF Cardinality(Held) > REMATCH_LIMIT
                  THEN {} ELSE {rows[u].msg : u \in Held}
    /\ rows' = NoRows
    /\ progress' = NoProgress

-----------------------------------------------------------------------------
Init ==
    /\ uidValidity = 1 /\ uidNext = 1 /\ highestModseq = 1 /\ born = 0
    /\ box = [u \in Uids |-> Empty]
    /\ row = NULL /\ rows = NoRows /\ waiting = {} /\ progress = NoProgress
    /\ sync = NoWalk /\ refresh = Idle /\ kept = NoWalk /\ detached = {}
    /\ faults = 0
    /\ leftOut = {} /\ marked = {} /\ slipped = {}

-----------------------------------------------------------------------------
(* The server, as RFC 3501 and RFC 7162 let it move under the bridge *)

\* A message arrives under a UID no lower than UIDNEXT.
Arrive ==
    /\ born < MaxMessage /\ highestModseq < MaxModseq
    /\ \E u \in uidNext..MaxUid :
         /\ box' = [box EXCEPT ![u] = [msg |-> born + 1, mod |-> highestModseq + 1,
                                       deleted |-> FALSE]]
         /\ uidNext' = u + 1
    /\ born' = born + 1
    /\ highestModseq' = highestModseq + 1
    /\ UNCHANGED <<uidValidity, store, memory, faults, leftOut, marked>>

\* The flags of a message change, \Deleted among them.
SetFlags ==
    /\ highestModseq < MaxModseq
    /\ \E u \in Present, deleted \in BOOLEAN :
         /\ box' = [box EXCEPT ![u] = [msg |-> box[u].msg, mod |-> highestModseq + 1,
                                       deleted |-> deleted]]
         /\ marked' = IF deleted THEN marked \cup {box[u].msg} ELSE marked
    /\ highestModseq' = highestModseq + 1
    /\ UNCHANGED <<uidValidity, uidNext, born, store, memory, faults, leftOut>>

Expunge ==
    /\ \E u \in Present : box' = [box EXCEPT ![u] = Empty]
    /\ UNCHANGED <<uidValidity, uidNext, highestModseq, born, store, memory,
                   faults, leftOut, marked>>

\* Whether a session has the folder selected between two commands.
Selected == \/ sync.walk = "opening"
            \/ refresh.phase \in {"walk", "flags", "count", "advance"}

\* The server renumbers the folder: the messages keep their order under the
\* UIDs from 1 and a new UIDVALIDITY.
Renumber ==
    /\ uidValidity < MaxValidity
    /\ ~Selected
    /\ LET Rank(u) == Cardinality({v \in Present : v <= u})
       IN /\ box' = [v \in Uids |->
                       IF \E u \in Present : Rank(u) = v
                       THEN box[CHOOSE u \in Present : Rank(u) = v] ELSE Empty]
          /\ uidNext' = Cardinality(Present) + 1
    /\ uidValidity' = uidValidity + 1
    /\ UNCHANGED <<highestModseq, born, store, memory, faults, leftOut, marked>>

Server == Arrive \/ SetFlags \/ Expunge \/ Renumber

-----------------------------------------------------------------------------
(* The account's task: the first sync of the folder *)

Fault == faults < MaxFaults /\ faults' = faults + 1

\* FolderSync::open up to EXAMINE: the server's values of this opening.
Open ==
    /\ sync = NoWalk /\ refresh = Idle
    /\ row # NULL /\ ~progress.done
    /\ uidValidity = row
    /\ sync' = [NoWalk EXCEPT !.walk = "opening", !.validity = row,
                              !.budget = NARROWING_BUDGET, !.opened = Counts]
    /\ UNCHANGED <<server, store, refresh, kept, detached, faults, leftOut>>

\* The UID list, below the lowest UID a batch has passed.
List ==
    /\ sync.walk = "opening"
    /\ sync' = [sync EXCEPT !.walk = "down",
                  !.remaining = {u \in Present : progress.lowest # NULL
                                                   => u < progress.lowest}]
    /\ UNCHANGED <<server, store, refresh, kept, detached, faults, leftOut>>

\* A turn has the conversation and the folder selected again.
Turn == sync.walk = "down" /\ refresh = Idle

\* FolderSync::resume finds the folder renumbered, which ends this sync.
ResumeStale ==
    /\ Turn /\ uidValidity # sync.validity
    /\ sync' = NoWalk
    /\ UNCHANGED <<server, store, refresh, kept, detached, faults, leftOut>>

\* A batch that ends in a write: what the fetch answered, or the last write
\* without messages once nothing waits.
BatchWritten ==
    /\ Turn /\ uidValidity = sync.validity
    /\ Waits(sync) => ~Breaks(NextSlice(sync))
    /\ LET slice == NextSlice(sync)
           after == IF Waits(sync) THEN Taken(sync) ELSE sync
           batch == IF Waits(sync) THEN Batch(after, Answer(slice), slice.uids)
                                   ELSE Batch(after, {}, {})
       IN /\ WriteBatch(batch)
          /\ sync' = IF Pinned(sync.validity) /\ Waits(after) THEN after ELSE NoWalk
    /\ UNCHANGED <<server, refresh, kept, detached, faults, leftOut>>

\* The answer breaks its bounds: the slice is narrowed, or its one message
\* left out and passed.
BatchNarrowed ==
    /\ Turn /\ uidValidity = sync.validity
    /\ Waits(sync) /\ Breaks(NextSlice(sync))
    /\ LET slice == NextSlice(sync)
           taken == Taken(sync)
           narrow == Narrow(taken, slice)
       IN /\ sync' = narrow
          /\ IF LeavesOut(taken, slice)
             THEN /\ WriteBatch(Batch(narrow, {}, slice.uids))
                  /\ leftOut' = leftOut \cup {box[u].msg : u \in Answer(slice)}
             ELSE UNCHANGED <<store, leftOut>>
    /\ UNCHANGED <<server, refresh, kept, detached, faults>>

\* The session fails, answers NO or runs past the deadline before the
\* answer: the slice is fetched again by the next turn.
BatchFails ==
    /\ Turn /\ uidValidity = sync.validity /\ Waits(sync) /\ Fault
    /\ sync' = Put(Taken(sync), NextSlice(sync))
    /\ UNCHANGED <<server, store, refresh, kept, detached, leftOut>>

\* The deadline passes while the blocking thread writes the batch: the turn
\* ends without the slice and the write goes on by itself.
BatchCut ==
    /\ CutWrites /\ detached = {}
    /\ Turn /\ uidValidity = sync.validity
    /\ Waits(sync) /\ ~Breaks(NextSlice(sync)) /\ Fault
    /\ LET slice == NextSlice(sync)
       IN detached' = {Batch(Taken(sync), Answer(slice), slice.uids)}
    /\ sync' = Taken(sync)
    /\ UNCHANGED <<server, store, refresh, kept, leftOut>>

\* The failures pass FOLDER_FAILURE_BOUND, which lies above the budget.
GiveUp ==
    /\ Turn /\ Waits(sync) /\ sync.budget = 0 /\ Breaks(NextSlice(sync))
    /\ sync' = NoWalk
    /\ UNCHANGED <<server, store, refresh, kept, detached, faults, leftOut>>

\* The opening loses its session, or the store fails under the task.
TaskStops ==
    /\ sync # NoWalk /\ refresh = Idle /\ Fault
    /\ sync' = NoWalk
    /\ UNCHANGED <<server, store, refresh, kept, detached, leftOut>>

Task == \/ Open \/ List \/ ResumeStale \/ BatchWritten \/ BatchNarrowed
        \/ GiveUp

-----------------------------------------------------------------------------
(* The refresh of a finished folder, under the conversation's lock *)

\* The mailbox pass: STATUS read and its row written.  A folder whose first
\* sync is not done ends its refresh here.
Pass ==
    /\ refresh = Idle /\ sync.walk # "opening"
    /\ row' = uidValidity
    /\ IF row \notin {NULL, uidValidity}
       THEN Renumbered /\ UNCHANGED refresh
       ELSE /\ UNCHANGED <<rows, waiting, progress>>
            /\ refresh' = IF progress.done
                          THEN [Idle EXCEPT !.phase = "passed", !.facts = Counts,
                                            !.validity = uidValidity]
                          ELSE Idle
    /\ UNCHANGED <<server, slipped, sync, kept, detached, faults, leftOut>>

\* STATUS shows the folder as the cache last saw it, and no walk waits.
Unchanged == progress.synced = refresh.facts /\ kept = NoWalk

\* A folder that costs no command, or that EXAMINE finds renumbered.
Skip ==
    /\ refresh.phase = "passed"
    /\ Unchanged \/ uidValidity # refresh.validity
    /\ refresh' = Idle
    /\ UNCHANGED <<server, store, sync, kept, detached, faults, leftOut>>

\* EXAMINE, then the walk over the new mail: the one a failure cut short,
\* widened, or a fresh one above the recorded UIDNEXT.
Examine ==
    /\ refresh.phase = "passed"
    /\ ~Unchanged /\ uidValidity = refresh.validity
    /\ LET through == refresh.facts.uid_next - 1
           resumed == IF kept = NoWalk THEN NoWalk ELSE ExtendTo(kept, through)
           walk == IF resumed # NoWalk THEN resumed
                   ELSE Above(refresh.validity,
                              Larger(progress.synced.uid_next, 1), through)
       IN refresh' = [refresh EXCEPT !.phase = IF walk = NoWalk THEN "flags" ELSE "walk",
                                     !.base = progress.synced,
                                     !.modseq = highestModseq, !.walk = walk]
    /\ kept' = NoWalk
    /\ UNCHANGED <<server, store, sync, detached, faults, leftOut>>

\* One batch of the walk upward.  A folder that went stale under the walk
\* ends its refresh; a walk with nothing left goes on to the flags.
WalkWritten ==
    /\ refresh.phase = "walk"
    /\ LET walk == refresh.walk
           slice == NextSlice(walk)
           taken == Taken(walk)
           on == [refresh EXCEPT !.arrived = @ + Cardinality(Answer(slice)),
                    !.phase = IF Waits(taken) THEN "walk" ELSE "flags",
                    !.walk = IF Waits(taken) THEN taken ELSE NoWalk]
       IN IF Waits(walk)
          THEN /\ ~Breaks(slice)
               /\ WriteBatch(Batch(taken, Answer(slice), slice.uids))
               /\ refresh' = IF Pinned(walk.validity) THEN on ELSE Idle
          ELSE /\ refresh' = [refresh EXCEPT !.phase = "flags", !.walk = NoWalk]
               /\ UNCHANGED store
    /\ UNCHANGED <<server, sync, kept, detached, faults, leftOut>>

\* The answer breaks its bounds: the walk is narrowed and kept for the next
\* refresh, since the session does not stand.
WalkNarrowed ==
    /\ refresh.phase = "walk"
    /\ Waits(refresh.walk) /\ Breaks(NextSlice(refresh.walk))
    /\ LET slice == NextSlice(refresh.walk)
           taken == Taken(refresh.walk)
           narrow == Narrow(taken, slice)
       IN /\ kept' = narrow
          /\ IF LeavesOut(taken, slice)
             THEN /\ WriteBatch(Batch(narrow, {}, slice.uids))
                  /\ leftOut' = leftOut \cup {box[u].msg : u \in Answer(slice)}
             ELSE UNCHANGED <<store, leftOut>>
    /\ refresh' = Idle
    /\ UNCHANGED <<server, sync, detached, faults>>

\* The session fails during the walk, which the next refresh carries on.
WalkFails ==
    /\ refresh.phase = "walk" /\ Waits(refresh.walk) /\ Fault
    /\ kept' = Put(Taken(refresh.walk), NextSlice(refresh.walk))
    /\ refresh' = Idle
    /\ UNCHANGED <<server, store, sync, detached, leftOut>>

\* The deadline passes while a batch of the walk is written.
WalkCut ==
    /\ CutWrites /\ detached = {}
    /\ refresh.phase = "walk" /\ Waits(refresh.walk)
    /\ ~Breaks(NextSlice(refresh.walk)) /\ Fault
    /\ LET slice == NextSlice(refresh.walk)
       IN detached' = {Batch(Taken(refresh.walk), Answer(slice), slice.uids)}
    /\ refresh' = Idle
    /\ UNCHANGED <<server, store, sync, kept, leftOut>>

\* The flags changed since the recorded HIGHESTMODSEQ: a message that gained
\* \Deleted leaves, the others take their flags; a UID not held is skipped.
Flags ==
    /\ refresh.phase = "flags"
    /\ LET changed == {u \in Present \cap Held : box[u].mod > refresh.base.highest_modseq}
       IN rows' = [u \in Uids |->
                     IF u \notin changed THEN rows[u]
                     ELSE IF box[u].deleted THEN NoRow
                     ELSE [rows[u] EXCEPT !.mod = box[u].mod]]
    /\ refresh' = [refresh EXCEPT !.phase = "count"]
    /\ UNCHANGED <<server, row, waiting, progress, slipped, sync, kept, detached, faults, leftOut>>

\* Mutant: what the walk brought is not counted.
FellShortOfRecord == refresh.facts.messages < refresh.base.messages

\* MESSAGES of the pass fell short of the count on record, as it stood before
\* the walk, and what the walk was answered.
FellShort == refresh.facts.messages < refresh.base.messages + refresh.arrived

\* The stored UIDs the UID list lacks leave.
Count ==
    /\ refresh.phase = "count"
    /\ rows' = IF FellShort
               THEN [u \in Uids |-> IF u \in Present THEN rows[u] ELSE NoRow]
               ELSE rows
    /\ refresh' = [refresh EXCEPT !.phase = "advance"]
    /\ UNCHANGED <<server, row, waiting, progress, slipped, sync, kept, detached, faults, leftOut>>

\* Mutant: HIGHESTMODSEQ as the server has it at the end.
LearnedLate == [refresh.facts EXCEPT !.highest_modseq = highestModseq]

\* UIDNEXT and MESSAGES of the pass, HIGHESTMODSEQ of the EXAMINE.
Learned == [refresh.facts EXCEPT !.highest_modseq = refresh.modseq]

\* The folder now stands for these values.
Advanced ==
    /\ refresh.phase = "advance"
    /\ progress' = [progress EXCEPT !.synced = Learned]
    /\ refresh' = Idle
    /\ UNCHANGED <<server, row, rows, waiting, slipped, sync, kept, detached, faults, leftOut>>

\* The refresh ends where it stands: a lost session outside the walk, the
\* deadline, or a store error.
RefreshFails ==
    /\ refresh # Idle /\ Fault
    /\ refresh' = Idle
    /\ UNCHANGED <<server, store, sync, kept, detached, leftOut>>

Refresh == \/ Pass \/ Skip \/ Examine \/ WalkWritten \/ WalkNarrowed
           \/ Flags \/ Count \/ Advanced

-----------------------------------------------------------------------------
(* A write nobody awaits commits, or fails or dies unseen. *)

Commit ==
    \E b \in detached :
       /\ WriteBatch(b)
       /\ detached' = detached \ {b}
       /\ UNCHANGED <<server, sync, refresh, kept, faults, leftOut>>

Lose ==
    /\ detached # {}
    /\ detached' = {}
    /\ UNCHANGED <<server, store, sync, refresh, kept, faults, leftOut>>

\* The process restarts: the store stays, everything in memory goes.
Restart ==
    /\ <<sync, refresh, kept>> # <<NoWalk, Idle, NoWalk>>
    /\ Fault
    /\ sync' = NoWalk /\ refresh' = Idle /\ kept' = NoWalk /\ detached' = {}
    /\ UNCHANGED <<server, store, leftOut>>

Faulty == \/ BatchFails \/ BatchCut \/ TaskStops
          \/ WalkFails \/ WalkCut \/ RefreshFails
          \/ Commit \/ Lose \/ Restart

Next == Server \/ Task \/ Refresh \/ Faulty

Spec == Init /\ [][Next]_vars

\* The refresh runs to its end and comes again with the client's polls.  The
\* lock of the conversation queues in order, so a task that waits behind
\* refreshes gets its turn: strong fairness.
Fairness == WF_vars(Refresh) /\ SF_vars(Task)

FairSpec == Spec /\ Fairness

-----------------------------------------------------------------------------
(* Properties *)

Walks == [walk : {"none", "opening", "down", "up"}, validity : Int,
          remaining : SUBSET Uids, narrowed : Seq(Slices), budget : Nat,
          top : Nat, opened : Synced]
Refreshes == [phase : {"idle", "passed", "walk", "flags", "count", "advance"},
              facts : Synced, validity : Int, base : Synced, modseq : Int,
              walk : Walks, arrived : Nat]
Progress == [lowest : Int, done : BOOLEAN, synced : Synced]
Rows == [Uids -> [msg : Messages \cup {NoMessage}, mod : Nat]]
Batches == [validity : Int, emails : Rows,
            advance : [walk : {"none", "opening", "down", "up"}, lowest : Int,
                       done : BOOLEAN, synced : Synced, uid_next : NULL..(MaxUid + 1),
                       arrived : Nat]]

\* The types of the server's, the store's and the readers' state.
TypeOK ==
    /\ uidValidity \in Nat \ {0} /\ uidNext \in 1..(MaxUid + 1)
    /\ highestModseq \in Nat /\ born \in 0..MaxMessage
    /\ box \in [Uids -> [msg : Messages \cup {NoMessage}, mod : Nat, deleted : BOOLEAN]]
    /\ row \in Int /\ rows \in Rows /\ waiting \subseteq Messages
    /\ progress \in Progress
    /\ sync \in Walks /\ kept \in Walks
    /\ refresh \in Refreshes
    /\ detached \subseteq Batches
    /\ faults \in Nat
    /\ leftOut \subseteq Messages /\ marked \subseteq Messages /\ slipped \subseteq Messages

\* The cache reads the folder under the numbering the server uses.
Stands == row = uidValidity

\* The UIDs the progress on record says were asked for: those below the
\* recorded UIDNEXT, and while the first sync runs only from the lowest UID
\* it has passed.
Covered(u) ==
    /\ progress.synced.messages # NULL
    /\ u < progress.synced.uid_next
    /\ progress.done \/ (progress.lowest # NULL /\ progress.lowest <= u)

\* Every message of the server that the progress on record covers is held:
\* nothing the sync or the refresh claims to have passed is missing, but a
\* message it left out and one \Deleted at some time.  (store/refresh.rs:
\* "every UID below `uid_next` has been asked for".)
NothingSkipped ==
    Stands => \A u \in Present :
        Covered(u) => \/ rows[u].msg = box[u].msg
                      \/ box[u].msg \in leftOut \cup marked

\* A row never stands for another message than the server has under its UID,
\* across renumberings, kept walks and late writes alike.
RowsNameTheirMessage ==
    Stands => \A u \in Present \cap Held : rows[u].msg = box[u].msg

\* A held row whose flags the server last changed at or before the recorded
\* HIGHESTMODSEQ shows those flags, so CHANGEDSINCE misses no change.
FlagsStand ==
    (Stands /\ progress.synced.messages # NULL) =>
        \A u \in Present \cap Held :
            (u < progress.synced.uid_next /\ box[u].mod <= progress.synced.highest_modseq)
                => rows[u].mod = box[u].mod

\* Rows of messages the server has expunged, in a finished folder that no
\* refresh or late write is working on.
StaleRows ==
    IF Stands /\ progress.done /\ refresh = Idle /\ detached = {}
    THEN Held \ Present ELSE {}

\* The count on record lies above what the server has below the recorded
\* UIDNEXT, which makes a later refresh read the UID list.
Shortfall ==
    progress.synced.messages > Cardinality({u \in Present : u < progress.synced.uid_next})

\* While the cache holds a row the server expunged, the count on record is
\* short, whatever arrived, failed or was counted twice in between; but for
\* a row that slipped into the first sync behind its count and a folder
\* with a message left out, which the walk upward answers but never counts.
ExpungeShows ==
    (leftOut = {} /\ \E u \in StaleRows : rows[u].msg \notin slipped) => Shortfall

\* Only a message the server cannot describe even without its structure is
\* left out by the narrowing.
LeftOutForCause == leftOut \subseteq Undescribable

\* A message leaves the cache, and so loses its JMAP id, only when it left
\* the server or was \Deleted, or when a second renumbering came before
\* the fresh sync matched it.
RowsLeaveForCause ==
    [][\A m \in Cached \ Cached' :
          \/ m \notin OnServer
          \/ m \in marked
          \/ m \in waiting /\ row' # row
          \/ row' # row /\ Cardinality(Held) > REMATCH_LIMIT]_vars

\* The cache shows the folder as it is: a row for every message the server
\* has, with its flags, and no other row but those ExpungeShows excuses.
UpToDate ==
    /\ Stands /\ progress.done /\ waiting = {}
    /\ \A u \in Held \ Present : leftOut # {} \/ rows[u].msg \in slipped
    /\ \A u \in Present :
         IF u \in Held THEN rows[u] = [msg |-> box[u].msg, mod |-> box[u].mod]
                       ELSE box[u].msg \in leftOut \cup marked

\* Once the server is quiet and the faults are over, the cache comes to
\* show the folder as it is and keeps doing so, where no write was cut from
\* its turn and the folder kept its numbering.
Converges == [](detached = {} /\ uidValidity = 1) => <>[]UpToDate

=============================================================================
