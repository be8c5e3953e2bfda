------------------------------ MODULE BodyFill ------------------------------
(***************************************************************************)
(* The previews and bodies an Email/get asks for, fetched between two      *)
(* passes of its request.  Where the messages lie is read from the rows,   *)
(* the folders by a second read; then, under the lock of the conversation  *)
(* and its deadline, each message is fetched from the folder that still    *)
(* has the numbering the rows know it by: its structure, then its text in  *)
(* windows.  A message the server cannot describe ends the session, not    *)
(* the fill.                                                               *)
(*                                                                         *)
(* A UID is the numbering it was given under.  What the rows and the       *)
(* server come to meanwhile is the module FolderSync; here it is one       *)
(* renumbering, one pass, one sync at a time.  Sizes are in octets of the  *)
(* model, Window of them in a window.                                      *)
(***************************************************************************)
EXTENDS Integers, Sequences, FiniteSets, SequencesExt

CONSTANTS
  BODY_RECONNECTS,
  MAX_BODY_WINDOWS,
  MAX_BODY_VALUE_BYTES,
  PREVIEW_BATCH,
  Window                  \* BODY_WINDOW_BYTES

ASSUME BodyFillAssumption ==
  /\ BODY_RECONNECTS \in Nat /\ MAX_BODY_WINDOWS \in Nat
  /\ MAX_BODY_VALUE_BYTES \in Nat /\ PREVIEW_BATCH \in Nat /\ Window \in Nat \ {0}

VARIABLES
  mail,       \* the emails: folder, part, octets its server claims and holds
  numbering,  \* external: the numbering each folder has on the server
  there,      \* external: the messages still where they lay
  valid,      \* the numbering each folder's row knows
  rowed,      \* the emails with a row
  place,      \* the numbering of the UID a row has, none while it waits
  kept,       \* whose text the preview of each row is
  fill,       \* the fill of each request
  windows,    \* Carried.windows of each request
  crossed,    \* history: emails located before a pass, their folder after it
  faults      \* what may still go wrong

server == <<mail, numbering, there>>
rows   == <<valid, rowed, place>>
fills  == <<server, rows, kept, fill, windows, crossed>>

Owners  == {1, 2}
Folders == {1, 2}
None    == 0

Fault   == faults > 0 /\ faults' = faults - 1
NoFault == UNCHANGED faults

NoFill == [at |-> "idle", stage |-> "bodies", jobs |-> <<>>, rows |-> <<>>, sel |-> None,
           tries |-> 0, got |-> 0, own |-> TRUE, res |-> {}, failed |-> {}, cut |-> FALSE,
           all |-> {}]

Spots == {"idle", "locate", "rows", "wire", "connect", "fetch", "windows", "save", "end"}

FillTypeOK ==
  /\ \A r \in Owners :
       /\ fill[r].at \in Spots /\ fill[r].stage \in {"previews", "bodies"}
       /\ fill[r].sel \in {None} \cup Folders /\ fill[r].tries \in 0..(BODY_RECONNECTS + 1)
       /\ \A j \in Range(fill[r].jobs) \cup fill[r].failed : j.id \in DOMAIN mail
       /\ windows[r] \in 0..MAX_BODY_WINDOWS
  /\ rowed \cup there \cup crossed \subseteq DOMAIN mail
  /\ \A e \in DOMAIN mail :
       kept[e] \in {"none", "own", "other"} /\ place[e] <= valid[mail[e].folder]
  /\ \A f \in Folders : valid[f] <= numbering[f]

FolderOf(j) == mail[j.id].folder
Job(i, e) == [ask |-> i, id |-> e, uid |-> None]

FillAt(r, spot) == fill[r].at = spot
Foremost(r) == Head(fill[r].jobs)
Onward(r, spot) == [fill[r] EXCEPT !.at = spot]
Put(r, next) == fill' = [fill EXCEPT ![r] = next]

\* The lock on the conversation, from the first session to the last answer.
Holds(r) == fill[r].at \in {"connect", "fetch", "windows"}
Free == \A r \in Owners : ~Holds(r)

(***************************************************************************)
(* Where the messages lie.                                                 *)
(***************************************************************************)
\* A row that waits for its match after a renumbering names no UID; a
\* preview the row holds by now is not fetched again.
Located(r) ==
  LET placed(j) == /\ j.id \in rowed /\ place[j.id] # None
                   /\ fill[r].stage = "previews" => kept[j.id] = "none"
      uid(j) == [j EXCEPT !.uid = place[j.id]]
      found == SelectSeq(fill[r].jobs, placed)
  IN  [k \in DOMAIN found |-> uid(found[k])]

Locate(r) ==
  /\ FillAt(r, "locate")
  /\ Put(r, [Onward(r, "rows") EXCEPT !.jobs = Located(r), !.all = Range(Located(r))])
  /\ UNCHANGED <<server, rows, kept, windows, crossed, faults>>

\* The folder rows, by a read of their own.
ReadFolders(r) ==
  LET jobs == fill[r].jobs IN
  /\ FillAt(r, "rows")
  /\ Put(r, [Onward(r, IF jobs = <<>> THEN "end" ELSE "wire") EXCEPT !.rows = valid])
  /\ crossed' = crossed \cup {j.id : j \in {k \in Range(jobs) : k.uid # valid[FolderOf(k)]}}
  /\ UNCHANGED <<server, rows, kept, windows, faults>>

TakeWire(r) ==
  /\ FillAt(r, "wire") /\ Free
  /\ Put(r, Onward(r, "connect"))
  /\ UNCHANGED <<server, rows, kept, windows, crossed, faults>>

\* Wire::session: the one kept or a fresh one; without one the fill ends.
Connect(r) ==
  /\ FillAt(r, "connect")
  /\ \/ Put(r, [Onward(r, "fetch") EXCEPT !.tries = @ + 1, !.sel = None]) /\ NoFault
     \/ Put(r, [Onward(r, "end") EXCEPT !.cut = TRUE]) /\ Fault
  /\ UNCHANGED <<server, rows, kept, windows, crossed>>

(***************************************************************************)
(* One session over the jobs.                                              *)
(***************************************************************************)
\* A preview's ask covers every message of its folder and part.
Shared(j) == <<FolderOf(j), mail[j.id].part>>

\* The jobs the next command is about: the front one, or the first of the
\* groups in the order of folder and part.
Asked(r) ==
  LET jobs == Range(fill[r].jobs)
      first(j) == \A k \in jobs :
        \/ FolderOf(j) < FolderOf(k)
        \/ FolderOf(j) = FolderOf(k) /\ mail[j.id].part <= mail[k.id].part
  IN  IF fill[r].stage = "bodies" THEN {Foremost(r)} ELSE {j \in jobs : first(j)}

Folder(r) == FolderOf(CHOOSE j \in Asked(r) : TRUE)

\* The jobs asked about go, with what was found of them.
Without(r, found) ==
  [fill[r] EXCEPT
     !.at = "fetch",
     !.jobs = SelectSeq(@, LAMBDA j : j \notin Asked(r)),
     !.res = @ \cup found]

Skipped(r) == [Without(r, {}) EXCEPT !.failed = @ \cup Asked(r)]

\* Mutant: a session that ends takes the rest of the fill with it.
SessionLast(next) ==
  [next EXCEPT !.sel = None, !.at = IF next.stage = "previews" THEN "save" ELSE "end"]

\* The session is dropped; bodies go on with a fresh one while jobs and
\* reconnects are left, previews keep what they have.
SessionOver(next) ==
  [next EXCEPT !.sel = None,
     !.at = IF next.stage = "previews" THEN "save"
            ELSE IF next.jobs = <<>> \/ next.tries > BODY_RECONNECTS THEN "end"
            ELSE "connect"]

\* EXAMINE replaces the selected folder whatever it answers; a folder
\* numbered anew, or refused, costs the jobs asked about.
Examine(r) ==
  LET f == Folder(r)
      same == numbering[f] = fill[r].rows[f]
  IN  /\ FillAt(r, "fetch") /\ fill[r].jobs # <<>> /\ fill[r].sel # f
      /\ \/ same /\ Put(r, [fill[r] EXCEPT !.sel = f]) /\ NoFault
         \/ ~same /\ Put(r, [Skipped(r) EXCEPT !.sel = None]) /\ NoFault
         \/ Fault /\ Put(r, [Skipped(r) EXCEPT !.sel = None])
         \/ Fault /\ Put(r, SessionOver(fill[r]))
      /\ UNCHANGED <<server, rows, kept, windows, crossed>>

\* A UID of the folder's numbering finds its own message while it is there;
\* a UID of another one may find any message or none.
Own(j) == j.uid = numbering[FolderOf(j)]
Finds(j) == IF Own(j) THEN {j.id \in there} ELSE BOOLEAN

Result(j, is, own, whole, got) ==
  [ask |-> j.ask, id |-> j.id, is |-> is, own |-> own, whole |-> whole, got |-> got]

Gone(j) == Result(j, "gone", TRUE, FALSE, 0)

\* The structure or the header fields of the message at the front: read,
\* gone, more than the bridge reads, refused, or the session lost.
Structure(r) ==
  LET j == Foremost(r) IN
  /\ FillAt(r, "fetch") /\ fill[r].stage = "bodies" /\ fill[r].jobs # <<>>
  /\ fill[r].sel = FolderOf(j)
  /\ \/ /\ TRUE \in Finds(j) /\ NoFault
        /\ Put(r, [Onward(r, "windows") EXCEPT !.got = 0, !.own = Own(j)])
     \/ FALSE \in Finds(j) /\ NoFault /\ Put(r, Without(r, {Gone(j)}))
     \/ Fault /\ Put(r, SessionOver(Without(r, {Result(j, "bare", TRUE, FALSE, 0)})))
     \/ Fault /\ Put(r, Skipped(r))
     \/ Fault /\ Put(r, SessionOver(fill[r]))
  /\ UNCHANGED <<server, rows, kept, windows, crossed>>

Wanted(j) == Min({mail[j.id].claims, MAX_BODY_VALUE_BYTES})

ReadsOn(r) == fill[r].got < Wanted(Foremost(r)) /\ windows[r] > 0

\* A window that comes short ends the part, whatever size was claimed.
EndsShort(bytes, read) == read < bytes

\* One window of the text; its answer, the message gone, refused, not to be
\* read, or the session lost.
ReadWindow(r) ==
  LET j == Foremost(r)
      bytes == Min({Wanted(j) - fill[r].got, Window})
      read == Min({bytes, mail[j.id].holds - fill[r].got})
      got == fill[r].got + read
  IN  /\ FillAt(r, "windows") /\ ReadsOn(r)
      /\ windows' = [windows EXCEPT ![r] = @ - 1]
      /\ \/ /\ NoFault
            /\ fill[r].own => j.id \in there
            /\ IF EndsShort(bytes, read)
                 THEN Put(r, Without(r, {Result(j, "body", fill[r].own, TRUE, got)}))
                 ELSE Put(r, [fill[r] EXCEPT !.got = got])
         \/ /\ fill[r].own => j.id \notin there
            /\ NoFault /\ Put(r, Without(r, {Gone(j)}))
         \/ Fault /\ Put(r, Skipped(r))
         \/ Fault /\ Put(r, SessionOver(Skipped(r)))
         \/ Fault /\ Put(r, SessionOver(fill[r]))
      /\ UNCHANGED <<server, rows, kept, crossed>>

\* The value as far as its cap and the request's windows reach.
EndValue(r) ==
  LET j == Foremost(r) IN
  /\ FillAt(r, "windows") /\ ~ReadsOn(r)
  /\ Put(r, Without(r, {Result(j, "body", fill[r].own, fill[r].got >= mail[j.id].claims,
                               fill[r].got)}))
  /\ UNCHANGED <<server, rows, kept, windows, crossed, faults>>

\* One command for a group of previews; what comes is kept for the end, a
\* refusal costs the group.
FetchPreviews(r) ==
  LET found == {Result(j, "text", Own(j), TRUE, 0) : j \in {k \in Asked(r) : TRUE \in Finds(k)}} IN
  /\ FillAt(r, "fetch") /\ fill[r].stage = "previews" /\ fill[r].jobs # <<>>
  /\ fill[r].sel = Folder(r)
  /\ \/ NoFault /\ Put(r, Without(r, found))
     \/ Fault /\ Put(r, Skipped(r))
     \/ Fault /\ Put(r, SessionOver(fill[r]))
  /\ UNCHANGED <<server, rows, kept, windows, crossed>>

\* Nothing left to fetch: the session stands.
FetchEnds(r) ==
  /\ FillAt(r, "fetch") /\ fill[r].jobs = <<>>
  /\ Put(r, Onward(r, IF fill[r].stage = "previews" THEN "save" ELSE "end"))
  /\ UNCHANGED <<server, rows, kept, windows, crossed, faults>>

\* The deadline drops the session with what it was about to answer: bodies
\* keep what they have, previews nothing.
Deadline(r) ==
  /\ FillAt(r, "fetch") \/ FillAt(r, "windows")
  /\ Fault
  /\ Put(r, [Onward(r, "end") EXCEPT !.cut = TRUE,
               !.res = IF fill[r].stage = "previews" THEN {} ELSE @])
  /\ UNCHANGED <<server, rows, kept, windows, crossed>>

\* The previews in one write; a row that left in between is skipped.
SavePreviews(r) ==
  LET text(e) == {x \in fill[r].res : x.id = e} IN
  /\ FillAt(r, "save")
  /\ kept' = [e \in DOMAIN mail |->
       IF e \in rowed /\ text(e) # {}
       THEN IF \A x \in text(e) : x.own THEN "own" ELSE "other"
       ELSE kept[e]]
  /\ Put(r, Onward(r, "end"))
  /\ UNCHANGED <<server, rows, windows, crossed, faults>>

FillStep(r) ==
  \/ Locate(r) \/ ReadFolders(r) \/ TakeWire(r) \/ Connect(r) \/ Examine(r)
  \/ Structure(r) \/ ReadWindow(r) \/ EndValue(r) \/ FetchPreviews(r) \/ FetchEnds(r)
  \/ Deadline(r) \/ SavePreviews(r)

(***************************************************************************)
(* Beside the fill.                                                        *)
(***************************************************************************)
\* A folder made anew on the server; a session keeps the one it selected.
Renumber(f) ==
  /\ Fault
  /\ \A r \in Owners : ~(Holds(r) /\ fill[r].sel = f)
  /\ numbering' = [numbering EXCEPT ![f] = @ + 1]
  /\ UNCHANGED <<mail, there, rows, kept, fill, windows, crossed>>

\* A message moved or expunged by another client.
MessageLeaves(e) ==
  /\ Fault /\ e \in there
  /\ there' = there \ {e}
  /\ UNCHANGED <<mail, numbering, rows, kept, fill, windows, crossed>>

\* The mailbox pass finds a folder renumbered: its rows wait for a match.
PassRenumbers(f) ==
  /\ Free /\ valid[f] # numbering[f]
  /\ valid' = [valid EXCEPT ![f] = numbering[f]]
  /\ place' = [e \in DOMAIN mail |-> IF mail[e].folder = f THEN None ELSE place[e]]
  /\ UNCHANGED <<server, rowed, kept, fill, windows, crossed, faults>>

\* A sync of the folder: what is there has its UID, the row of what is not
\* leaves.
SyncRows(f) ==
  LET here == {e \in DOMAIN mail : mail[e].folder = f} IN
  /\ Free /\ valid[f] = numbering[f]
  /\ rowed' = rowed \ (here \ there)
  /\ place' = [e \in DOMAIN mail |-> IF e \in here \cap there THEN valid[f] ELSE place[e]]
  /\ <<rowed', place'>> # <<rowed, place>>
  /\ UNCHANGED <<server, valid, kept, fill, windows, crossed, faults>>

Beside ==
  \/ \E f \in Folders : Renumber(f) \/ PassRenumbers(f) \/ SyncRows(f)
  \/ \E e \in DOMAIN mail : MessageLeaves(e)

\* Everything before the first fill.
FillInit(emails) ==
  /\ mail = emails
  /\ numbering = [f \in Folders |-> 1] /\ valid = [f \in Folders |-> 1]
  /\ there = DOMAIN emails /\ rowed = DOMAIN emails
  /\ place = [e \in DOMAIN emails |-> 1]
  /\ fill = [r \in Owners |-> NoFill]
  /\ windows = [r \in Owners |-> MAX_BODY_WINDOWS]
  /\ crossed = {}

(***************************************************************************)
(* Properties.                                                             *)
(***************************************************************************)
\* What is answered and kept for an email is its own message's: gone only
\* where the message left, across every renumbering but the one that falls
\* between the two reads of the rows.
OwnMessage ==
  /\ \A r \in Owners : \A x \in fill[r].res : x.id \notin crossed =>
       IF x.is = "gone" THEN x.id \notin there ELSE x.own
  /\ \A e \in DOMAIN mail : kept[e] = "other" => e \in crossed

\* A value said to be whole is, as far as the server's sizes are true; one
\* that is not met its cap or the end of the windows.
WholeIsWhole ==
  \A r \in Owners : \A x \in fill[r].res : x.is = "body" =>
    LET m == mail[x.id] IN
    IF x.whole THEN x.got >= Min({m.claims, m.holds})
    ELSE windows[r] = 0 \/ m.claims > MAX_BODY_VALUE_BYTES

\* No message costs its neighbors their bodies: a job is left over only
\* where no session was to be had, the deadline came, or as many sessions
\* as the fill may open have ended; every other job was answered, or failed
\* by its own message or folder.
NeighborsSpared ==
  \A r \in Owners :
    LET g == fill[r]
        answered == {j \in g.all : \E x \in g.res : x.ask = j.ask /\ x.id = j.id}
    IN  FillAt(r, "end") /\ g.stage = "bodies" =>
          /\ g.jobs # <<>> => g.cut \/ g.tries > BODY_RECONNECTS
          /\ g.all = answered \cup g.failed \cup Range(g.jobs)
          /\ Cardinality(g.all) = Cardinality(answered) + Cardinality(g.failed) + Len(g.jobs)

\* The bodies and previews of a fill (jmap/bodies.rs, jmap/previews.rs).
BodiesStand == OwnMessage /\ WholeIsWhole /\ NeighborsSpared
=============================================================================
