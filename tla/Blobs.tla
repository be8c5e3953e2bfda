------------------------------- MODULE Blobs -------------------------------
(***************************************************************************)
(* The blobs of one account (RFC 8620 section 6): the uploads a client     *)
(* sends before a draft names them and the downloads it asks for.  An IMAP *)
(* account keeps uploads sealed in a directory of its own (the bridge's    *)
(* store); a JMAP account's uploads and downloads go through to its        *)
(* upstream.  The account is of one kind in every behaviour.               *)
(*                                                                         *)
(* A call of the store is a blocking task that its caller waits for under  *)
(* the account's lock.  A caller that goes away gives the lock back while  *)
(* its task runs on.  Forgetting the account removes the lock itself, so   *)
(* a call that waits on it and one that comes later hold different locks:  *)
(* a generation numbers them.                                              *)
(*                                                                         *)
(* Octets are counted in blocks, ages in ticks up to the TTL.              *)
(***************************************************************************)
EXTENDS Integers, FiniteSets, FiniteSetsExt

CONSTANTS
  Ids,                      \* uploads, by their id; each is one request
  Free,                     \* nobody holds a lock
  MAX_CONCURRENT_UPLOADS,
  MAX_ATTACHMENTS_BYTES,    \* Bounds.bytes, in blocks
  UPLOAD_QUOTA_BYTES,       \* Bounds.quota, in blocks
  MAX_UPLOADS_PER_ACCOUNT,  \* Bounds.count
  UPLOAD_TTL,               \* Bounds.ttl, in ticks
  FORWARD_CHUNKS, BLOB_BUFFER_WINDOWS,
  BODY_WINDOW_BYTES,
  BLOB_DOWNLOAD_LIMIT,
  Get, Mail, Unlink,        \* the requests that download an upload, the message,
                            \* that remove the account
  ImapAsks, JmapAsks,       \* bound of the model: the requests a behaviour makes
  MailSizes,                \* what the message on the server may weigh
  MaxFaults                 \* bound of the model: what fails, restarts or goes away

ASSUME BlobsAssumption ==
  /\ IsFiniteSet(Ids)
  /\ Free \notin Ids /\ {Get, Mail, Unlink} \cap Ids = {}
  /\ ImapAsks \cup JmapAsks \subseteq SUBSET (Ids \cup {Get, Mail, Unlink})
  /\ {MAX_CONCURRENT_UPLOADS, MAX_ATTACHMENTS_BYTES, UPLOAD_QUOTA_BYTES,
      MAX_UPLOADS_PER_ACCOUNT, UPLOAD_TTL, FORWARD_CHUNKS, BLOB_BUFFER_WINDOWS,
      BODY_WINDOW_BYTES} \subseteq Nat \ {0}
  /\ MailSizes \subseteq Nat \ {0} /\ BLOB_DOWNLOAD_LIMIT \in Nat /\ MaxFaults \in Nat

VARIABLES
  kind,      \* the account's kind
  asked,     \* the requests its clients make
  row,       \* the account's row stands
  disk,      \* the files of every upload
  gen, lock, \* Uploads.locks: the lock in the map, who holds each
  up,        \* every upload request
  removal,   \* how far the account's removal is
  forward,   \* a native account's upload on its way upstream
  down,      \* the download
  mail,      \* external: the message a download reads, on its server
  faults,
  blame      \* history: what broke a forwarded upload off

store  == <<disk, gen, lock, up>>
vars == <<kind, asked, row, store, removal, forward, down, mail, faults, blame>>

Absent == -1
Gens   == 0..1
NoFile == [part |-> Absent, bytes |-> Absent, side |-> "none", size |-> 0, age |-> 0, made |-> 0]

Files == [part : Absent..MAX_ATTACHMENTS_BYTES, bytes : Absent..MAX_ATTACHMENTS_BYTES,
          side : {"none", "torn", "whole"}, size : 0..MAX_ATTACHMENTS_BYTES,
          age : 0..UPLOAD_TTL, made : 0..UPLOAD_TTL]

Uploads == [pc : {"idle", "wait", "call", "writing", "discard", "send", "done", "failed", "gone"},
            call : {"begin", "append", "last", "complete"},
            at : {"none", "room", "write", "rename", "sidecar"},
            lock : Gens, index : 0..MAX_ATTACHMENTS_BYTES, removing : BOOLEAN, loose : BOOLEAN]

NoUpload == [pc |-> "idle", call |-> "begin", at |-> "none", lock |-> 0, index |-> 0,
             removing |-> FALSE, loose |-> FALSE]

NoDownload == [pc |-> "idle", blob |-> Mail, size |-> 0, read |-> 0, queued |-> 0,
               close |-> "open", got |-> 0, cut |-> Absent, linked |-> FALSE]

NoForward == [pump |-> "run", queued |-> 0, failed |-> FALSE, cut |-> FALSE, sent |-> "no"]

(* Uploads of one block an earlier request left, of any age.               *)
StoredBefore(before) ==
  /\ Cardinality(before) <= Min({UPLOAD_QUOTA_BYTES, MAX_UPLOADS_PER_ACCOUNT})
  /\ up = [id \in Ids |-> IF id \in before
                          THEN [NoUpload EXCEPT !.pc = "done", !.call = "complete", !.index = 1]
                          ELSE NoUpload]
  /\ \E age \in [before -> 0..UPLOAD_TTL] :
       disk = [id \in Ids |-> IF id \in before
                             THEN [NoFile EXCEPT !.bytes = 1, !.side = "whole", !.size = 1,
                                                 !.age = age[id], !.made = age[id]]
                             ELSE NoFile]

Init ==
  /\ \/ kind = "imap" /\ asked \in ImapAsks
     \/ kind = "jmap" /\ asked \in JmapAsks
  /\ row = TRUE
  /\ \E before \in SUBSET (IF kind = "imap" THEN Ids \ asked ELSE {}) : StoredBefore(before)
  /\ gen = 0 /\ lock = [g \in Gens |-> Free]
  /\ removal = "no"
  /\ forward = [id \in Ids |-> NoForward]
  /\ down = NoDownload
  /\ mail \in [size : MailSizes, there : {TRUE}]
  /\ faults = 0
  /\ blame = [id \in Ids |-> "none"]

-----------------------------------------------------------------------------
(* What an account's directory holds and what leaves it.                   *)

Stands(f) == f.part # Absent \/ f.bytes # Absent \/ f.side # "none"

(* The part file gone; the files that are left.                            *)
WithoutPart(f) == IF f.bytes = Absent /\ f.side = "none" THEN NoFile ELSE [f EXCEPT !.part = Absent]

Octets(n) == IF n = Absent THEN 0 ELSE n

Listed(d)   == {id \in Ids : d[id].bytes # Absent}
InFlight(d) == {id \in Ids : d[id].part # Absent}
Used(d)     == MapThenSumSet(LAMBDA id : Octets(d[id].part) + Octets(d[id].bytes), Ids)

(* Mutant: the newest is evicted first, the list popped from its other end. *)
NewestFirst(d, out, in) == d[in].side = "whole" /\ d[out].made <= d[in].made

(* Whether an upload leaves ahead of another: one without its sidecar      *)
(* first, then by age; ids are random, so between equals either goes.      *)
Oldest(d, out, in) ==
  \/ d[out].side # "whole"
  \/ d[in].side = "whole" /\ d[in].made <= d[out].made

OldestFirst(d, S) == \A out \in S, in \in Listed(d) \ S : Oldest(d, out, in)

Removed(d, S) == [id \in Ids |-> IF id \in S THEN [NoFile EXCEPT !.part = d[id].part] ELSE d[id]]

(* Mutant: the parts in flight count towards neither bound.                *)
CrowdedByDone(d, S, more, blocks) ==
  \/ Cardinality(Listed(d) \ S) + more > MAX_UPLOADS_PER_ACCOUNT
  \/ MapThenSumSet(LAMBDA id : Octets(d[id].bytes), Listed(d) \ S) + blocks > UPLOAD_QUOTA_BYTES

Crowded(d, S, more, blocks) ==
  \/ Cardinality(Listed(d) \ S) + Cardinality(InFlight(d)) + more > MAX_UPLOADS_PER_ACCOUNT
  \/ Used(Removed(d, S)) + blocks > UPLOAD_QUOTA_BYTES

(* What is evicted: no more than it takes, everything where nothing does.  *)
Evicted(d, more, blocks) ==
  {S \in SUBSET Listed(d) :
     /\ OldestFirst(d, S)
     /\ \A T \in SUBSET S : T # S /\ OldestFirst(d, T) => Crowded(d, T, more, blocks)
     /\ Crowded(d, S, more, blocks) => S = Listed(d)}

Stale(f) == f.age >= UPLOAD_TTL
Lives(f) == f.made < UPLOAD_TTL

(* Mutant: the sweep asks the sidecar alone, so bytes without one stay.    *)
SweptBySidecar(f) ==
  LET kept == IF f.part # Absent /\ Stale(f) THEN WithoutPart(f) ELSE f
  IN  IF kept.side = "whole" /\ ~Lives(kept) THEN [NoFile EXCEPT !.part = kept.part] ELSE kept

(* What the sweep leaves of an upload's files.                             *)
SweptFile(f) ==
  LET kept == IF f.part # Absent /\ Stale(f) THEN WithoutPart(f) ELSE f
      gone == IF kept.side = "whole" THEN ~Lives(kept) ELSE Stale(kept)
  IN  IF (kept.bytes # Absent \/ kept.side # "none") /\ gone
      THEN [NoFile EXCEPT !.part = kept.part] ELSE kept

-----------------------------------------------------------------------------
(* One upload of an IMAP account, from its lane to its sidecar.            *)

Active(id) == up[id].pc \notin {"idle", "done", "failed", "gone"}

others == <<kind, asked, row, removal, forward, down, mail, blame>>

(* A place in the account's upload lane, while the row runs.               *)
Upload(id) ==
  /\ id \in asked /\ row /\ up[id].pc = "idle"
  /\ Cardinality({i \in Ids : Active(i)}) < MAX_CONCURRENT_UPLOADS
  /\ up' = [up EXCEPT ![id] = [@ EXCEPT !.pc = IF kind = "imap" THEN "wait" ELSE "send",
                                        !.lock = gen]]
  /\ UNCHANGED <<others, disk, gen, lock, faults>>

(* The call's turn on the account's lock; its task is queued.              *)
TakeLock(id) ==
  /\ up[id].pc = "wait" /\ lock[up[id].lock] = Free
  /\ lock' = [lock EXCEPT ![up[id].lock] = id]
  /\ up' = [up EXCEPT ![id] = [@ EXCEPT !.pc = "call",
                                        !.at = IF up[id].call = "complete"
                                               THEN "rename" ELSE "room"]]
  /\ UNCHANGED <<others, disk, gen, faults>>

(* The upload after its call answered, where its caller still waits.       *)
Answered(u, ok) ==
  LET back == [u EXCEPT !.at = "none", !.lock = 0]
  IN  IF u.pc # "call" THEN [u EXCEPT !.at = "none"]
      ELSE IF ~ok
           THEN IF u.call = "begin" THEN [back EXCEPT !.pc = "failed"]
                ELSE [back EXCEPT !.pc = "discard", !.removing = TRUE]
      ELSE CASE u.call = "begin"    -> [back EXCEPT !.pc = "writing", !.call = "append"]
             [] u.call = "append"   -> [back EXCEPT !.pc = "writing", !.index = @ + 1]
             [] u.call = "last"     -> [back EXCEPT !.pc = "wait", !.index = @ + 1,
                                                    !.call = "complete", !.lock = gen]
             [] u.call = "complete" -> [back EXCEPT !.pc = "done"]

(* A task ends: its caller takes the answer and gives the lock back.       *)
Returns(id, ok) ==
  /\ up' = [up EXCEPT ![id] = Answered(@, ok)]
  /\ lock' = [g \in Gens |-> IF lock[g] = id THEN Free ELSE lock[g]]

(* The listing and the room made by it: one more upload to begin, one more *)
(* block to append.  A call that finds no room has evicted all it could.   *)
MakeRoom(id) ==
  LET more   == IF up[id].call = "begin" THEN 1 ELSE 0
      blocks == 1 - more
  IN  /\ up[id].at = "room"
      /\ \E S \in Evicted(disk, more, blocks) :
           /\ disk' = Removed(disk, S)
           /\ IF Crowded(disk, S, more, blocks)
              THEN Returns(id, FALSE)
              ELSE up' = [up EXCEPT ![id].at = "write"] /\ UNCHANGED lock
      /\ UNCHANGED <<others, gen, faults>>

(* What a write of the call leaves of the part file.                       *)
Begun(f)    == [f EXCEPT !.part = 0, !.age = 0]
Appended(f) == [f EXCEPT !.part = @ + 1, !.age = 0]

(* The part file begun, or the block appended to it; the body's end stamps *)
(* the upload.  A part file that left meanwhile fails the append.          *)
WriteFile(id) ==
  LET begins == up[id].call = "begin"
      fits   == begins \/ disk[id].part # Absent
      file   == IF begins THEN Begun(disk[id]) ELSE Appended(disk[id])
      ends   == up[id].call = "last" /\ up[id].pc = "call"
  IN  /\ up[id].at = "write"
      /\ Returns(id, fits)
      /\ disk' = IF fits
                 THEN [disk EXCEPT ![id] = IF ends
                                           THEN [file EXCEPT !.size = up[id].index + 1, !.made = 0]
                                           ELSE file]
                 ELSE disk
      /\ UNCHANGED <<others, gen, faults>>

(* complete: the part file renamed into place, where it still stands.      *)
RenamePart(id) ==
  /\ up[id].at = "rename"
  /\ IF disk[id].part = Absent
     THEN Returns(id, FALSE) /\ UNCHANGED disk
     ELSE /\ disk' = [disk EXCEPT ![id] = [@ EXCEPT !.bytes = disk[id].part, !.part = Absent]]
          /\ up' = [up EXCEPT ![id].at = "sidecar"]
          /\ UNCHANGED lock
  /\ UNCHANGED <<others, gen, faults>>

(* Then its sidecar beside it; the upload can be opened from here on.  A   *)
(* task without its lock may find the bytes swept or forgotten meanwhile.  *)
WriteSidecar(id) ==
  /\ up[id].at = "sidecar"
  /\ IF disk[id].bytes # Absent
     THEN disk' = [disk EXCEPT ![id].side = "whole"]
     ELSE \E made \in 0..UPLOAD_TTL :
            disk' = [disk EXCEPT ![id] = [@ EXCEPT !.side = "whole", !.size = up[id].index,
                                                   !.made = made]]
  /\ Returns(id, TRUE)
  /\ UNCHANGED <<others, gen, faults>>

(* A file call fails: a block may be torn, which nobody reads; a sidecar   *)
(* that does not write takes the bytes with it.                            *)
CallFails(id) ==
  /\ faults < MaxFaults /\ faults' = faults + 1
  /\ up[id].at # "none"
  /\ IF up[id].at = "sidecar"
     THEN \E side \in {"none", "torn"} :
            disk' = [disk EXCEPT ![id] = IF side = "none" THEN NoFile
                                         ELSE [NoFile EXCEPT !.side = "torn"]]
     ELSE UNCHANGED disk
  /\ Returns(id, FALSE)
  /\ UNCHANGED <<others, gen>>

(* The next block of the body starts, so the one in hand goes out.         *)
Push(id) ==
  /\ up[id].pc = "writing" /\ up[id].index + 1 < MAX_ATTACHMENTS_BYTES
  /\ up' = [up EXCEPT ![id] = [@ EXCEPT !.pc = "wait", !.call = "append", !.lock = gen]]
  /\ UNCHANGED <<others, disk, gen, lock, faults>>

(* The body ends: the block in hand is the last.                           *)
Finish(id) ==
  /\ up[id].pc = "writing"
  /\ up' = [up EXCEPT ![id] = [@ EXCEPT !.pc = "wait", !.call = "last", !.lock = gen]]
  /\ UNCHANGED <<others, disk, gen, lock, faults>>

(* The body stalls, breaks off or runs past the bound: nothing is kept.    *)
Abandon(id) ==
  /\ up[id].pc = "writing"
  /\ up' = [up EXCEPT ![id] = [@ EXCEPT !.pc = "discard", !.removing = TRUE]]
  /\ UNCHANGED <<others, disk, gen, lock, faults>>

(* The request is dropped where it waits, its client gone: the lock is     *)
(* given back, the writing's own Drop queues the removal of its part file, *)
(* a task in hand runs on.                                                 *)
Drop(id) ==
  /\ kind = "imap" /\ faults < MaxFaults /\ faults' = faults + 1
  /\ Active(id)
  /\ up' = [up EXCEPT ![id] = [@ EXCEPT !.pc = "gone",
                                        !.removing = up[id].removing \/ up[id].call # "begin",
                                        !.loose = up[id].loose \/ up[id].at # "none"]]
  /\ lock' = [g \in Gens |-> IF lock[g] = id THEN Free ELSE lock[g]]
  /\ UNCHANGED <<others, disk, gen>>

(* The removal a discard or a drop queued; it takes no lock.               *)
Discard(id) ==
  /\ up[id].removing
  /\ disk' = [disk EXCEPT ![id] = WithoutPart(@)]
  /\ up' = [up EXCEPT ![id] = [@ EXCEPT !.removing = FALSE,
                                        !.pc = IF up[id].pc = "discard" THEN "failed"
                                               ELSE up[id].pc]]
  /\ UNCHANGED <<others, gen, lock, faults>>

-----------------------------------------------------------------------------
(* The sweep, the removal of the account, time and the process's end.      *)

rest == <<kind, asked, forward, mail, blame>>

(* The periodic sweep of the account's directory under its lock, the one   *)
(* in the map or one it asked for before the account was forgotten.  A     *)
(* file that leaves under the sweep ends it early, the next one comes back *)
(* to the rest.                                                            *)
Sweep ==
  /\ \E g \in 0..gen : lock[g] = Free
  /\ \E id \in Ids : Stands(disk[id])
  /\ \/ disk' = [id \in Ids |-> SweptFile(disk[id])] /\ UNCHANGED faults
     \/ /\ faults < MaxFaults /\ faults' = faults + 1
        /\ \E S \in SUBSET Ids :
             disk' = [id \in Ids |-> IF id \in S THEN SweptFile(disk[id]) ELSE disk[id]]
  /\ disk' # disk
  /\ UNCHANGED <<rest, row, removal, down, gen, lock, up>>

(* remove_account: the bridge lets the account go, so a stream that reads  *)
(* its server has no conversation left.                                    *)
RemoveAccount ==
  /\ Unlink \in asked /\ row /\ removal = "no"
  /\ removal' = "forget"
  /\ down' = [down EXCEPT !.linked = FALSE]
  /\ UNCHANGED <<rest, row, store, faults>>

(* Its uploads leave under the lock, then the lock leaves the map.         *)
ForgetUploads ==
  /\ removal = "forget" /\ lock[gen] = Free
  /\ disk' = [id \in Ids |-> NoFile]
  /\ gen' = 1
  /\ removal' = "rows"
  /\ up' = [id \in Ids |-> IF up[id].pc = "wait" THEN [up[id] EXCEPT !.loose = TRUE] ELSE up[id]]
  /\ UNCHANGED <<rest, row, down, lock, faults>>

(* The rows leave, and what the host remembers of the account.             *)
RemoveRows ==
  /\ removal = "rows"
  /\ row' = FALSE /\ removal' = "gone"
  /\ UNCHANGED <<rest, down, store, faults>>

(* Time passes for every file and every upload that carries its stamp.     *)
Tick ==
  LET older(n) == IF n < UPLOAD_TTL THEN n + 1 ELSE n
  IN  /\ \E id \in Ids : Stands(disk[id])
      /\ disk' = [id \in Ids |->
                    IF ~Stands(disk[id]) THEN disk[id]
                    ELSE [disk[id] EXCEPT !.age = older(disk[id].age),
                                          !.made = IF disk[id].size = 0 THEN disk[id].made
                                                   ELSE older(disk[id].made)]]
      /\ disk' # disk
      /\ UNCHANGED <<rest, row, removal, down, gen, lock, up, faults>>

(* The process ends and starts again: what was on disk is what is left.  A *)
(* sidecar on its way may be torn.                                         *)
Restart ==
  /\ kind = "imap" /\ faults < MaxFaults /\ faults' = faults + 1
  /\ \E torn \in SUBSET {id \in Ids : up[id].at = "sidecar"} :
       disk' = [id \in Ids |-> IF id \in torn THEN [disk[id] EXCEPT !.side = "torn"] ELSE disk[id]]
  /\ gen' = 0 /\ lock' = [g \in Gens |-> Free]
  /\ up' = [id \in Ids |-> IF Active(id) \/ up[id].at # "none" \/ up[id].removing
                           THEN [up[id] EXCEPT !.pc = IF Active(id) THEN "gone" ELSE up[id].pc,
                                               !.at = "none", !.lock = 0, !.removing = FALSE]
                           ELSE up[id]]
  /\ removal' = IF row THEN "no" ELSE removal
  /\ down' = IF down.pc \in {"file", "first", "flow"} THEN [NoDownload EXCEPT !.pc = "broken"] ELSE down
  /\ UNCHANGED <<kind, asked, row, forward, mail, blame>>

-----------------------------------------------------------------------------
(* A native account's upload: the client's body pumped to the upstream.    *)

handed == <<kind, asked, row, removal, down, mail, disk, gen, lock, faults>>

Pumping(id) == kind = "jmap" /\ up[id].pc = "send"

(* The next chunk is handed on while the channel has room, or the body     *)
(* ends.                                                                   *)
Pump(id) ==
  /\ Pumping(id) /\ forward[id].pump = "run"
  /\ \/ /\ forward[id].queued < FORWARD_CHUNKS
        /\ up[id].index < MAX_ATTACHMENTS_BYTES
        /\ forward' = [forward EXCEPT ![id].queued = @ + 1]
        /\ up' = [up EXCEPT ![id].index = @ + 1]
     \/ /\ forward' = [forward EXCEPT ![id].pump = "over"]
        /\ UNCHANGED up
  /\ UNCHANGED <<handed, blame>>

(* The body stops short: the cause is kept first.                          *)
PumpCut(id) ==
  /\ Pumping(id) /\ forward[id].pump = "run"
  /\ forward' = [forward EXCEPT ![id] = [@ EXCEPT !.pump = "cut", !.cut = TRUE]]
  /\ UNCHANGED <<handed, up, blame>>

(* Then the forwarded body fails with it.                                  *)
PumpFails(id) ==
  /\ Pumping(id) /\ forward[id].pump = "cut"
  /\ forward[id].queued < FORWARD_CHUNKS
  /\ forward' = [forward EXCEPT ![id] = [@ EXCEPT !.pump = "over", !.failed = TRUE]]
  /\ UNCHANGED <<handed, up, blame>>

(* The upstream reads the body.                                            *)
ReadChunk(id) ==
  /\ Pumping(id) /\ forward[id].queued > 0 /\ forward[id].sent = "no"
  /\ forward' = [forward EXCEPT ![id].queued = @ - 1]
  /\ UNCHANGED <<handed, up, blame>>

(* How the request ends: an answer, early or after the whole body, a       *)
(* connection that fails, or the body failing under it.                    *)
Upstream(id) ==
  /\ Pumping(id) /\ forward[id].sent = "no"
  /\ \/ \E answer \in {"unauthorized", "too large", "too many", "server error", "unreachable"} :
          /\ forward' = [forward EXCEPT ![id].sent = answer]
          /\ blame' = [blame EXCEPT ![id] = "upstream"]
     \/ /\ forward[id].pump = "over" /\ forward[id].queued = 0 /\ ~forward[id].failed
        /\ forward' = [forward EXCEPT ![id].sent = "created"]
        /\ blame' = [blame EXCEPT ![id] = "upstream"]
     \/ /\ forward[id].failed /\ forward[id].queued = 0
        /\ forward' = [forward EXCEPT ![id].sent = "unreachable"]
        /\ blame' = [blame EXCEPT ![id] = "client"]
  /\ UNCHANGED <<handed, up>>

(* The rule a failure falls under; a cut body says nothing of the account. *)
Fault(f) ==
  CASE f.cut                                         -> "undecided"
    [] ~f.cut /\ f.sent = "unauthorized"             -> "credentials"
    [] ~f.cut /\ f.sent \in {"too large", "too many", "server error"} -> "undecided"
    [] ~f.cut /\ f.sent = "unreachable"              -> "connection"
    [] ~f.cut /\ f.sent \in {"no", "created"}         -> "none"

(* The pump is stopped, the answer judged, the gate told.                  *)
Judged(id) ==
  /\ Pumping(id) /\ forward[id].sent # "no"
  /\ forward' = [forward EXCEPT ![id].pump = "over"]
  /\ up' = [up EXCEPT ![id].pc = IF Fault(forward[id]) = "none" THEN "done" ELSE "failed"]
  /\ UNCHANGED <<handed, blame>>

-----------------------------------------------------------------------------
(* The download: a blob on its way to the browser.                         *)

apart == <<kind, asked, row, removal, forward, mail, faults, blame, store>>

Ends(step) ==
  down' = IF step = "whole" THEN [down EXCEPT !.pc = step] ELSE [NoDownload EXCEPT !.pc = step]

(* A range from byte zero cuts a blob whose length is declared and runs    *)
(* past it.                                                                *)
RangeCut(declared, end) == IF declared # Absent /\ end # Absent /\ declared > end + 1
                           THEN end + 1 ELSE Absent

(* Whether the sidecar names a living upload; whether the message has its  *)
(* row and its place; the length a native upstream declares.               *)
Opened(id)     == disk[id].side = "whole" /\ Lives(disk[id])
Placed         == mail.there
Declared(size) == IF kind = "jmap" THEN size ELSE Absent

(* The route: an upload or the message of an IMAP account, the message of  *)
(* a native one, whose upstream declares its length.  The sidecar is read  *)
(* first; a blob past the limit is refused before a byte is read.          *)
Download(blob, end) ==
  /\ row /\ down.pc = "idle"
  /\ IF blob \in Ids THEN kind = "imap" /\ Get \in asked ELSE Mail \in asked
  /\ LET upload == blob \in Ids
         there  == IF upload THEN Opened(blob) ELSE Placed
         size   == IF upload THEN disk[blob].size ELSE mail.size
     IN  IF ~there \/ size > BLOB_DOWNLOAD_LIMIT THEN Ends("refused")
         ELSE down' = [down EXCEPT !.pc = IF upload THEN "file" ELSE "first",
                                   !.blob = blob, !.size = size, !.linked = TRUE,
                                   !.cut = RangeCut(Declared(size), end)]
  /\ UNCHANGED apart

(* The upload's file opened behind its sidecar; it may have left.  An open *)
(* file keeps its blocks whatever happens to its name.                     *)
OpenFile ==
  /\ down.pc = "file"
  /\ IF disk[down.blob].bytes # down.size THEN Ends("refused")
     ELSE down' = [down EXCEPT !.pc = "flow", !.read = 1, !.queued = 1,
                               !.close = IF down.size = 1 THEN "end" ELSE "open"]
  /\ UNCHANGED apart

(* One window of the message: how much of it comes and whether it is the   *)
(* last, which a full one never is.                                        *)
Window(size, offset) == Min({BODY_WINDOW_BYTES, size - offset})

(* Mutant: a full window is taken for the last.                            *)
LastWindowFull(size, offset) == Window(size, offset) <= BODY_WINDOW_BYTES

LastWindow(size, offset) == Window(size, offset) < BODY_WINDOW_BYTES

(* A turn of the conversation: the folder examined, the message under its  *)
(* UID, the account still there.                                           *)
Examined == mail.there /\ down.linked

(* The first window, read on a turn of the conversation.                   *)
FirstWindow ==
  /\ down.pc = "first" /\ kind = "imap"
  /\ IF Examined
     THEN down' = [down EXCEPT !.pc = "flow", !.read = Window(mail.size, 0),
                               !.queued = Window(mail.size, 0),
                               !.close = IF LastWindow(mail.size, 0) THEN "end" ELSE "open"]
     ELSE Ends("refused")
  /\ UNCHANGED apart

(* The rest read ahead of the browser: the next block of the open file.    *)
NextBlock ==
  /\ down.pc = "flow" /\ down.close = "open" /\ down.blob \in Ids
  /\ down.queued < BLOB_BUFFER_WINDOWS
  /\ down' = [down EXCEPT !.read = @ + 1, !.queued = @ + 1,
                          !.close = IF down.read + 1 = down.size THEN "end" ELSE "open"]
  /\ UNCHANGED apart

(* The next window, on a turn of its own: the folder examined afresh, the  *)
(* message still under its UID, the account still there.                   *)
NextWindow ==
  /\ down.pc = "flow" /\ down.close = "open" /\ down.blob \notin Ids /\ kind = "imap"
  /\ down.queued < BLOB_BUFFER_WINDOWS * BODY_WINDOW_BYTES
  /\ down' = IF Examined
             THEN LET n == Window(mail.size, down.read)
                  IN  [down EXCEPT !.read = @ + n, !.queued = @ + n,
                                   !.close = IF LastWindow(mail.size, down.read)
                                             THEN "end" ELSE "open"]
             ELSE [down EXCEPT !.close = "error"]
  /\ UNCHANGED apart

(* The upstream of a native account answers, chunk by chunk; where its     *)
(* connection ends short of the declared length the read fails.            *)
UpstreamChunk ==
  /\ kind = "jmap" /\ down.pc \in {"first", "flow"} /\ down.close = "open" /\ down.queued = 0
  /\ \/ down' = [down EXCEPT !.pc = "flow", !.read = @ + 1, !.queued = @ + 1,
                             !.close = IF down.read + 1 = down.size THEN "end" ELSE "open"]
     \/ IF down.pc = "first" THEN Ends("refused") ELSE down' = [down EXCEPT !.close = "error"]
  /\ UNCHANGED apart

(* One step of the body: cut where the range ends, broken off past the     *)
(* limit and on an error, ended with the closing step.                     *)
Flow ==
  /\ down.pc = "flow"
  /\ IF down.cut # Absent /\ down.got >= down.cut THEN Ends("whole")
     ELSE IF down.queued > 0
          THEN IF down.cut = Absent /\ down.got + 1 > BLOB_DOWNLOAD_LIMIT THEN Ends("broken")
               ELSE down' = [down EXCEPT !.queued = @ - 1, !.got = @ + 1]
     ELSE /\ down.close # "open"
          /\ Ends(IF down.close = "end" THEN "whole" ELSE "broken")
  /\ UNCHANGED apart

(* A chunk that does not come within its patience breaks the body off; the *)
(* browser may leave at any time.  Either gives the lane back.             *)
Stalls ==
  /\ down.pc \in {"first", "flow"}
  /\ \/ down.queued = 0 /\ Ends(IF down.pc = "first" THEN "refused" ELSE "broken")
     \/ Ends("left")
  /\ UNCHANGED apart

(* External: another client moves or expunges the message, or its folder   *)
(* is numbered anew.                                                       *)
MailLeaves ==
  /\ mail.there /\ down.pc \in {"first", "flow"} /\ down.blob = Mail
  /\ mail' = [mail EXCEPT !.there = FALSE]
  /\ UNCHANGED <<kind, asked, row, removal, forward, down, faults, blame, store>>

-----------------------------------------------------------------------------
Stored(id) ==
  \/ Upload(id) \/ TakeLock(id) \/ MakeRoom(id) \/ WriteFile(id) \/ RenamePart(id)
  \/ WriteSidecar(id) \/ CallFails(id) \/ Push(id) \/ Finish(id) \/ Abandon(id)
  \/ Drop(id) \/ Discard(id)

Forwarded(id) ==
  \/ Pump(id) \/ PumpCut(id) \/ PumpFails(id) \/ ReadChunk(id) \/ Upstream(id) \/ Judged(id)

Downloading ==
  \/ \E blob \in Ids \cup {Mail}, end \in {Absent, 0} : Download(blob, end)
  \/ OpenFile \/ FirstWindow \/ NextBlock \/ NextWindow \/ UpstreamChunk \/ Flow \/ Stalls

Next ==
  \/ \E id \in Ids : Stored(id) \/ Forwarded(id)
  \/ Sweep \/ RemoveAccount \/ ForgetUploads \/ RemoveRows
  \/ Tick \/ Restart \/ Downloading \/ MailLeaves

(* The mutex is first come, first served; tasks run; a body ends, stalls   *)
(* out or is cut within its time; the sweep and time come round.           *)
Fairness ==
  /\ WF_vars(Tick) /\ SF_vars(Sweep)
  /\ \A id \in Ids :
       /\ SF_vars(TakeLock(id))
       /\ WF_vars(MakeRoom(id)) /\ WF_vars(WriteFile(id))
       /\ WF_vars(RenamePart(id)) /\ WF_vars(WriteSidecar(id))
       /\ WF_vars(Push(id) \/ Finish(id) \/ Abandon(id)) /\ WF_vars(Discard(id))
       /\ WF_vars(Upstream(id)) /\ WF_vars(Judged(id))

Spec == Init /\ [][Next]_vars /\ Fairness

-----------------------------------------------------------------------------
(* What every variable may hold: no upload past its bound, no channel past *)
(* its capacity, no age past the TTL.                                      *)
TypeOK ==
  /\ kind \in {"imap", "jmap"} /\ row \in BOOLEAN
  /\ disk \in [Ids -> Files]
  /\ gen \in Gens /\ lock \in [Gens -> Ids \cup {Free}]
  /\ up \in [Ids -> Uploads]
  /\ removal \in {"no", "forget", "rows", "gone"}
  /\ forward \in [Ids -> [pump : {"run", "cut", "over"}, queued : 0..FORWARD_CHUNKS,
                          failed : BOOLEAN, cut : BOOLEAN,
                          sent : {"no", "created", "unauthorized", "too large", "too many",
                                  "server error", "unreachable"}]]
  /\ down \in [pc : {"idle", "file", "first", "flow", "whole", "broken", "refused", "left"},
              blob : Ids \cup {Mail}, size : Nat, read : Nat, queued : Nat,
              close : {"open", "end", "error"}, got : Nat, cut : Nat \cup {Absent}, linked : BOOLEAN]
  /\ mail \in [size : MailSizes, there : BOOLEAN]
  /\ faults \in 0..MaxFaults
  /\ blame \in [Ids -> {"none", "upstream", "client"}]

(* Uploads that ran a call beside another one of the account: the caller   *)
(* went away while the task ran, or its lock was removed from the map.     *)
Loose == {id \in Ids : up[id].loose}

(* The account's uploads stay within their quota and their count, in       *)
(* flight ones included, although room is made in one step and taken in    *)
(* the next: past them lies at most one block and one file for every call  *)
(* that ran outside the lock.                                              *)
WithinBounds ==
  /\ Used(disk) <= UPLOAD_QUOTA_BYTES + Cardinality(Loose)
  /\ Cardinality(Listed(disk)) + Cardinality(InFlight(disk))
       <= MAX_UPLOADS_PER_ACCOUNT + Cardinality(Loose)

(* What is not decided yet stands in the last call of its upload.          *)
Settled == {id \in Ids : up[id].call = "complete" /\ up[id].pc # "wait" /\ up[id].at = "none"}
Held    == {id \in Ids : disk[id].bytes # Absent /\ disk[id].side = "whole"}

Promise == INSTANCE BlobStore WITH
             held    <- [id \in Held |-> disk[id].made],
             settled <- Settled,
             leaving <- removal # "no"

(* The directory with its part files, renames, sidecars, evictions, sweeps *)
(* and crashes is the store a client is promised: kept once, lost only to  *)
(* age, to room taken oldest first or with the account, never back.        *)
KeepsItsPromise == Promise!Spec

(* A download that ends without an error carried every octet of its blob,  *)
(* or exactly its range, whatever left, was swept, renumbered or forgotten *)
(* while it ran: never a short file that looks whole.                      *)
WholeOrBroken ==
  down.pc = "whole" =>
    down.got = IF down.cut # Absent THEN down.cut
               ELSE IF down.blob \in Ids THEN up[down.blob].index ELSE mail.size

(* The gate hears of a connection that failed, which counts towards        *)
(* stopping the account, only where the upstream broke the upload off,     *)
(* never where its client did.                                             *)
NoFalseBlame ==
  \A id \in Ids :
    blame[id] = "client" /\ up[id].pc = "failed" => Fault(forward[id]) # "connection"

(* Whatever an upload left on disk goes: a part file whose writer crashed  *)
(* or left, bytes without a sidecar, a torn sidecar, an upload whose day   *)
(* is over, and one that was written after its account was forgotten.      *)
LeavesNothing == []<>(\A id \in Ids : Stands(disk[id]) => Active(id))

(* How a stream ends is told as it was, to its client and to the gate.     *)
EndsAreTold == WholeOrBroken /\ NoFalseBlame
=============================================================================
