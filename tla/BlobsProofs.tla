---------------------------- MODULE BlobsProofs ----------------------------
(***************************************************************************)
(* The upload directory implements the store a client is promised, a       *)
(* stream ends as it is told, and the directory keeps within its bounds,   *)
(* for every number of uploads and every bound.                            *)
(*                                                                         *)
(* The argument: a whole sidecar stands only behind a call that is over,   *)
(* so whatever a task, its failure, a caller that left or a crash does to  *)
(* the files of an upload under way, the promise does not see it before    *)
(* the sidecar is written.  Room that a call made and did not take yet is  *)
(* counted as taken; of the calls under way all but one are loose.         *)
(***************************************************************************)
EXTENDS Blobs, FiniteSetTheorems, TLAPS

-----------------------------------------------------------------------------
(* The inductive invariant *)

Papers == [part : Int, bytes : Int, side : {"none", "torn", "whole"}, size : Nat,
           age : 0..UPLOAD_TTL, made : 0..UPLOAD_TTL]
Calls == [pc : {"idle", "wait", "call", "writing", "discard", "send", "done", "failed", "gone"},
          call : {"begin", "append", "last", "complete"},
          at : {"none", "room", "write", "rename", "sidecar"},
          lock : Gens, index : Nat, removing : BOOLEAN, loose : BOOLEAN]

\* The call that decides an upload is over; the files a client can open.
Over(u) == u.call = "complete" /\ u.pc # "wait" /\ u.at = "none"
Opens(f) == f.bytes # Absent /\ f.side = "whole"

\* An upload and its files fit each other.
Fits(u, f) ==
  /\ u.at # "none" => u.pc \in {"call", "gone"}
  /\ u.at \in {"room", "write"} => u.call # "complete"
  /\ u.at \in {"rename", "sidecar"} => u.call = "complete"
  /\ u.pc = "writing" => u.call = "append"
  /\ u.pc \in {"idle", "send"} => u.call = "begin"
  /\ u.call # "complete" \/ f.part # Absent => f.bytes = Absent /\ f.side = "none"
  /\ u.at = "sidecar" => f.part = Absent
  /\ f.side = "whole" => Over(u) /\ f.size = u.index
  /\ u.call = "complete" /\ (f.part # Absent \/ f.bytes # Absent) => f.size # 0 /\ f.size = u.index

StoreInv ==
  /\ up \in [Ids -> Calls] /\ disk \in [Ids -> Papers] /\ gen \in Gens
  /\ \A id \in Ids : Fits(up[id], disk[id])

\* The time an upload lives.
LEMMA TtlCounts == UPLOAD_TTL \in Nat /\ UPLOAD_TTL # 0 /\ 0 \in 0..UPLOAD_TTL
<1>1. UPLOAD_TTL \in Nat /\ UPLOAD_TTL # 0
  BY BlobsAssumption
<1> QED
  BY <1>1

-----------------------------------------------------------------------------
(* Steps of the promise *)

\* The mapping, by upload.
LEMMA MapsTo ==
  /\ Held = {id \in Ids : Opens(disk[id])}
  /\ Settled = {id \in Ids : Over(up[id])}
BY DEF Held, Settled, Opens, Over

\* What the files say stays, and more uploads are decided.
LEMMA Decides ==
    ASSUME \A id \in Ids : /\ Opens(disk'[id]) <=> Opens(disk[id])
                           /\ Opens(disk[id]) => disk'[id].made = disk[id].made
                           /\ Over(up[id]) => Over(up'[id]),
           (removal' # "no") <=> (removal # "no")
    PROVE  Promise!Next
<1>1. Held' = Held /\ Settled \subseteq Settled' /\ Settled' \subseteq Ids
  BY MapsTo DEF Held, Settled, Opens, Over
<1>2. [id \in Held |-> disk[id].made]' = [id \in Held |-> disk[id].made]
  BY <1>1, MapsTo
<1>3. Settled' = Settled \cup (Settled' \ Settled) /\ Settled' \ Settled \in SUBSET (Ids \ Settled)
  BY <1>1
<1>4. (removal # "no")' = (removal # "no")
  OBVIOUS
<1>5. Promise!Refuse
  BY <1>2, <1>3, <1>4 DEF Promise!Refuse
<1> QED
  BY <1>5 DEF Promise!Next
\* A step of one upload that no client sees: its call may come to its end,
\* its files stay closed or stay open as they are.
LEMMA Single ==
    ASSUME StoreInv, NEW id \in Ids, NEW u \in Calls, NEW f \in Papers,
           up' = [up EXCEPT ![id] = u], disk' = [disk EXCEPT ![id] = f],
           gen' = gen, removal' = removal, Fits(u, f), Over(up[id]) => Over(u),
           Opens(f) <=> Opens(disk[id]), Opens(f) => f.made = disk[id].made
    PROVE  StoreInv' /\ Promise!Next
<1>1. /\ up' \in [Ids -> Calls] /\ disk' \in [Ids -> Papers] /\ up'[id] = u /\ disk'[id] = f
      /\ \A k \in Ids : k # id => up'[k] = up[k] /\ disk'[k] = disk[k]
  BY DEF StoreInv
<1>2. \A k \in Ids : Fits(up'[k], disk'[k])
  BY <1>1 DEF StoreInv
<1>3. StoreInv'
  BY <1>1, <1>2 DEF StoreInv
<1>4. \A k \in Ids : /\ Opens(disk'[k]) <=> Opens(disk[k])
                     /\ Opens(disk[k]) => disk'[k].made = disk[k].made
                     /\ Over(up[k]) => Over(up'[k])
  BY <1>1
<1>5. Promise!Next
  BY <1>4, Decides
<1> QED
  BY <1>3, <1>5

\* An upload that does not touch its files.
LEMMA Alone ==
    ASSUME StoreInv, NEW id \in Ids, NEW u \in Calls, up' = [up EXCEPT ![id] = u],
           UNCHANGED <<disk, gen, removal>>, Fits(u, disk[id]), Over(up[id]) => Over(u)
    PROVE  StoreInv' /\ Promise!Next
<1>1. disk' = [disk EXCEPT ![id] = disk[id]] /\ disk[id] \in Papers
  BY DEF StoreInv
<1> QED
  BY <1>1, Single

\* The store as it is.
LEMMA Still ==
    ASSUME StoreInv, UNCHANGED <<disk, up, gen>>, (removal' # "no") <=> (removal # "no")
    PROVE  StoreInv' /\ Promise!Next
<1>1. StoreInv'
  BY DEF StoreInv
<1>2. Promise!Next
  BY Decides
<1> QED
  BY <1>1, <1>2

\* The parts of an upload.
LEMMA UploadType ==
    ASSUME StoreInv, NEW id \in Ids
    PROVE  up[id] \in Calls /\ disk[id] \in Papers /\ Fits(up[id], disk[id])
BY DEF StoreInv

-----------------------------------------------------------------------------
(* Calls and their answers *)

\* A place in the lane.
LEMMA UploadKeeps ==
    ASSUME StoreInv, NEW id \in Ids, Upload(id) PROVE StoreInv' /\ Promise!Next
<1> DEFINE pc == IF kind = "imap" THEN "wait" ELSE "send"
           u == [up[id] EXCEPT !.pc = pc, !.lock = gen]
<1>1. /\ up[id].pc = "idle" /\ UNCHANGED <<disk, gen, removal>>
      /\ up' = [up EXCEPT ![id] = u]
  BY DEF Upload, others, StoreInv
<1>2. pc \in {"wait", "send"} /\ gen \in Gens
  BY DEF StoreInv
<1> HIDE DEF pc
<1>3. u \in Calls /\ u.pc = pc /\ u.call = up[id].call /\ u.at = up[id].at /\ u.index = up[id].index
  BY <1>2, UploadType DEF Calls
<1> HIDE DEF u
<1>4. Fits(up[id], disk[id])
  BY UploadType
<1>5. Fits(u, disk[id]) /\ ~Over(up[id])
  BY <1>1, <1>2, <1>3, <1>4 DEF Fits, Over
<1> QED
  BY <1>1, <1>3, <1>5, Alone

\* The call's turn on the lock.
LEMMA TakeLockKeeps ==
    ASSUME StoreInv, NEW id \in Ids, TakeLock(id) PROVE StoreInv' /\ Promise!Next
<1> DEFINE at == IF up[id].call = "complete" THEN "rename" ELSE "room"
           u == [up[id] EXCEPT !.pc = "call", !.at = at]
<1>1. /\ up[id].pc = "wait" /\ UNCHANGED <<disk, gen, removal>>
      /\ up' = [up EXCEPT ![id] = u]
  BY DEF TakeLock, others, StoreInv
<1>2. at \in {"rename", "room"} /\ (at = "rename" <=> up[id].call = "complete")
  OBVIOUS
<1> HIDE DEF at
<1>3. u \in Calls /\ u.pc = "call" /\ u.call = up[id].call /\ u.at = at /\ u.index = up[id].index
  BY <1>2, UploadType DEF Calls
<1> HIDE DEF u
<1>4. Fits(up[id], disk[id])
  BY UploadType
<1>5. Fits(u, disk[id]) /\ ~Over(up[id])
  BY <1>1, <1>2, <1>3, <1>4 DEF Fits, Over
<1> QED
  BY <1>1, <1>3, <1>5, Alone

\* The next block, the last one, or the body given up.
LEMMA WritingKeeps ==
    ASSUME StoreInv, NEW id \in Ids, Push(id) \/ Finish(id) \/ Abandon(id)
    PROVE  StoreInv' /\ Promise!Next
<1>0. /\ up[id].pc = "writing" /\ UNCHANGED <<disk, gen, removal>>
      /\ up[id] \in Calls /\ Fits(up[id], disk[id]) /\ gen \in Gens
  BY UploadType DEF Push, Finish, Abandon, others, StoreInv
<1>1. ASSUME NEW c \in {"append", "last"},
             up' = [up EXCEPT ![id] = [@ EXCEPT !.pc = "wait", !.call = c, !.lock = gen]]
      PROVE  StoreInv' /\ Promise!Next
  <2> DEFINE u == [up[id] EXCEPT !.pc = "wait", !.call = c, !.lock = gen]
  <2>1. up' = [up EXCEPT ![id] = u]
    BY <1>1 DEF StoreInv
  <2>2. u \in Calls /\ u.pc = "wait" /\ u.call = c /\ u.at = up[id].at /\ u.index = up[id].index
    BY <1>0 DEF Calls
  <2> HIDE DEF u
  <2>3. Fits(u, disk[id]) /\ ~Over(up[id])
    BY <1>0, <2>2 DEF Fits, Over
  <2> QED
    BY <1>0, <2>1, <2>2, <2>3, Alone
<1>2. CASE Abandon(id)
  <2> DEFINE u == [up[id] EXCEPT !.pc = "discard", !.removing = TRUE]
  <2>1. up' = [up EXCEPT ![id] = u]
    BY <1>2 DEF Abandon, StoreInv
  <2>2. u \in Calls /\ u.pc = "discard" /\ u.call = up[id].call /\ u.at = up[id].at /\ u.index = up[id].index
    BY <1>0 DEF Calls
  <2> HIDE DEF u
  <2>3. Fits(u, disk[id]) /\ ~Over(up[id])
    BY <1>0, <2>2 DEF Fits, Over
  <2> QED
    BY <1>0, <2>1, <2>2, <2>3, Alone
<1> QED
  BY <1>1, <1>2 DEF Push, Finish

\* An upload on its way back from a call.
LEMMA Back ==
    ASSUME NEW u \in Calls, NEW back, back = [u EXCEPT !.at = "none", !.lock = 0]
    PROVE  /\ back \in Calls /\ back.at = "none" /\ back.call = u.call /\ back.index = u.index
           /\ back.index + 1 \in Nat
<1>1. PICK g \in Gens : g = 0
  BY DEF Gens
<1>2. back = [u EXCEPT !.at = "none", !.lock = g]
  BY <1>1
<1>3. back \in Calls /\ back.at = "none" /\ back.call = u.call /\ back.index = u.index
  BY <1>2 DEF Calls
<1>4. u.index \in Nat
  BY DEF Calls
<1> QED
  BY <1>3, <1>4

\* What a call that failed makes of an upload.
LEMMA AnsweredNo ==
    ASSUME NEW u \in Calls, NEW v, v = Answered(u, FALSE)
    PROVE  /\ v \in Calls /\ v.at = "none" /\ v.call = u.call /\ v.index = u.index
           /\ v.pc = u.pc \/ v.pc \in {"failed", "discard"}
<1>1. CASE u.pc # "call"
  <2>1. v = [u EXCEPT !.at = "none"]
    BY <1>1 DEF Answered
  <2> QED
    BY <1>1, <2>1 DEF Calls
<1> DEFINE back == [u EXCEPT !.at = "none", !.lock = 0]
<1>2. u.pc = "call" => v = IF u.call = "begin" THEN [back EXCEPT !.pc = "failed"]
                           ELSE [back EXCEPT !.pc = "discard", !.removing = TRUE]
  BY DEF Answered
<1>3. back \in Calls /\ back.at = "none" /\ back.call = u.call /\ back.index = u.index
  BY Back
<1> HIDE DEF back
<1>4. CASE u.pc = "call" /\ u.call = "begin"
  <2>1. v = [back EXCEPT !.pc = "failed"]
    BY <1>2, <1>4
  <2> QED
    BY <1>3, <1>4, <2>1 DEF Calls
<1>5. CASE u.pc = "call" /\ u.call # "begin"
  <2>1. v = [back EXCEPT !.pc = "discard", !.removing = TRUE]
    BY <1>2, <1>5
  <2> QED
    BY <1>3, <1>5, <2>1 DEF Calls
<1> QED
  BY <1>1, <1>4, <1>5

\* What a call that went well makes of an upload.
LEMMA AnsweredYes ==
    ASSUME gen \in Gens, NEW u \in Calls, NEW v, v = Answered(u, TRUE)
    PROVE  /\ v \in Calls /\ v.at = "none"
           /\ u.pc # "call" => v.pc = u.pc /\ v.call = u.call /\ v.index = u.index
           /\ u.pc = "call" /\ u.call \in {"begin", "append"} => v.pc = "writing" /\ v.call = "append"
           /\ u.pc = "call" /\ u.call = "last" =>
                v.pc = "wait" /\ v.call = "complete" /\ v.index = u.index + 1
           /\ u.pc = "call" /\ u.call = "complete" =>
                v.pc = "done" /\ v.call = "complete" /\ v.index = u.index
<1>1. CASE u.pc # "call"
  <2>1. v = [u EXCEPT !.at = "none"]
    BY <1>1 DEF Answered
  <2> QED
    BY <1>1, <2>1 DEF Calls
<1> DEFINE back == [u EXCEPT !.at = "none", !.lock = 0]
           n == back.index + 1
<1>2. u.pc = "call" =>
        v = CASE u.call = "begin"    -> [back EXCEPT !.pc = "writing", !.call = "append"]
              [] u.call = "append"   -> [back EXCEPT !.pc = "writing", !.index = n]
              [] u.call = "last"     -> [back EXCEPT !.pc = "wait", !.index = n,
                                                     !.call = "complete", !.lock = gen]
              [] u.call = "complete" -> [back EXCEPT !.pc = "done"]
  BY DEF Answered
<1>3. /\ back \in Calls /\ back.at = "none" /\ back.call = u.call /\ back.index = u.index
      /\ back.index + 1 \in Nat
  BY Back
<1> HIDE DEF back
<1>4. n \in Nat /\ n = u.index + 1
  BY <1>3
<1> HIDE DEF n
<1>5. CASE u.pc = "call" /\ u.call = "begin"
  <2>1. v = [back EXCEPT !.pc = "writing", !.call = "append"]
    BY <1>2, <1>5
  <2> QED
    BY <1>3, <1>5, <2>1 DEF Calls
<1>6. CASE u.pc = "call" /\ u.call = "append"
  <2>1. v = [back EXCEPT !.pc = "writing", !.index = n]
    BY <1>2, <1>6
  <2> QED
    BY <1>3, <1>4, <1>6, <2>1 DEF Calls
<1>7. CASE u.pc = "call" /\ u.call = "last"
  <2>1. v = [back EXCEPT !.pc = "wait", !.index = n, !.call = "complete", !.lock = gen]
    BY <1>2, <1>7
  <2> QED
    BY <1>3, <1>4, <1>7, <2>1 DEF Calls
<1>8. CASE u.pc = "call" /\ u.call = "complete"
  <2>1. v = [back EXCEPT !.pc = "done"]
    BY <1>2, <1>8
  <2> QED
    BY <1>3, <1>8, <2>1 DEF Calls
<1> QED
  BY <1>1, <1>5, <1>6, <1>7, <1>8 DEF Calls

\* A task in hand whose answer says nothing new of the files.
LEMMA EndKeeps ==
    ASSUME StoreInv, NEW id \in Ids, NEW f \in Papers, up[id].at # "none",
           up' = [up EXCEPT ![id] = Answered(@, FALSE)], disk' = [disk EXCEPT ![id] = f],
           gen' = gen, removal' = removal,
           \/ f = disk[id]
           \/ up[id].at = "sidecar" /\ f.part = Absent /\ f.bytes = Absent /\ f.side # "whole"
    PROVE  StoreInv' /\ Promise!Next
<1> DEFINE v == Answered(up[id], FALSE)
<1>1. up' = [up EXCEPT ![id] = v]
  BY DEF StoreInv
<1>2. up[id] \in Calls /\ disk[id] \in Papers /\ Fits(up[id], disk[id]) /\ gen \in Gens
  BY UploadType DEF StoreInv
<1>a. v = Answered(up[id], FALSE)
  OBVIOUS
<1> HIDE DEF v
<1>3. /\ v \in Calls /\ v.at = "none" /\ v.call = up[id].call /\ v.index = up[id].index
      /\ v.pc = up[id].pc \/ v.pc \in {"failed", "discard"}
  BY <1>2, <1>a, AnsweredNo
<1>4. up[id].pc \in {"call", "gone"} /\ ~Over(up[id]) /\ disk[id].side # "whole" /\ ~Opens(disk[id])
  BY <1>2 DEF Fits, Over, Opens
<1>5. f.side # "whole" /\ ~Opens(f)
  BY <1>4 DEF Opens
<1>6. Fits(v, f)
  BY <1>2, <1>3, <1>4, <1>5 DEF Fits, Over
<1> QED
  BY <1>1, <1>3, <1>4, <1>5, <1>6, Single

\* A file call fails.
LEMMA CallFailsKeeps ==
    ASSUME StoreInv, NEW id \in Ids, CallFails(id) PROVE StoreInv' /\ Promise!Next
<1>1. /\ up[id].at # "none" /\ gen' = gen /\ removal' = removal
      /\ up' = [up EXCEPT ![id] = Answered(@, FALSE)]
  BY DEF CallFails, Returns, others
<1>2. disk[id] \in Papers /\ disk = [disk EXCEPT ![id] = disk[id]]
  BY UploadType DEF StoreInv
<1>3. CASE up[id].at # "sidecar"
  <2>1. disk' = [disk EXCEPT ![id] = disk[id]]
    BY <1>2, <1>3 DEF CallFails
  <2> QED
    BY <1>1, <1>2, <2>1, EndKeeps
<1>4. CASE up[id].at = "sidecar"
  <2>1. PICK side \in {"none", "torn"} :
          disk' = [disk EXCEPT ![id] = IF side = "none" THEN NoFile ELSE [NoFile EXCEPT !.side = "torn"]]
    BY <1>4 DEF CallFails
  <2> DEFINE f == IF side = "none" THEN NoFile ELSE [NoFile EXCEPT !.side = "torn"]
  <2>2. f \in Papers /\ f.part = Absent /\ f.bytes = Absent /\ f.side # "whole"
    BY TtlCounts DEF NoFile, Papers, Absent
  <2>3. disk' = [disk EXCEPT ![id] = f]
    BY <2>1
  <2> HIDE DEF f
  <2> QED
    BY <1>1, <1>4, <2>2, <2>3, EndKeeps
<1> QED
  BY <1>3, <1>4

\* A block goes to the part file; the last one stamps it.
LEMMA WriteFileKeeps ==
    ASSUME StoreInv, NEW id \in Ids, WriteFile(id) PROVE StoreInv' /\ Promise!Next
<1> DEFINE u == up[id]
           d == disk[id]
           begins == u.call = "begin"
           fits == begins \/ d.part # Absent
           file == IF begins THEN Begun(d) ELSE Appended(d)
           ends == u.call = "last" /\ u.pc = "call"
           n == u.index + 1
           f == IF ends THEN [file EXCEPT !.size = n, !.made = 0] ELSE file
<1>1. /\ u.at = "write" /\ gen' = gen /\ removal' = removal /\ Returns(id, fits)
      /\ disk' = IF fits THEN [disk EXCEPT ![id] = f] ELSE disk
  BY DEF WriteFile, others
<1>2. u \in Calls /\ d \in Papers /\ Fits(u, d) /\ gen \in Gens
  BY UploadType DEF StoreInv
<1>3. CASE ~fits
  <2>1. up' = [up EXCEPT ![id] = Answered(@, FALSE)] /\ disk' = [disk EXCEPT ![id] = d]
    BY <1>1, <1>3 DEF Returns, StoreInv
  <2> QED
    BY <1>1, <1>2, <2>1, EndKeeps
<1>4. CASE fits
  <2> DEFINE v == Answered(u, TRUE)
  <2>1. up' = [up EXCEPT ![id] = v] /\ disk' = [disk EXCEPT ![id] = f]
    BY <1>1, <1>4 DEF Returns, StoreInv
  <2>2. u.index \in Nat /\ n \in Nat /\ n # 0 /\ n = u.index + 1
    BY <1>2 DEF Calls
  <2>3. file \in Papers /\ file.bytes = d.bytes /\ file.side = d.side
    <3>1. d.part \in Int /\ 0 \in 0..UPLOAD_TTL
      BY <1>2, TtlCounts DEF Papers
    <3> DEFINE p == IF begins THEN 0 ELSE d.part + 1
    <3>2. p \in Int
      BY <3>1
    <3>3. file = [d EXCEPT !.part = p, !.age = 0]
      BY DEF Begun, Appended
    <3> HIDE DEF p, file
    <3> QED
      BY <1>2, <3>1, <3>2, <3>3 DEF Papers
  <2> HIDE DEF file, n
  <2>4. f \in Papers /\ f.bytes = d.bytes /\ f.side = d.side /\ (ends => f.size = n)
    <3>1. 0 \in 0..UPLOAD_TTL
      BY TtlCounts
    <3>2. CASE ends
      BY <2>2, <2>3, <3>1, <3>2 DEF Papers
    <3>3. CASE ~ends
      BY <2>3, <3>3
    <3> QED
      BY <3>2, <3>3
  <2>5. u.call # "complete" /\ d.bytes = Absent /\ d.side = "none" /\ u.pc \in {"call", "gone"}
    BY <1>1, <1>2 DEF Fits
  <2>a. v = Answered(u, TRUE)
    OBVIOUS
  <2> HIDE DEF f, v
  <2>6. /\ v \in Calls /\ v.at = "none"
        /\ u.pc # "call" => v.pc = u.pc /\ v.call = u.call /\ v.index = u.index
        /\ u.pc = "call" /\ u.call \in {"begin", "append"} => v.pc = "writing" /\ v.call = "append"
        /\ u.pc = "call" /\ u.call = "last" => v.pc = "wait" /\ v.call = "complete" /\ v.index = u.index + 1
    BY <1>2, <2>a, AnsweredYes
  <2>7. u.call \in {"begin", "append", "last"}
    BY <1>2, <2>5 DEF Calls
  <2>8. Fits(v, f)
    BY <2>2, <2>4, <2>5, <2>6, <2>7 DEF Fits, Over
  <2>9. ~Over(u) /\ ~Opens(f) /\ ~Opens(d)
    BY <2>4, <2>5 DEF Over, Opens, Absent
  <2> QED
    BY <1>1, <2>1, <2>4, <2>6, <2>8, <2>9, Single
<1> QED
  BY <1>3, <1>4

\* The part file renamed into place.
LEMMA RenamePartKeeps ==
    ASSUME StoreInv, NEW id \in Ids, RenamePart(id) PROVE StoreInv' /\ Promise!Next
<1> DEFINE d == disk[id]
<1>1. up[id].at = "rename" /\ gen' = gen /\ removal' = removal
  BY DEF RenamePart, others
<1>2. up[id] \in Calls /\ d \in Papers /\ Fits(up[id], d)
  BY UploadType
<1>3. CASE d.part = Absent
  <2>1. up' = [up EXCEPT ![id] = Answered(@, FALSE)] /\ disk' = [disk EXCEPT ![id] = d]
    BY <1>3 DEF RenamePart, Returns, StoreInv
  <2> QED
    BY <1>1, <1>2, <2>1, EndKeeps
<1>4. CASE d.part # Absent
  <2> DEFINE f == [d EXCEPT !.bytes = d.part, !.part = Absent]
             u == [up[id] EXCEPT !.at = "sidecar"]
  <2>1. up' = [up EXCEPT ![id] = u] /\ disk' = [disk EXCEPT ![id] = f]
    BY <1>4 DEF RenamePart, StoreInv
  <2>2. /\ u \in Calls /\ u.at = "sidecar" /\ u.pc = up[id].pc /\ u.call = up[id].call
        /\ u.index = up[id].index
    BY <1>2 DEF Calls
  <2>3. f \in Papers /\ f.part = Absent /\ f.side = d.side /\ f.size = d.size
    <3>1. PICK a \in Int, p \in Int : a = Absent /\ p = d.part
      BY <1>2 DEF Papers, Absent
    <3>2. f = [d EXCEPT !.bytes = p, !.part = a]
      BY <3>1
    <3> HIDE DEF f
    <3> QED
      BY <1>2, <3>1, <3>2 DEF Papers
  <2> HIDE DEF f, u
  <2>4. d.side = "none" /\ up[id].call = "complete" /\ d.size # 0 /\ d.size = up[id].index
    BY <1>1, <1>2, <1>4 DEF Fits
  <2>5. Fits(u, f) /\ ~Over(up[id]) /\ ~Opens(f) /\ ~Opens(d)
    BY <1>1, <1>2, <2>2, <2>3, <2>4 DEF Fits, Over, Opens
  <2> QED
    BY <1>1, <2>1, <2>2, <2>3, <2>5, Single
<1> QED
  BY <1>3, <1>4

\* An upload whose sidecar is written can be opened from here on.
LEMMA Kept ==
    ASSUME StoreInv, NEW id \in Ids, NEW u \in Calls, NEW f \in Papers,
           up' = [up EXCEPT ![id] = u], disk' = [disk EXCEPT ![id] = f],
           gen' = gen, removal' = removal, Fits(u, f), ~Over(up[id]), Over(u),
           Opens(f), ~Opens(disk[id])
    PROVE  StoreInv' /\ Promise!Next
<1>1. /\ up' \in [Ids -> Calls] /\ disk' \in [Ids -> Papers] /\ up'[id] = u /\ disk'[id] = f
      /\ \A k \in Ids : k # id => up'[k] = up[k] /\ disk'[k] = disk[k]
  BY DEF StoreInv
<1>2. \A k \in Ids : Fits(up'[k], disk'[k])
  BY <1>1 DEF StoreInv
<1>3. StoreInv'
  BY <1>1, <1>2 DEF StoreInv
<1>4. Held' = Held \cup {id} /\ Settled' = Settled \cup {id} /\ id \in Ids \ Settled /\ id \notin Held
  BY <1>1 DEF Held, Settled, Opens, Over
<1>5. f.made \in 0..UPLOAD_TTL
  BY DEF Papers
<1> DEFINE h == [k \in Held |-> disk[k].made]
<1>6. h' = [k \in DOMAIN h \cup {id} |-> IF k = id THEN f.made ELSE h[k]]
  <2>1. h' = [k \in Held \cup {id} |-> disk'[k].made]
    BY <1>4
  <2>2. \A k \in Held : k # id /\ disk'[k] = disk[k] /\ h[k] = disk[k].made
    BY <1>1, <1>4 DEF Held
  <2> QED
    BY <1>1, <2>1, <2>2
<1>7. (removal # "no")' = (removal # "no")
  OBVIOUS
<1>8. Promise!Keep(id)
  BY <1>4, <1>5, <1>6, <1>7 DEF Promise!Keep
<1> QED
  BY <1>3, <1>8 DEF Promise!Next

\* The sidecar beside the bytes, or alone where they left meanwhile.
LEMMA WriteSidecarKeeps ==
    ASSUME StoreInv, NEW id \in Ids, WriteSidecar(id) PROVE StoreInv' /\ Promise!Next
<1> DEFINE u == up[id]
           d == disk[id]
           v == Answered(u, TRUE)
<1>1. u.at = "sidecar" /\ gen' = gen /\ removal' = removal /\ up' = [up EXCEPT ![id] = v]
  BY DEF WriteSidecar, Returns, others, StoreInv
<1>2. u \in Calls /\ d \in Papers /\ Fits(u, d) /\ gen \in Gens
  BY UploadType DEF StoreInv
<1>3. v = Answered(u, TRUE)
  OBVIOUS
<1> HIDE DEF v
<1>4. u.call = "complete" /\ u.pc \in {"call", "gone"} /\ d.part = Absent /\ d.side # "whole" /\ ~Over(u)
  BY <1>1, <1>2 DEF Fits, Over
<1>5. v \in Calls /\ v.at = "none" /\ v.call = "complete" /\ v.pc \in {"done", "gone"} /\ v.index = u.index
  <2>1. /\ v \in Calls /\ v.at = "none"
        /\ u.pc # "call" => v.pc = u.pc /\ v.call = u.call /\ v.index = u.index
        /\ u.pc = "call" /\ u.call = "complete" =>
             v.pc = "done" /\ v.call = "complete" /\ v.index = u.index
    BY <1>2, <1>3, AnsweredYes
  <2> QED
    BY <1>4, <2>1
<1>6. Over(v)
  BY <1>5 DEF Over
<1>7. CASE d.bytes # Absent
  <2> DEFINE f == [d EXCEPT !.side = "whole"]
  <2>1. disk' = [disk EXCEPT ![id] = f]
    BY <1>7 DEF WriteSidecar, StoreInv
  <2>2. f \in Papers /\ f.side = "whole" /\ f.bytes = d.bytes /\ f.part = Absent /\ f.size = d.size
    BY <1>2, <1>4 DEF Papers
  <2> HIDE DEF f
  <2>3. Opens(f) /\ ~Opens(d)
    BY <1>4, <1>7, <2>2 DEF Opens
  <2>4. d.size # 0 /\ d.size = u.index
    BY <1>2, <1>4, <1>7 DEF Fits
  <2>5. Fits(v, f)
    BY <1>5, <1>6, <2>2, <2>4 DEF Fits
  <2> QED
    BY <1>1, <1>4, <1>5, <1>6, <2>1, <2>2, <2>3, <2>5, Kept
<1>8. CASE d.bytes = Absent
  <2>1. PICK made \in 0..UPLOAD_TTL :
          disk' = [disk EXCEPT ![id] = [@ EXCEPT !.side = "whole", !.size = u.index, !.made = made]]
    BY <1>8 DEF WriteSidecar
  <2> DEFINE f == [d EXCEPT !.side = "whole", !.size = u.index, !.made = made]
  <2>2. disk' = [disk EXCEPT ![id] = f]
    BY <2>1 DEF StoreInv
  <2>3. u.index \in Nat
    BY <1>2 DEF Calls
  <2>4. f \in Papers /\ f.side = "whole" /\ f.bytes = Absent /\ f.part = Absent /\ f.size = u.index
    BY <1>2, <1>4, <1>8, <2>3 DEF Papers
  <2> HIDE DEF f
  <2>5. Fits(v, f) /\ ~Opens(f) /\ ~Opens(d)
    BY <1>4, <1>5, <1>6, <2>4 DEF Fits, Opens
  <2> QED
    BY <1>1, <1>4, <1>5, <2>2, <2>4, <2>5, Single
<1> QED
  BY <1>7, <1>8

\* A caller that goes away.
LEMMA DropKeeps ==
    ASSUME StoreInv, NEW id \in Ids, Drop(id) PROVE StoreInv' /\ Promise!Next
<1> DEFINE r == up[id].removing \/ up[id].call # "begin"
           l == up[id].loose \/ up[id].at # "none"
           u == [up[id] EXCEPT !.pc = "gone", !.removing = r, !.loose = l]
<1>0. up' = [up EXCEPT ![id] = u]
  BY DEF Drop
<1>1. UNCHANGED <<disk, gen, removal>>
  BY DEF Drop, others
<1>2. up[id] \in Calls /\ Fits(up[id], disk[id])
  BY UploadType
<1>3. r \in BOOLEAN /\ l \in BOOLEAN
  OBVIOUS
<1> HIDE DEF r, l
<1>4. u \in Calls /\ u.pc = "gone" /\ u.call = up[id].call /\ u.at = up[id].at /\ u.index = up[id].index
  BY <1>2, <1>3 DEF Calls
<1> HIDE DEF u
<1>5. Fits(u, disk[id]) /\ (Over(up[id]) => Over(u))
  BY <1>2, <1>4 DEF Fits, Over
<1> QED
  BY <1>0, <1>1, <1>4, <1>5, Alone

\* What is left without the part file.
LEMMA WithoutPartSays ==
    ASSUME NEW f \in Papers, NEW g, g = WithoutPart(f)
    PROVE  /\ g \in Papers /\ g.part = Absent /\ g.bytes = f.bytes /\ g.side = f.side
           /\ f.bytes # Absent \/ f.side # "none" => g.size = f.size /\ g.made = f.made
           /\ f.part = Absent /\ (f.bytes # Absent \/ f.side # "none") => g = f
<1>1. CASE f.bytes = Absent /\ f.side = "none"
  BY <1>1, TtlCounts DEF WithoutPart, NoFile, Papers, Absent
<1>2. CASE ~(f.bytes = Absent /\ f.side = "none")
  <2>1. PICK a \in Int : a = Absent
    BY DEF Absent
  <2>2. g = [f EXCEPT !.part = a]
    BY <1>2, <2>1 DEF WithoutPart
  <2> QED
    BY <1>2, <2>1, <2>2 DEF Papers
<1> QED
  BY <1>1, <1>2

\* The removal of a part file, queued by a discard or a drop.
LEMMA DiscardKeeps ==
    ASSUME StoreInv, NEW id \in Ids, Discard(id) PROVE StoreInv' /\ Promise!Next
<1> DEFINE d == disk[id]
           f == WithoutPart(d)
           pc == IF up[id].pc = "discard" THEN "failed" ELSE up[id].pc
           u == [up[id] EXCEPT !.removing = FALSE, !.pc = pc]
<1>0. up' = [up EXCEPT ![id] = u]
  BY DEF Discard
<1>1. disk' = [disk EXCEPT ![id] = f] /\ gen' = gen /\ removal' = removal
  BY DEF Discard, others
<1>2. up[id] \in Calls /\ d \in Papers /\ Fits(up[id], d)
  BY UploadType
<1>3. /\ f \in Papers /\ f.part = Absent /\ f.bytes = d.bytes /\ f.side = d.side
      /\ d.bytes # Absent \/ d.side # "none" => f.size = d.size /\ f.made = d.made
  BY <1>2, WithoutPartSays
<1> HIDE DEF f
<1>4. /\ pc \in {"idle", "wait", "call", "writing", "discard", "send", "done", "failed", "gone"}
      /\ pc = up[id].pc \/ (pc = "failed" /\ up[id].pc = "discard")
  <2>1. up[id].pc \in {"idle", "wait", "call", "writing", "discard", "send", "done", "failed", "gone"}
    BY <1>2 DEF Calls
  <2>2. CASE up[id].pc = "discard"
    BY <2>2
  <2>3. CASE up[id].pc # "discard"
    <3>1. pc = up[id].pc
      BY <2>3
    <3> HIDE DEF pc
    <3> QED
      BY <2>1, <3>1
  <2> QED
    BY <2>2, <2>3
<1> HIDE DEF pc
<1>5. u \in Calls /\ u.pc = pc /\ u.call = up[id].call /\ u.at = up[id].at /\ u.index = up[id].index
  BY <1>2, <1>4 DEF Calls
<1> HIDE DEF u
<1>6. Over(up[id]) <=> Over(u)
  BY <1>4, <1>5 DEF Over
<1>7. Fits(u, f)
  BY <1>2, <1>3, <1>4, <1>5, <1>6 DEF Fits
<1>8. (Opens(f) <=> Opens(d)) /\ (Opens(f) => f.made = d.made)
  BY <1>3 DEF Opens
<1> QED
  BY <1>0, <1>1, <1>3, <1>5, <1>6, <1>7, <1>8, Single

\* An upload on its way upstream leaves nothing on disk.
LEMMA ForwardedKeeps ==
    ASSUME StoreInv, NEW id \in Ids, Forwarded(id) PROVE StoreInv' /\ Promise!Next
<1>0. /\ UNCHANGED <<disk, gen, removal>> /\ up[id].pc = "send"
  BY DEF Forwarded, Pump, PumpCut, PumpFails, ReadChunk, Upstream, Judged, Pumping, handed
<1>1. up[id] \in Calls /\ Fits(up[id], disk[id])
  BY UploadType
<1>2. CASE UNCHANGED up
  BY <1>0, <1>2, Still
<1>3. CASE up' = [up EXCEPT ![id].index = @ + 1]
  <2> DEFINE n == up[id].index + 1
             u == [up[id] EXCEPT !.index = n]
  <2>1. up' = [up EXCEPT ![id] = u]
    BY <1>3 DEF StoreInv
  <2>2. n \in Nat
    BY <1>1 DEF Calls
  <2> HIDE DEF n
  <2>3. u \in Calls /\ u.pc = up[id].pc /\ u.call = up[id].call /\ u.at = up[id].at
    BY <1>1, <2>2 DEF Calls
  <2> HIDE DEF u
  <2>4. Fits(u, disk[id]) /\ ~Over(up[id])
    BY <1>0, <1>1, <2>3 DEF Fits, Over
  <2> QED
    BY <1>0, <2>1, <2>3, <2>4, Alone
<1>4. CASE Judged(id)
  <2> DEFINE pc == IF Fault(forward[id]) = "none" THEN "done" ELSE "failed"
             u == [up[id] EXCEPT !.pc = pc]
  <2>1. up' = [up EXCEPT ![id] = u]
    BY <1>4 DEF StoreInv, Judged
  <2>2. pc \in {"done", "failed"}
    OBVIOUS
  <2> HIDE DEF pc
  <2>3. u \in Calls /\ u.pc = pc /\ u.call = up[id].call /\ u.at = up[id].at
    BY <1>1, <2>2 DEF Calls
  <2> HIDE DEF u
  <2>4. Fits(u, disk[id]) /\ ~Over(up[id])
    BY <1>0, <1>1, <2>2, <2>3 DEF Fits, Over
  <2> QED
    BY <1>0, <2>1, <2>3, <2>4, Alone
<1> QED
  BY <1>2, <1>3, <1>4 DEF Forwarded, Pump, PumpCut, PumpFails, ReadChunk, Upstream

-----------------------------------------------------------------------------
(* Steps of the whole directory *)

\* Files leave, uploads stay as decided as they are.
LEMMA Loses ==
    ASSUME StoreInv, NEW S \in SUBSET Held,
           \A id \in Ids : /\ Opens(disk'[id]) <=> (Opens(disk[id]) /\ id \notin S)
                           /\ Opens(disk'[id]) => disk'[id].made = disk[id].made
                           /\ Over(up'[id]) <=> Over(up[id]),
           (removal' # "no") <=> (removal # "no")
    PROVE  /\ [id \in Held |-> disk[id].made]' = Promise!Without(S)
           /\ Settled' = Settled /\ (removal # "no")' = (removal # "no")
<1>1. Held' = Held \ S /\ Settled' = Settled
  BY DEF Held, Settled, Opens, Over
<1>2. \A id \in Held \ S : disk'[id].made = disk[id].made
  BY <1>1 DEF Held, Opens
<1>3. (removal # "no")' = (removal # "no")
  OBVIOUS
<1>4. [id \in Held |-> disk[id].made]' = [id \in Held \ S |-> disk[id].made]
  BY <1>1, <1>2
<1>5. Promise!Without(S) = [id \in Held \ S |-> disk[id].made]
  BY DEF Promise!Without
<1> QED
  BY <1>1, <1>3, <1>4, <1>5

\* What an eviction leaves of the files.
LEMMA RemovedSays ==
    ASSUME StoreInv, NEW S \in SUBSET Listed(disk), NEW d, d = Removed(disk, S)
    PROVE  /\ d \in [Ids -> Papers]
           /\ \A id \in Ids :
                /\ id \notin S => d[id] = disk[id]
                /\ id \in S => d[id].bytes = Absent /\ d[id].part = Absent /\ d[id].side = "none"
<1>1. \A id \in Ids : id \in S => disk[id].part = Absent
  BY UploadType DEF Listed, Fits
<1>2. DOMAIN d = Ids /\ \A id \in Ids : d[id] = IF id \in S THEN [NoFile EXCEPT !.part = disk[id].part] ELSE disk[id]
  BY DEF Removed
<1>3. d = [id \in Ids |-> d[id]]
  BY <1>2 DEF Removed
<1>4. ASSUME NEW id \in Ids
      PROVE  /\ d[id] \in Papers /\ (id \notin S => d[id] = disk[id])
             /\ id \in S => d[id].bytes = Absent /\ d[id].part = Absent /\ d[id].side = "none"
  <2>1. CASE id \notin S
    BY <1>2, <2>1, UploadType
  <2>2. CASE id \in S
    <3>1. d[id] = [NoFile EXCEPT !.part = Absent]
      BY <1>1, <1>2, <2>2
    <3> QED
      BY <2>2, <3>1, TtlCounts DEF NoFile, Papers, Absent
  <2> QED
    BY <2>1, <2>2
<1> QED
  BY <1>3, <1>4

\* Room made by evicting the oldest.
LEMMA MakeRoomKeeps ==
    ASSUME StoreInv, NEW id \in Ids, MakeRoom(id) PROVE StoreInv' /\ Promise!Next
<1> DEFINE more == IF up[id].call = "begin" THEN 1 ELSE 0
           blocks == 1 - more
<1>1. up[id].at = "room" /\ gen' = gen /\ removal' = removal
  BY DEF MakeRoom, others
<1>2. PICK S \in Evicted(disk, more, blocks) :
        /\ disk' = Removed(disk, S)
        /\ \/ up' = [up EXCEPT ![id] = Answered(@, FALSE)]
           \/ up' = [up EXCEPT ![id].at = "write"]
  BY DEF MakeRoom, Returns
<1>3. S \in SUBSET Listed(disk) /\ OldestFirst(disk, S)
  BY DEF Evicted
<1> HIDE DEF more, blocks
<1>4. up[id] \in Calls /\ Fits(up[id], disk[id]) /\ gen \in Gens
  BY UploadType DEF StoreInv
<1>5. up[id].call # "complete" /\ up[id].pc \in {"call", "gone"}
  BY <1>1, <1>4 DEF Fits
<1>6. PICK v \in Calls : /\ up' = [up EXCEPT ![id] = v]
                         /\ v.at \in {"none", "write"} /\ v.call = up[id].call /\ v.index = up[id].index
                         /\ v.pc \in {"failed", "discard"} => v.at = "none"
                         /\ v.pc \in {"call", "gone", "failed", "discard"}
  <2>1. CASE up' = [up EXCEPT ![id] = Answered(@, FALSE)]
    <3> DEFINE v == Answered(up[id], FALSE)
    <3>1. up' = [up EXCEPT ![id] = v] /\ v = Answered(up[id], FALSE)
      BY <2>1
    <3> HIDE DEF v
    <3>2. /\ v \in Calls /\ v.at = "none" /\ v.call = up[id].call /\ v.index = up[id].index
          /\ v.pc = up[id].pc \/ v.pc \in {"failed", "discard"}
      BY <1>4, <3>1, AnsweredNo
    <3> QED
      BY <1>5, <3>1, <3>2
  <2>2. CASE up' = [up EXCEPT ![id].at = "write"]
    <3> DEFINE v == [up[id] EXCEPT !.at = "write"]
    <3>1. up' = [up EXCEPT ![id] = v]
      BY <2>2
    <3>2. /\ v \in Calls /\ v.at = "write" /\ v.call = up[id].call /\ v.index = up[id].index
          /\ v.pc = up[id].pc
      BY <1>4 DEF Calls
    <3> HIDE DEF v
    <3> QED
      BY <1>5, <3>1, <3>2
  <2> QED
    BY <1>2, <2>1, <2>2
<1>7. /\ disk' \in [Ids -> Papers]
      /\ \A k \in Ids :
           /\ k \notin S => disk'[k] = disk[k]
           /\ k \in S => disk'[k].bytes = Absent /\ disk'[k].part = Absent /\ disk'[k].side = "none"
  BY <1>2, <1>3, RemovedSays
<1>8. up' \in [Ids -> Calls] /\ up'[id] = v /\ \A k \in Ids : k # id => up'[k] = up[k]
  BY <1>6 DEF StoreInv
<1>9. \A k \in Ids : Fits(up'[k], disk'[k]) /\ (Over(up'[k]) <=> Over(up[k]))
  <2> TAKE k \in Ids
  <2>0. Fits(up[k], disk[k])
    BY UploadType
  <2>1. CASE k = id
    <3>1. k \notin S
      BY <1>3, <1>4, <1>5, <2>1 DEF Listed, Fits
    <3>2. Fits(v, disk[id])
      BY <1>4, <1>5, <1>6 DEF Fits, Over
    <3> QED
      BY <1>5, <1>6, <1>7, <1>8, <2>1, <3>1, <3>2 DEF Over
  <2>2. CASE k # id
    <3>1. Fits(up[k], disk'[k])
      BY <1>7, <2>0 DEF Fits
    <3> QED
      BY <1>8, <2>2, <3>1
  <2> QED
    BY <2>1, <2>2
<1>10. StoreInv'
  BY <1>1, <1>4, <1>7, <1>8, <1>9 DEF StoreInv
<1> DEFINE held == [k \in Held |-> disk[k].made]
           T == S \cap Held
<1>11. \A k \in Ids : /\ Opens(disk'[k]) <=> (Opens(disk[k]) /\ k \notin T)
                      /\ Opens(disk'[k]) => disk'[k].made = disk[k].made
                      /\ Over(up'[k]) <=> Over(up[k])
  BY <1>7, <1>9 DEF Held, Opens
<1>a. T \in SUBSET Held /\ ((removal' # "no") <=> (removal # "no"))
  BY <1>1
<1> HIDE DEF T
<1>12. /\ held' = Promise!Without(T)
       /\ Settled' = Settled /\ (removal # "no")' = (removal # "no")
  BY <1>11, <1>a, Loses
<1>13. \A out \in T, in \in DOMAIN held \ T : held[in] <= held[out]
  <2> TAKE out \in T, in \in DOMAIN held \ T
  <2>1. in \in Held /\ in \notin S /\ out \in Held /\ out \in S
    BY DEF T
  <2>2. in \in Listed(disk) \ S /\ disk[out].side = "whole" /\ in \in Ids /\ out \in Ids
    BY <2>1 DEF Held, Listed
  <2>3. Oldest(disk, out, in)
    BY <1>3, <2>1, <2>2 DEF OldestFirst
  <2>4. disk[in].made <= disk[out].made
    BY <2>2, <2>3 DEF Oldest
  <2> QED
    BY <2>1, <2>4
<1>b. T \in SUBSET DOMAIN held
  BY <1>a
<1>14. Promise!Evict
  BY <1>12, <1>13, <1>b DEF Promise!Evict
<1> QED
  BY <1>10, <1>14 DEF Promise!Next

\* What the sweep leaves of an upload.
LEMMA SweptSays ==
    ASSUME NEW u, NEW f \in Papers, Fits(u, f), NEW g, g = SweptFile(f)
    PROVE  /\ g \in Papers /\ Fits(u, g)
           /\ Opens(g) => Opens(f) /\ g.made = f.made
           /\ Opens(f) /\ ~Opens(g) => f.made >= UPLOAD_TTL
<1> DEFINE kept == IF f.part # Absent /\ Stale(f) THEN WithoutPart(f) ELSE f
           gone == IF kept.side = "whole" THEN ~Lives(kept) ELSE Stale(kept)
           out  == (kept.bytes # Absent \/ kept.side # "none") /\ gone
<1>1. g = IF out THEN [NoFile EXCEPT !.part = kept.part] ELSE kept
  BY DEF SweptFile
<1>2. /\ kept \in Papers /\ kept.bytes = f.bytes /\ kept.side = f.side
      /\ kept.part = f.part \/ kept.part = Absent
      /\ f.bytes # Absent \/ f.side # "none" => kept = f
      /\ kept.part # Absent => kept = f
  <2>1. CASE f.part # Absent /\ Stale(f)
    <3>1. kept = WithoutPart(f) /\ f.bytes = Absent /\ f.side = "none"
      BY <2>1 DEF Fits
    <3> HIDE DEF kept
    <3>2. kept \in Papers /\ kept.part = Absent /\ kept.bytes = f.bytes /\ kept.side = f.side
      BY <3>1, WithoutPartSays
    <3> QED
      BY <3>1, <3>2
  <2>2. CASE ~(f.part # Absent /\ Stale(f))
    <3>1. kept = f
      BY <2>2
    <3> HIDE DEF kept
    <3> QED
      BY <3>1
  <2> QED
    BY <2>1, <2>2
<1>3. gone /\ kept.side = "whole" => ~(kept.made < UPLOAD_TTL)
  BY DEF Lives
<1> HIDE DEF kept, gone
<1>4. Fits(u, kept)
  BY <1>2 DEF Fits, Absent
<1>5. CASE ~out
  <2>1. g = kept
    BY <1>1, <1>5
  <2>2. Opens(kept) <=> Opens(f)
    BY <1>2 DEF Opens
  <2>3. Opens(f) => kept = f
    BY <1>2 DEF Opens
  <2> QED
    BY <1>2, <1>4, <2>1, <2>2, <2>3
<1>6. CASE out
  <2>1. kept.part = Absent
    BY <1>2, <1>4, <1>6 DEF Fits
  <2>2. g = [NoFile EXCEPT !.part = Absent]
    BY <1>1, <1>6, <2>1
  <2>3. g \in Papers /\ g.part = Absent /\ g.bytes = Absent /\ g.side = "none"
    BY <2>2, TtlCounts DEF NoFile, Papers, Absent
  <2>4. Fits(u, g) /\ ~Opens(g)
    BY <2>3, <1>4 DEF Fits, Opens
  <2>5. Opens(f) => f.made >= UPLOAD_TTL
    <3>1. Opens(f) => kept = f /\ kept.side = "whole"
      BY <1>2 DEF Opens
    <3>2. f.made \in Nat /\ UPLOAD_TTL \in Nat
      BY TtlCounts DEF Papers
    <3> QED
      BY <1>3, <1>6, <3>1, <3>2
  <2> QED
    BY <2>3, <2>4, <2>5
<1> QED
  BY <1>5, <1>6

\* The sweep, whole or broken off.
LEMMA SweepKeeps ==
    ASSUME StoreInv, Sweep PROVE StoreInv' /\ Promise!Next
<1>1. UNCHANGED <<gen, up, removal>>
  BY DEF Sweep
<1>2. PICK S \in SUBSET Ids :
        disk' = [id \in Ids |-> IF id \in S THEN SweptFile(disk[id]) ELSE disk[id]]
  <2>1. CASE disk' = [id \in Ids |-> SweptFile(disk[id])]
    <3>1. disk' = [id \in Ids |-> IF id \in Ids THEN SweptFile(disk[id]) ELSE disk[id]]
      BY <2>1
    <3> QED
      BY <3>1
  <2> QED
    BY <2>1 DEF Sweep
<1>3. ASSUME NEW id \in Ids
      PROVE  /\ disk'[id] \in Papers /\ Fits(up[id], disk'[id])
             /\ Opens(disk'[id]) => Opens(disk[id]) /\ disk'[id].made = disk[id].made
             /\ Opens(disk[id]) /\ ~Opens(disk'[id]) => disk[id].made >= UPLOAD_TTL
  <2>1. disk[id] \in Papers /\ Fits(up[id], disk[id])
    BY UploadType
  <2>2. CASE id \in S
    <3>1. disk'[id] = SweptFile(disk[id])
      BY <1>2, <2>2
    <3> QED
      BY <2>1, <3>1, SweptSays
  <2>3. CASE id \notin S
    <3>1. disk'[id] = disk[id]
      BY <1>2, <2>3
    <3> QED
      BY <2>1, <3>1
  <2> QED
    BY <2>2, <2>3
<1>4. disk' \in [Ids -> Papers]
  <2>1. disk' = [id \in Ids |-> disk'[id]]
    BY <1>2
  <2> QED
    BY <1>3, <2>1
<1>5. StoreInv'
  BY <1>1, <1>3, <1>4 DEF StoreInv
<1> DEFINE held == [id \in Held |-> disk[id].made]
           T == {id \in Held : ~Opens(disk'[id])}
<1>6. /\ T \in SUBSET Held
      /\ \A id \in Ids : /\ Opens(disk'[id]) <=> (Opens(disk[id]) /\ id \notin T)
                         /\ Opens(disk'[id]) => disk'[id].made = disk[id].made
                         /\ Over(up'[id]) <=> Over(up[id])
  BY <1>1, <1>3, MapsTo
<1>7. \A id \in T : id \in Held /\ disk[id].made >= UPLOAD_TTL
  BY <1>3, MapsTo
<1> HIDE DEF T
<1>a. (removal' # "no") <=> (removal # "no")
  BY <1>1
<1>8. /\ held' = Promise!Without(T)
      /\ Settled' = Settled /\ (removal # "no")' = (removal # "no")
  BY <1>6, <1>a, Loses
<1>9. T \in SUBSET {id \in DOMAIN held : held[id] >= UPLOAD_TTL}
  BY <1>7
<1>10. Promise!Expire
  BY <1>8, <1>9 DEF Promise!Expire
<1> QED
  BY <1>5, <1>10 DEF Promise!Next

\* The account's removal begins.
LEMMA RemoveAccountKeeps ==
    ASSUME StoreInv, RemoveAccount PROVE StoreInv' /\ Promise!Next
<1>1. UNCHANGED <<disk, up, gen>> /\ removal = "no" /\ removal' = "forget"
  BY DEF RemoveAccount, store
<1>2. StoreInv'
  BY <1>1 DEF StoreInv
<1>3. Held' = Held /\ Settled' = Settled
  BY <1>1 DEF Held, Settled
<1>4. [id \in Held |-> disk[id].made]' = [id \in Held |-> disk[id].made]
  BY <1>1, <1>3
<1>5. ~(removal # "no") /\ (removal # "no")' = TRUE
  BY <1>1
<1>6. Promise!Leave
  BY <1>3, <1>4, <1>5 DEF Promise!Leave
<1> QED
  BY <1>2, <1>6 DEF Promise!Next

\* Its uploads leave.
LEMMA ForgetKeeps ==
    ASSUME StoreInv, ForgetUploads PROVE StoreInv' /\ Promise!Next
<1>1. /\ removal = "forget" /\ removal' = "rows" /\ gen' = 1
      /\ disk' = [id \in Ids |-> NoFile]
      /\ up' = [id \in Ids |-> IF up[id].pc = "wait" THEN [up[id] EXCEPT !.loose = TRUE] ELSE up[id]]
  BY DEF ForgetUploads
<1>2. ASSUME NEW id \in Ids
      PROVE  /\ up'[id] \in Calls /\ up'[id].pc = up[id].pc /\ up'[id].call = up[id].call
             /\ up'[id].at = up[id].at /\ up'[id].index = up[id].index
  <2>1. up[id] \in Calls
    BY UploadType
  <2>2. CASE up[id].pc = "wait"
    <3>1. up'[id] = [up[id] EXCEPT !.loose = TRUE]
      BY <1>1, <2>2
    <3> QED
      BY <2>1, <3>1 DEF Calls
  <2>3. CASE up[id].pc # "wait"
    BY <1>1, <2>1, <2>3
  <2> QED
    BY <2>2, <2>3
<1>3. /\ NoFile \in Papers /\ NoFile.part = Absent /\ NoFile.bytes = Absent /\ NoFile.side = "none"
  BY TtlCounts DEF NoFile, Papers, Absent
<1>4. \A id \in Ids : Fits(up'[id], disk'[id]) /\ (Over(up'[id]) <=> Over(up[id])) /\ ~Opens(disk'[id])
  <2> TAKE id \in Ids
  <2>1. Fits(up[id], disk[id]) /\ disk'[id] = NoFile
    BY <1>1, UploadType
  <2>2. Over(up'[id]) <=> Over(up[id])
    BY <1>2 DEF Over
  <2>3. Fits(up'[id], disk'[id]) /\ ~Opens(disk'[id])
    BY <1>2, <1>3, <2>1 DEF Fits, Opens
  <2> QED
    BY <2>2, <2>3
<1>5. StoreInv'
  <2>1. up' \in [Ids -> Calls] /\ disk' \in [Ids -> Papers] /\ gen' \in Gens
    <3>1. up' = [id \in Ids |-> up'[id]]
      BY <1>1
    <3> QED
      BY <1>1, <1>2, <1>3, <3>1 DEF Gens
  <2> QED
    BY <1>4, <2>1 DEF StoreInv
<1> DEFINE held == [id \in Held |-> disk[id].made]
<1>6. /\ Held \subseteq Ids
      /\ \A id \in Ids : /\ Opens(disk'[id]) <=> (Opens(disk[id]) /\ id \notin Held)
                         /\ Opens(disk'[id]) => disk'[id].made = disk[id].made
                         /\ Over(up'[id]) <=> Over(up[id])
  BY <1>4, MapsTo
<1>a. ((removal' # "no") <=> (removal # "no")) /\ Held \in SUBSET Held
  BY <1>1
<1>7. /\ held' = Promise!Without(Held)
      /\ Settled' = Settled /\ (removal # "no")' = (removal # "no")
  BY <1>6, <1>a, Loses
<1>8. held' = Promise!Without(Ids)
  <2>1. DOMAIN held = Held /\ Held \ Held = Held \ Ids
    BY <1>6
  <2>2. Promise!Without(Held) = Promise!Without(Ids)
    BY <2>1 DEF Promise!Without
  <2> QED
    BY <1>7, <2>2
<1>9. Promise!Forget
  BY <1>1, <1>7, <1>8 DEF Promise!Forget
<1> QED
  BY <1>5, <1>9 DEF Promise!Next

\* Time passes; an upload a client can open carries its stamp.
LEMMA TickKeeps ==
    ASSUME StoreInv, Tick PROVE StoreInv' /\ Promise!Next
<1> DEFINE older(n) == IF n < UPLOAD_TTL THEN n + 1 ELSE n
<1>1. /\ UNCHANGED <<gen, up, removal>>
      /\ disk' = [id \in Ids |->
                    IF ~Stands(disk[id]) THEN disk[id]
                    ELSE [disk[id] EXCEPT !.age = older(disk[id].age),
                                          !.made = IF disk[id].size = 0 THEN disk[id].made
                                                   ELSE older(disk[id].made)]]
  BY DEF Tick
<1>2. ASSUME NEW n \in 0..UPLOAD_TTL PROVE older(n) \in 0..UPLOAD_TTL
  BY TtlCounts
<1>3. ASSUME NEW id \in Ids
      PROVE  /\ disk'[id] \in Papers /\ disk'[id].part = disk[id].part
             /\ disk'[id].bytes = disk[id].bytes /\ disk'[id].side = disk[id].side
             /\ disk'[id].size = disk[id].size
             /\ Opens(disk[id]) => disk'[id].made = older(disk[id].made)
  <2> DEFINE d == disk[id]
             age == older(d.age)
             made == IF d.size = 0 THEN d.made ELSE older(d.made)
  <2>1. d \in Papers /\ Fits(up[id], d)
    BY UploadType
  <2>2. d.age \in 0..UPLOAD_TTL /\ d.made \in 0..UPLOAD_TTL
    BY <2>1 DEF Papers
  <2>3. age \in 0..UPLOAD_TTL /\ made \in 0..UPLOAD_TTL /\ (d.size # 0 => made = older(d.made))
    BY <1>2, <2>2
  <2>4. Opens(d) => d.size # 0 /\ Stands(d)
    BY <2>1 DEF Opens, Fits, Over, Stands
  <2>5. disk'[id] = IF ~Stands(d) THEN d ELSE [d EXCEPT !.age = age, !.made = made]
    BY <1>1
  <2> HIDE DEF older, age, made
  <2>6. CASE ~Stands(d)
    <3>1. disk'[id] = d
      BY <2>5, <2>6
    <3> QED
      BY <2>1, <2>4, <2>6, <3>1
  <2>7. CASE Stands(d)
    <3>1. disk'[id] = [d EXCEPT !.age = age, !.made = made]
      BY <2>5, <2>7
    <3> QED
      BY <2>1, <2>3, <2>4, <3>1 DEF Papers
  <2> QED
    BY <2>6, <2>7
<1>4. \A id \in Ids : Fits(up[id], disk'[id]) /\ (Opens(disk'[id]) <=> Opens(disk[id]))
  <2> TAKE id \in Ids
  <2>1. Fits(up[id], disk[id])
    BY UploadType
  <2> HIDE DEF older
  <2>2. Fits(up[id], disk'[id])
    BY <1>3, <2>1 DEF Fits
  <2>3. Opens(disk'[id]) <=> Opens(disk[id])
    BY <1>3 DEF Opens
  <2> QED
    BY <2>2, <2>3
<1>5. StoreInv'
  <2>1. disk' = [id \in Ids |-> disk'[id]]
    BY <1>1
  <2>2. disk' \in [Ids -> Papers]
    BY <1>3, <2>1
  <2> QED
    BY <1>1, <1>4, <2>2 DEF StoreInv
<1> DEFINE held == [id \in Held |-> disk[id].made]
<1>6. Held' = Held /\ Settled' = Settled /\ Held \subseteq Ids /\ (removal # "no")' = (removal # "no")
  BY <1>1, <1>4 DEF Held, Settled, Opens, Over
<1>7. \A id \in Held : disk'[id].made = older(disk[id].made)
  BY <1>3, MapsTo
<1>8. held' = [id \in DOMAIN held |-> IF held[id] < UPLOAD_TTL THEN held[id] + 1 ELSE held[id]]
  BY <1>6, <1>7
<1>9. Promise!Older
  BY <1>6, <1>8 DEF Promise!Older
<1> QED
  BY <1>5, <1>9 DEF Promise!Next

\* The process ends: what was not decided is refused, torn sidecars open
\* nothing.
LEMMA RestartKeeps ==
    ASSUME StoreInv, Restart PROVE StoreInv' /\ Promise!Next
<1>1. /\ gen' = 0 /\ removal' = IF row THEN "no" ELSE removal
      /\ up' = [id \in Ids |-> IF Active(id) \/ up[id].at # "none" \/ up[id].removing
                               THEN [up[id] EXCEPT !.pc = IF Active(id) THEN "gone" ELSE up[id].pc,
                                                   !.at = "none", !.lock = 0, !.removing = FALSE]
                               ELSE up[id]]
  BY DEF Restart
<1>2. PICK torn \in SUBSET {id \in Ids : up[id].at = "sidecar"} :
        disk' = [id \in Ids |-> IF id \in torn THEN [disk[id] EXCEPT !.side = "torn"] ELSE disk[id]]
  BY DEF Restart
<1>3. ASSUME NEW id \in Ids
      PROVE  /\ up'[id] \in Calls /\ up'[id].call = up[id].call /\ up'[id].at = "none"
             /\ up'[id].index = up[id].index
             /\ up'[id].pc = "gone" \/ (up'[id].pc = up[id].pc /\ ~Active(id))
  <2> DEFINE u == up[id]
             pc == IF Active(id) THEN "gone" ELSE u.pc
             hit == Active(id) \/ u.at # "none" \/ u.removing
  <2>1. u \in Calls /\ u.pc \in {"idle", "wait", "call", "writing", "discard", "send", "done", "failed", "gone"}
    BY UploadType DEF Calls
  <2>2. PICK g \in Gens : g = 0
    BY DEF Gens
  <2>3. up'[id] = IF hit THEN [u EXCEPT !.pc = pc, !.at = "none", !.lock = g, !.removing = FALSE] ELSE u
    BY <1>1, <2>2
  <2>4. /\ pc \in {"idle", "wait", "call", "writing", "discard", "send", "done", "failed", "gone"}
        /\ pc = "gone" \/ (pc = u.pc /\ ~Active(id))
    BY <2>1
  <2>5. ~hit => u.at = "none" /\ ~Active(id)
    OBVIOUS
  <2> HIDE DEF pc, hit
  <2>6. CASE hit
    <3>1. up'[id] = [u EXCEPT !.pc = pc, !.at = "none", !.lock = g, !.removing = FALSE]
      BY <2>3, <2>6
    <3> QED
      BY <2>1, <2>4, <3>1 DEF Calls
  <2>7. CASE ~hit
    BY <2>1, <2>3, <2>5, <2>7
  <2> QED
    BY <2>6, <2>7
<1>4. ASSUME NEW id \in Ids
      PROVE  /\ disk'[id] \in Papers /\ Fits(up'[id], disk'[id])
             /\ Opens(disk'[id]) <=> Opens(disk[id])
             /\ Opens(disk[id]) => disk'[id].made = disk[id].made
             /\ Over(up[id]) => Over(up'[id])
  <2> DEFINE d == disk[id]
             f == disk'[id]
  <2>1. up[id] \in Calls /\ d \in Papers /\ Fits(up[id], d)
    BY UploadType
  <2>2. up'[id].pc \notin {"wait", "send", "writing"}
    BY <1>3 DEF Active
  <2>3. up'[id].pc = "idle" => up[id].call = "begin"
    BY <1>3, <2>1 DEF Fits
  <2>4. Over(up[id]) => Over(up'[id])
    BY <1>3, <2>2 DEF Over
  <2>5. CASE id \notin torn
    <3>1. f = d
      BY <1>2, <2>5
    <3>2. Fits(up'[id], d)
      BY <1>3, <2>1, <2>2, <2>3, <2>4 DEF Fits
    <3> QED
      BY <2>1, <2>4, <3>1, <3>2
  <2>6. CASE id \in torn
    <3>1. f = [d EXCEPT !.side = "torn"] /\ up[id].at = "sidecar"
      BY <1>2, <2>6
    <3>2. /\ f \in Papers /\ f.side = "torn" /\ f.part = d.part /\ f.bytes = d.bytes /\ f.size = d.size
      BY <2>1, <3>1 DEF Papers
    <3>3. d.side # "whole" /\ up[id].call = "complete" /\ d.part = Absent
      BY <2>1, <3>1 DEF Fits, Over
    <3>4. Fits(up'[id], f)
      BY <1>3, <2>1, <2>2, <2>3, <3>2, <3>3 DEF Fits
    <3>5. ~Opens(f) /\ ~Opens(d)
      BY <3>2, <3>3 DEF Opens
    <3> QED
      BY <2>4, <3>2, <3>4, <3>5
  <2> QED
    BY <2>5, <2>6
<1>5. StoreInv'
  <2>1. /\ up' = [id \in Ids |-> up'[id]]
        /\ disk' = [id \in Ids |-> disk'[id]]
        /\ gen' \in Gens
    <3>1. up' = [id \in Ids |-> up'[id]]
      BY <1>1
    <3>2. disk' = [id \in Ids |-> disk'[id]]
      BY <1>2
    <3>3. gen' = 0
      BY <1>1
    <3>4. gen' \in Gens
      BY <3>3 DEF Gens
    <3> QED
      BY <3>1, <3>2, <3>4
  <2>2. up' \in [Ids -> Calls] /\ disk' \in [Ids -> Papers]
    BY <1>3, <1>4, <2>1
  <2> QED
    BY <1>4, <2>1, <2>2 DEF StoreInv
<1>6. CASE ~row
  <2>1. (removal' # "no") <=> (removal # "no")
    BY <1>1, <1>6
  <2>2. Promise!Next
    BY <1>4, <2>1, Decides
  <2> QED
    BY <1>5, <2>2
<1>7. CASE row
  <2>1. (removal # "no")' = FALSE
    BY <1>1, <1>7
  <2>2. Held' = Held /\ Settled \subseteq Settled' /\ Settled' \subseteq Ids
    BY <1>4 DEF Held, Settled, Opens, Over
  <2>3. [id \in Held |-> disk[id].made]' = [id \in Held |-> disk[id].made]
    BY <1>4, <2>2, MapsTo
  <2>4. Settled' = Settled \cup (Settled' \ Settled) /\ Settled' \ Settled \in SUBSET (Ids \ Settled)
    BY <2>2
  <2>5. Promise!Restart
    BY <2>1, <2>3, <2>4 DEF Promise!Restart
  <2> QED
    BY <1>5, <2>5 DEF Promise!Next
<1> QED
  BY <1>6, <1>7

-----------------------------------------------------------------------------
(* The whole *)

\* Every step keeps the invariant and is one of the promise.
LEMMA StepKeeps ==
    ASSUME StoreInv, [Next]_vars PROVE StoreInv' /\ [Promise!Next]_(Promise!vars)
<1>1. ASSUME NEW id \in Ids, Stored(id) PROVE StoreInv' /\ Promise!Next
  BY <1>1, UploadKeeps, TakeLockKeeps, MakeRoomKeeps, WriteFileKeeps, RenamePartKeeps,
     WriteSidecarKeeps, CallFailsKeeps, WritingKeeps, DropKeeps, DiscardKeeps DEF Stored
<1>2. ASSUME NEW id \in Ids, Forwarded(id) PROVE StoreInv' /\ Promise!Next
  BY <1>2, ForwardedKeeps
<1>3. CASE Sweep \/ RemoveAccount \/ ForgetUploads \/ Tick \/ Restart
  BY <1>3, SweepKeeps, RemoveAccountKeeps, ForgetKeeps, TickKeeps, RestartKeeps
<1>4. CASE RemoveRows
  <2>1. UNCHANGED <<disk, up, gen>> /\ ((removal' # "no") <=> (removal # "no"))
    BY <1>4 DEF RemoveRows, store
  <2> QED
    BY <2>1, Still
<1>5. CASE Downloading \/ MailLeaves
  <2>1. UNCHANGED <<disk, up, gen, removal>>
    BY <1>5 DEF Downloading, Download, OpenFile, FirstWindow, NextBlock, NextWindow, UpstreamChunk,
                Flow, Stalls, MailLeaves, apart, store
  <2> QED
    BY <2>1, Still
<1>6. CASE UNCHANGED vars
  <2>1. UNCHANGED <<disk, up, gen, removal>>
    BY <1>6 DEF vars, store
  <2>2. StoreInv'
    BY <2>1 DEF StoreInv
  <2>3. UNCHANGED Promise!vars
    BY <2>1 DEF Promise!vars, Held, Settled
  <2> QED
    BY <2>2, <2>3
<1> QED
  BY <1>1, <1>2, <1>3, <1>4, <1>5, <1>6 DEF Next

\* What an earlier request left is settled and held.
LEMMA InitHolds ==
    ASSUME Init PROVE StoreInv /\ Promise!Init
<1>1. gen \in Gens /\ removal = "no"
  BY DEF Init, Gens
<1>2. PICK before \in SUBSET Ids : StoredBefore(before)
  BY DEF Init
<1>3. up = [id \in Ids |-> IF id \in before
                           THEN [NoUpload EXCEPT !.pc = "done", !.call = "complete", !.index = 1]
                           ELSE NoUpload]
  BY <1>2 DEF StoredBefore
<1>4. PICK age \in [before -> 0..UPLOAD_TTL] :
        disk = [id \in Ids |-> IF id \in before
                              THEN [NoFile EXCEPT !.bytes = 1, !.side = "whole", !.size = 1,
                                                  !.age = age[id], !.made = age[id]]
                              ELSE NoFile]
  BY <1>2 DEF StoredBefore
<1>5. ASSUME NEW id \in Ids
      PROVE  /\ up[id] \in Calls /\ disk[id] \in Papers /\ Fits(up[id], disk[id])
             /\ id \in before => Over(up[id]) /\ Opens(disk[id]) /\ disk[id].made \in 0..UPLOAD_TTL
             /\ id \notin before => ~Over(up[id]) /\ ~Opens(disk[id])
  <2>0. PICK g \in Gens : g = 0
    BY DEF Gens
  <2>1. CASE id \in before
    <3>1. /\ up[id].pc = "done" /\ up[id].call = "complete" /\ up[id].index = 1 /\ up[id].at = "none"
          /\ up[id] \in Calls
      BY <1>3, <2>0, <2>1 DEF NoUpload, Calls
    <3>2. age[id] \in 0..UPLOAD_TTL
      BY <2>1
    <3>3. /\ disk[id].part = Absent /\ disk[id].bytes = 1 /\ disk[id].side = "whole" /\ disk[id].size = 1
          /\ disk[id].made = age[id] /\ disk[id] \in Papers
      <4>1. disk[id] = [NoFile EXCEPT !.bytes = 1, !.side = "whole", !.size = 1,
                                      !.age = age[id], !.made = age[id]]
        BY <1>4, <2>1
      <4>2. NoFile \in Papers /\ NoFile.part = Absent
        BY TtlCounts DEF NoFile, Papers, Absent
      <4>3. PICK a \in 0..UPLOAD_TTL : a = age[id]
        BY <3>2
      <4>4. PICK n \in Nat : n = 1
        OBVIOUS
      <4>5. PICK none \in Papers : none = NoFile /\ none.part = Absent
        BY <4>2
      <4>6. disk[id] = [none EXCEPT !.bytes = n, !.side = "whole", !.size = n, !.age = a, !.made = a]
        BY <4>1, <4>3, <4>4, <4>5
      <4>7. /\ disk[id].part = none.part /\ disk[id].bytes = n /\ disk[id].side = "whole"
            /\ disk[id].size = n /\ disk[id].made = a
        BY <4>5, <4>6 DEF Papers
      <4>8. n \in Int /\ n \in Nat /\ "whole" \in {"none", "torn", "whole"} /\ a \in 0..UPLOAD_TTL
        OBVIOUS
      <4>9. disk[id] \in Papers
        BY <4>5, <4>6, <4>8 DEF Papers
      <4> QED
        BY <4>3, <4>4, <4>5, <4>7, <4>9
    <3>4. Over(up[id]) /\ Opens(disk[id])
      BY <3>1, <3>3 DEF Over, Opens, Absent
    <3>5. Fits(up[id], disk[id])
      BY <3>1, <3>3, <3>4 DEF Fits
    <3> QED
      BY <2>1, <3>1, <3>2, <3>3, <3>4, <3>5
  <2>2. CASE id \notin before
    <3>1. /\ up[id].pc = "idle" /\ up[id].call = "begin" /\ up[id].at = "none" /\ up[id] \in Calls
      BY <1>3, <2>0, <2>2 DEF NoUpload, Calls
    <3>2. /\ disk[id].part = Absent /\ disk[id].bytes = Absent /\ disk[id].side = "none"
          /\ disk[id] \in Papers
      <4>1. disk[id] = NoFile
        BY <1>4, <2>2
      <4> QED
        BY <4>1, TtlCounts DEF NoFile, Papers, Absent
    <3>3. ~Over(up[id]) /\ ~Opens(disk[id])
      BY <3>1, <3>2 DEF Over, Opens
    <3>4. Fits(up[id], disk[id])
      BY <3>1, <3>2 DEF Fits
    <3> QED
      BY <2>2, <3>1, <3>2, <3>3, <3>4
  <2> QED
    BY <2>1, <2>2
<1>6. StoreInv
  <2>1. up = [id \in Ids |-> up[id]] /\ disk = [id \in Ids |-> disk[id]]
    BY <1>3, <1>4
  <2>2. up \in [Ids -> Calls] /\ disk \in [Ids -> Papers]
    BY <1>5, <2>1
  <2> QED
    BY <1>1, <1>5, <2>2 DEF StoreInv
<1>7. Held = before /\ Settled = before
  BY <1>5, MapsTo
<1>8. [id \in Held |-> disk[id].made] \in [Settled -> 0..UPLOAD_TTL]
  BY <1>5, <1>7
<1>9. Promise!Init
  BY <1>1, <1>7, <1>8 DEF Promise!Init
<1> QED
  BY <1>6, <1>9

\* The directory of an account's uploads is the store a client is promised:
\* an upload is kept once and whole from the moment its sidecar is written,
\* and leaves only to age, to room taken from the oldest first or with the
\* account, whatever its callers, the sweep, a failed file call or the end
\* of the process do between two steps of a call.
THEOREM KeptAsPromised == Spec => KeepsItsPromise
<1>1. Init => StoreInv /\ Promise!Init
  BY InitHolds
<1>2. StoreInv /\ [Next]_vars => StoreInv' /\ [Promise!Next]_(Promise!vars)
  BY StepKeeps
<1> QED
  BY <1>1, <1>2, PTL DEF Spec, KeepsItsPromise, Promise!Spec

-----------------------------------------------------------------------------
(* How streams end *)

\* Only the call of an upload itself moves it.
LEMMA OthersStay ==
    ASSUME StoreInv, NEW id \in Ids, NEW k \in Ids, k # id, Stored(k) \/ Forwarded(k)
    PROVE  up'[id] = up[id]
<1>1. CASE Stored(k)
  BY <1>1 DEF Stored, Upload, TakeLock, MakeRoom, WriteFile, RenamePart, WriteSidecar, CallFails,
              Push, Finish, Abandon, Drop, Discard, Returns, StoreInv
<1>2. CASE Forwarded(k)
  BY <1>2 DEF Forwarded, Pump, PumpCut, PumpFails, ReadChunk, Upstream, Judged, StoreInv
<1> QED
  BY <1>1, <1>2

\* An upload that is decided keeps its octets' count.
LEMMA IndexStays ==
    ASSUME StoreInv, [Next]_vars, NEW id \in Ids, Over(up[id])
    PROVE  Over(up'[id]) /\ up'[id].index = up[id].index
<1>0. up[id] \in Calls /\ Fits(up[id], disk[id])
  BY UploadType
<1>1. up[id].at = "none" /\ up[id].call = "complete" /\ up[id].pc \notin {"wait", "writing", "idle", "send"}
  BY <1>0 DEF Over, Fits
<1>2. ASSUME NEW k \in Ids, Stored(k) \/ Forwarded(k)
      PROVE  Over(up'[id]) /\ up'[id].index = up[id].index
  <2>1. CASE k # id
    BY <1>2, <2>1, OthersStay
  <2>2. CASE k = id
    <3>1. Drop(id) \/ Discard(id)
      BY <1>1, <1>2, <2>2 DEF Stored, Forwarded, Upload, TakeLock, MakeRoom, WriteFile, RenamePart,
         WriteSidecar, CallFails, Push, Finish, Abandon, Pump, PumpCut, PumpFails, ReadChunk, Upstream,
         Judged, Pumping
    <3>2. CASE Drop(id)
      <4> DEFINE r == up[id].removing \/ up[id].call # "begin"
                 l == up[id].loose \/ up[id].at # "none"
                 u == [up[id] EXCEPT !.pc = "gone", !.removing = r, !.loose = l]
      <4>1. up' = [up EXCEPT ![id] = u]
        BY <3>2 DEF Drop
      <4> HIDE DEF r, l
      <4>2. u.pc = "gone" /\ u.call = up[id].call /\ u.at = up[id].at /\ u.index = up[id].index
        BY <1>0 DEF Calls
      <4> HIDE DEF u
      <4>3. up'[id] = u
        BY <4>1 DEF StoreInv
      <4> QED
        BY <1>1, <4>2, <4>3 DEF Over
    <3>3. CASE Discard(id)
      <4> DEFINE pc == IF up[id].pc = "discard" THEN "failed" ELSE up[id].pc
                 u == [up[id] EXCEPT !.removing = FALSE, !.pc = pc]
      <4>1. up' = [up EXCEPT ![id] = u]
        BY <3>3 DEF Discard
      <4>2. pc # "wait"
        BY <1>1
      <4> HIDE DEF pc
      <4>3. u.pc = pc /\ u.call = up[id].call /\ u.at = up[id].at /\ u.index = up[id].index
        BY <1>0 DEF Calls
      <4> HIDE DEF u
      <4>4. up'[id] = u
        BY <4>1 DEF StoreInv
      <4> QED
        BY <1>1, <4>2, <4>3, <4>4 DEF Over
    <3> QED
      BY <3>1, <3>2, <3>3
  <2> QED
    BY <2>1, <2>2
<1>3. CASE ForgetUploads
  <2>1. up'[id] = up[id]
    BY <1>1, <1>3 DEF ForgetUploads
  <2> QED
    BY <2>1
<1>4. CASE Restart
  <2> DEFINE pc == IF Active(id) THEN "gone" ELSE up[id].pc
  <2>1. up'[id] = up[id] \/ up'[id] = [up[id] EXCEPT !.pc = pc, !.at = "none", !.lock = 0, !.removing = FALSE]
    BY <1>4 DEF Restart
  <2>2. pc # "wait"
    BY <1>1
  <2> HIDE DEF pc
  <2>3. CASE up'[id] = [up[id] EXCEPT !.pc = pc, !.at = "none", !.lock = 0, !.removing = FALSE]
    <3>1. up'[id].pc = pc /\ up'[id].call = up[id].call /\ up'[id].at = "none" /\ up'[id].index = up[id].index
      BY <1>0, <2>3 DEF Calls
    <3> QED
      BY <1>1, <2>2, <3>1 DEF Over
  <2> QED
    BY <2>1, <2>3
<1>5. CASE \/ Sweep \/ RemoveAccount \/ RemoveRows \/ Tick \/ Downloading \/ MailLeaves \/ UNCHANGED vars
  <2>1. up' = up
    BY <1>5 DEF Sweep, RemoveAccount, RemoveRows, Tick, Downloading, Download, OpenFile, FirstWindow,
       NextBlock, NextWindow, UpstreamChunk, Flow, Stalls, MailLeaves, apart, store, vars
  <2> QED
    BY <2>1
<1> QED
  BY <1>2, <1>3, <1>4, <1>5 DEF Next

\* The smaller of two counts.
LEMMA MinOfTwo ==
    ASSUME NEW a \in Int, NEW b \in Int
    PROVE  Min({a, b}) = IF a <= b THEN a ELSE b
<1> DEFINE m == IF a <= b THEN a ELSE b
<1>1. m \in {a, b} /\ \A y \in {a, b} : m <= y
  OBVIOUS
<1>2. \A x \in {a, b} : (\A y \in {a, b} : x <= y) => x = m
  OBVIOUS
<1> HIDE DEF m
<1>3. Min({a, b}) = CHOOSE x \in {a, b} : \A y \in {a, b} : x <= y
  BY DEF Min
<1> QED
  BY <1>1, <1>2, <1>3 DEF m

\* A window carries what is left, or is full and not the last.
LEMMA WindowSays ==
    ASSUME NEW size \in Nat, NEW offset \in Nat, offset <= size
    PROVE  /\ Window(size, offset) \in Nat /\ offset + Window(size, offset) <= size
           /\ LastWindow(size, offset) => offset + Window(size, offset) = size
<1>1. BODY_WINDOW_BYTES \in Nat
  BY BlobsAssumption
<1>2. Window(size, offset) = IF BODY_WINDOW_BYTES <= size - offset THEN BODY_WINDOW_BYTES ELSE size - offset
  BY <1>1, MinOfTwo DEF Window
<1> QED
  BY <1>1, <1>2 DEF LastWindow

Downs == [pc : {"idle", "file", "first", "flow", "whole", "broken", "refused", "left"},
          blob : Ids \cup {Mail}, size : Nat, read : Nat, queued : Nat,
          close : {"open", "end", "error"}, got : Nat, cut : Int, linked : BOOLEAN]

Ways == [pump : {"run", "cut", "over"}, queued : Int, failed : BOOLEAN, cut : BOOLEAN,
         sent : {"no", "created", "unauthorized", "too large", "too many", "server error", "unreachable"}]

\* What was read of a blob is what the browser got and what waits for it;
\* an end is told behind the last octet, a range lies inside the blob.
Streams(d) ==
  /\ d.pc = "file" => d.blob \in Ids
  /\ d.pc = "first" => d.blob \notin Ids
  /\ d.pc \in {"idle", "file", "first"} => d.read = 0 /\ d.queued = 0 /\ d.got = 0 /\ d.close = "open"
  /\ d.pc \in {"file", "first", "flow"} =>
       /\ d.read = d.got + d.queued /\ d.read <= d.size
       /\ d.close = "end" => d.read = d.size
       /\ d.cut # Absent => d.got <= d.cut /\ d.cut < d.size
  /\ d.pc \in {"first", "flow"} /\ d.close = "open" /\ (d.blob \in Ids \/ kind = "jmap") => d.read < d.size
  /\ d.pc = "whole" => d.got = IF d.cut # Absent THEN d.cut ELSE d.size

\* The length a stream works with is the length of its blob.
Measured(d) ==
  d.pc \in {"file", "first", "flow", "whole"} =>
    IF d.blob \in Ids THEN Over(up[d.blob]) /\ d.size = up[d.blob].index ELSE d.size = mail.size

\* A forwarded upload fails under its upstream only where it was cut.
Blames(f, b) == (f.pump = "cut" => f.cut) /\ (f.failed => f.cut) /\ (b = "client" => f.cut)

StreamInv ==
  /\ StoreInv /\ down \in Downs /\ mail \in [size : Nat \ {0}, there : BOOLEAN]
  /\ Streams(down) /\ Measured(down)

BlameInv ==
  /\ forward \in [Ids -> Ways] /\ blame \in [Ids -> {"none", "upstream", "client"}]
  /\ \A id \in Ids : Blames(forward[id], blame[id])

\* A download that is over, one way or the other.
LEMMA Closed ==
    ASSUME NEW pc \in {"broken", "refused", "left"}, NEW d, d = [NoDownload EXCEPT !.pc = pc]
    PROVE  d \in Downs /\ Streams(d) /\ Measured(d)
<1>a. Absent \in Int /\ Mail \in Ids \cup {Mail} /\ 0 \in Nat
  BY DEF Absent
<1>b. NoDownload \in Downs
  BY <1>a DEF NoDownload, Downs
<1>1. PICK none \in Downs : none = NoDownload
  BY <1>b
<1>2. d = [none EXCEPT !.pc = pc]
  BY <1>1
<1>3. d \in Downs /\ d.pc = pc
  BY <1>2 DEF Downs
<1> QED
  BY <1>3 DEF Streams, Measured

\* The blob a download started on keeps its length under every step.
LEMMA MeasuredStays ==
    ASSUME StreamInv, [Next]_vars, NEW d \in Downs, Measured(d), mail'.size = mail.size
    PROVE  d.pc \in {"file", "first", "flow", "whole"} =>
             IF d.blob \in Ids THEN Over(up'[d.blob]) /\ d.size = up'[d.blob].index ELSE d.size = mail'.size
<1>1. StoreInv
  BY DEF StreamInv
<1>2. d.blob \in Ids /\ Over(up[d.blob]) => Over(up'[d.blob]) /\ up'[d.blob].index = up[d.blob].index
  BY <1>1, IndexStays
<1> QED
  BY <1>2 DEF Measured

\* Steps that leave the download alone but for its account, or end it.
LEMMA DownStays ==
    ASSUME StreamInv, [Next]_vars, kind' = kind, mail' \in [size : Nat \ {0}, there : BOOLEAN],
           mail'.size = mail.size,
           down' \in {down, [down EXCEPT !.linked = FALSE], [NoDownload EXCEPT !.pc = "broken"]}
    PROVE  StreamInv'
<1>1. StoreInv'
  BY StepKeeps DEF StreamInv
<1>2. down \in Downs /\ Streams(down) /\ Measured(down)
  BY DEF StreamInv
<1>3. down' \in Downs /\ Streams(down') /\ Measured(down')
  <2>1. CASE down' = down
    BY <1>2, <2>1
  <2>2. CASE down' = [down EXCEPT !.linked = FALSE]
    <3>1. /\ down' \in Downs /\ down'.pc = down.pc /\ down'.blob = down.blob /\ down'.size = down.size
          /\ down'.read = down.read /\ down'.queued = down.queued /\ down'.close = down.close
          /\ down'.got = down.got /\ down'.cut = down.cut
      BY <1>2, <2>2 DEF Downs
    <3>2. Streams(down')
      BY <1>2, <3>1 DEF Streams
    <3>3. Measured(down')
      BY <1>2, <3>1 DEF Measured
    <3> QED
      BY <3>1, <3>2, <3>3
  <2>3. CASE down' = [NoDownload EXCEPT !.pc = "broken"]
    BY <2>3, Closed
  <2> QED
    BY <2>1, <2>2, <2>3
<1>4. Streams(down)' /\ Measured(down)'
  <2>1. down'.pc \in {"file", "first", "flow", "whole"} =>
          IF down'.blob \in Ids THEN Over(up'[down'.blob]) /\ down'.size = up'[down'.blob].index
          ELSE down'.size = mail'.size
    BY <1>3, MeasuredStays
  <2> QED
    BY <1>3, <2>1 DEF Streams, Measured
<1> QED
  BY <1>1, <1>3, <1>4 DEF StreamInv

\* A step of the download's own.
LEMMA DownMoves ==
    ASSUME StreamInv, UNCHANGED apart, down' \in Downs, Streams(down'), Measured(down')
    PROVE  StreamInv'
<1>1. UNCHANGED <<kind, mail, disk, gen, up>>
  BY DEF apart, store
<1>2. StoreInv'
  BY <1>1 DEF StreamInv, StoreInv
<1>3. Streams(down)' /\ Measured(down)'
  BY <1>1 DEF Streams, Measured
<1> QED
  BY <1>1, <1>2, <1>3 DEF StreamInv

\* The ways a download ends.
LEMMA EndsKeeps ==
    ASSUME StreamInv, UNCHANGED apart, NEW step \in {"broken", "refused", "left"}, Ends(step)
    PROVE  StreamInv'
<1>1. down' = [NoDownload EXCEPT !.pc = step]
  BY DEF Ends
<1> QED
  BY <1>1, Closed, DownMoves

\* A download that ends without an error.
LEMMA WholeKeeps ==
    ASSUME StreamInv, UNCHANGED apart, Ends("whole"), down.pc = "flow",
           down.got = IF down.cut # Absent THEN down.cut ELSE down.size
    PROVE  StreamInv'
<1>1. down' = [down EXCEPT !.pc = "whole"] /\ down \in Downs /\ Measured(down)
  BY DEF Ends, StreamInv
<1>2. /\ down' \in Downs /\ down'.pc = "whole" /\ down'.blob = down.blob /\ down'.size = down.size
      /\ down'.got = down.got /\ down'.cut = down.cut
  BY <1>1 DEF Downs
<1>3. Streams(down') /\ Measured(down')
  BY <1>1, <1>2 DEF Streams, Measured
<1> QED
  BY <1>2, <1>3, DownMoves

\* The route.
LEMMA DownloadKeeps ==
    ASSUME StreamInv, NEW blob \in Ids \cup {Mail}, NEW end \in {Absent, 0}, Download(blob, end)
    PROVE  StreamInv'
<1> DEFINE upload == blob \in Ids
           there  == IF upload THEN Opened(blob) ELSE Placed
           size   == IF upload THEN disk[blob].size ELSE mail.size
           pc     == IF upload THEN "file" ELSE "first"
           cut    == RangeCut(Declared(size), end)
<1>1. /\ down.pc = "idle" /\ UNCHANGED apart
      /\ IF ~there \/ size > BLOB_DOWNLOAD_LIMIT THEN Ends("refused")
         ELSE down' = [down EXCEPT !.pc = pc, !.blob = blob, !.size = size, !.linked = TRUE, !.cut = cut]
  BY DEF Download
<1>2. CASE Ends("refused")
  BY <1>1, <1>2, EndsKeeps
<1>3. CASE there /\ down' = [down EXCEPT !.pc = pc, !.blob = blob, !.size = size, !.linked = TRUE, !.cut = cut]
  <2>1. StoreInv /\ down \in Downs /\ mail.size \in Nat /\ mail.size # 0
    BY DEF StreamInv
  <2>2. size \in Nat /\ (upload => Over(up[blob]) /\ size = up[blob].index) /\ (~upload => size = mail.size)
    <3>1. CASE upload
      <4>1. disk[blob].side = "whole" /\ disk[blob] \in Papers /\ Fits(up[blob], disk[blob])
        BY <1>3, <2>1, <3>1, UploadType DEF Opened
      <4> QED
        BY <3>1, <4>1 DEF Papers, Fits
    <3> QED
      BY <2>1, <3>1
  <2>3. cut \in Int /\ (cut # Absent => 0 <= cut /\ cut < size)
    BY <2>2 DEF RangeCut, Declared, Absent
  <2>4. pc \in {"file", "first"} /\ (pc = "file" <=> upload)
    OBVIOUS
  <2> HIDE DEF cut, size, pc, there
  <2>5. /\ down' \in Downs /\ down'.pc = pc /\ down'.blob = blob /\ down'.size = size /\ down'.cut = cut
        /\ down'.read = down.read /\ down'.queued = down.queued /\ down'.close = down.close
        /\ down'.got = down.got
    BY <1>3, <2>1, <2>2, <2>3, <2>4 DEF Downs
  <2>6. down.read = 0 /\ down.queued = 0 /\ down.close = "open" /\ down.got = 0
    BY <1>1 DEF StreamInv, Streams
  <2>7. Streams(down')
    BY <2>1, <2>2, <2>3, <2>4, <2>5, <2>6 DEF Streams
  <2>8. Measured(down')
    BY <2>2, <2>5 DEF Measured
  <2> QED
    BY <1>1, <2>5, <2>7, <2>8, DownMoves
<1> QED
  BY <1>1, <1>2, <1>3

\* The upload's file opened behind its sidecar.
LEMMA OpenFileKeeps ==
    ASSUME StreamInv, OpenFile PROVE StreamInv'
<1>1. down.pc = "file" /\ UNCHANGED apart
  BY DEF OpenFile
<1>2. CASE Ends("refused")
  BY <1>1, <1>2, EndsKeeps
<1> DEFINE close == IF down.size = 1 THEN "end" ELSE "open"
<1>3. CASE /\ disk[down.blob].bytes = down.size
           /\ down' = [down EXCEPT !.pc = "flow", !.read = 1, !.queued = 1, !.close = close]
  <2>1. StoreInv /\ down \in Downs /\ Streams(down) /\ Measured(down)
    BY DEF StreamInv
  <2>2. down.blob \in Ids /\ Over(up[down.blob]) /\ down.size = up[down.blob].index /\ down.size \in Nat
    BY <1>1, <2>1 DEF Streams, Measured, Downs
  <2>3. down.size # 0
    <3>1. Fits(up[down.blob], disk[down.blob]) /\ disk[down.blob].bytes # Absent
      BY <1>3, <2>1, <2>2, UploadType DEF Absent
    <3> QED
      BY <2>2, <3>1 DEF Fits, Over
  <2>4. close \in {"end", "open"} /\ (close = "end" <=> down.size = 1)
    OBVIOUS
  <2> HIDE DEF close
  <2>5. PICK n \in Nat : n = 1
    OBVIOUS
  <2>6. down' = [down EXCEPT !.pc = "flow", !.read = n, !.queued = n, !.close = close]
    BY <1>3, <2>5
  <2>7. /\ down' \in Downs /\ down'.pc = "flow" /\ down'.blob = down.blob /\ down'.size = down.size
        /\ down'.read = n /\ down'.queued = n /\ down'.close = close
        /\ down'.got = down.got /\ down'.cut = down.cut
    BY <2>1, <2>4, <2>6 DEF Downs
  <2>8. Streams(down')
    BY <1>1, <2>1, <2>2, <2>3, <2>4, <2>5, <2>7 DEF Streams
  <2>9. Measured(down')
    BY <2>2, <2>7 DEF Measured
  <2> QED
    BY <1>1, <2>7, <2>8, <2>9, DownMoves
<1> QED
  BY <1>2, <1>3 DEF OpenFile

\* More of the blob is read, to its end or not.
LEMMA ReadKeeps ==
    ASSUME StreamInv, UNCHANGED apart, down.pc \in {"first", "flow"}, down.close = "open",
           NEW n \in Nat, NEW close \in {"end", "open"}, down.read + n <= down.size,
           close = "end" => down.read + n = down.size,
           close = "open" /\ (down.blob \in Ids \/ kind = "jmap") => down.read + n < down.size,
           NEW r, r = down.read + n, NEW q, q = down.queued + n,
           down' = [down EXCEPT !.pc = "flow", !.read = r, !.queued = q, !.close = close]
    PROVE  StreamInv'
<1>1. down \in Downs /\ Streams(down) /\ Measured(down)
  BY DEF StreamInv
<1>2. r \in Nat /\ q \in Nat /\ down.read \in Nat /\ down.queued \in Nat /\ down.got \in Nat /\ down.size \in Nat
  BY <1>1 DEF Downs
<1>3. /\ down' \in Downs /\ down'.pc = "flow" /\ down'.blob = down.blob /\ down'.size = down.size
      /\ down'.read = r /\ down'.queued = q /\ down'.close = close
      /\ down'.got = down.got /\ down'.cut = down.cut
  BY <1>1, <1>2 DEF Downs
<1>4. down.read = down.got + down.queued /\ (down.cut # Absent => down.got <= down.cut /\ down.cut < down.size)
  BY <1>1 DEF Streams
<1>5. r = down.got + q /\ r <= down.size
  BY <1>2, <1>4
<1>6. Streams(down')
  BY <1>3, <1>4, <1>5 DEF Streams
<1>7. Measured(down')
  BY <1>1, <1>3 DEF Measured
<1> QED
  BY <1>3, <1>6, <1>7, DownMoves

\* The body stops with an error.
LEMMA ErrorKeeps ==
    ASSUME StreamInv, UNCHANGED apart, down.pc = "flow", down' = [down EXCEPT !.close = "error"]
    PROVE  StreamInv'
<1>1. down \in Downs /\ Streams(down) /\ Measured(down)
  BY DEF StreamInv
<1>2. /\ down' \in Downs /\ down'.pc = "flow" /\ down'.blob = down.blob /\ down'.size = down.size
      /\ down'.read = down.read /\ down'.queued = down.queued /\ down'.close = "error"
      /\ down'.got = down.got /\ down'.cut = down.cut
  BY <1>1 DEF Downs
<1>3. Streams(down') /\ Measured(down')
  BY <1>1, <1>2 DEF Streams, Measured
<1> QED
  BY <1>2, <1>3, DownMoves

\* The first window of a message.
LEMMA FirstWindowKeeps ==
    ASSUME StreamInv, FirstWindow PROVE StreamInv'
<1> DEFINE n == Window(mail.size, 0)
           close == IF LastWindow(mail.size, 0) THEN "end" ELSE "open"
<1>1. down.pc = "first" /\ kind = "imap" /\ UNCHANGED apart
  BY DEF FirstWindow
<1>2. CASE Ends("refused")
  BY <1>1, <1>2, EndsKeeps
<1>3. CASE down' = [down EXCEPT !.pc = "flow", !.read = n, !.queued = n, !.close = close]
  <2>1. down \in Downs /\ Streams(down) /\ Measured(down) /\ mail.size \in Nat /\ mail.size # 0
    BY DEF StreamInv
  <2>2. /\ down.blob \notin Ids /\ down.size = mail.size /\ down.read = 0 /\ down.queued = 0
        /\ down.close = "open"
    BY <1>1, <2>1 DEF Streams, Measured
  <2>3. n \in Nat /\ 0 + n <= mail.size /\ (LastWindow(mail.size, 0) => 0 + n = mail.size)
    BY <2>1, WindowSays
  <2>4. close \in {"end", "open"} /\ (close = "end" => LastWindow(mail.size, 0))
    OBVIOUS
  <2> HIDE DEF n, close
  <2>5. /\ down.read + n <= down.size /\ (close = "end" => down.read + n = down.size)
        /\ n = down.read + n /\ n = down.queued + n
    BY <2>2, <2>3, <2>4
  <2>6. ~(down.blob \in Ids \/ kind = "jmap")
    BY <1>1, <2>2
  <2> QED
    BY <1>1, <1>3, <2>2, <2>3, <2>4, <2>5, <2>6, ReadKeeps
<1> QED
  BY <1>2, <1>3 DEF FirstWindow

\* The next block of the file, or the next chunk of a native upstream.
LEMMA OneMoreKeeps ==
    ASSUME StreamInv, UNCHANGED apart, down.pc \in {"first", "flow"}, down.close = "open",
           down.blob \in Ids \/ kind = "jmap", NEW r, r = down.read + 1, NEW q, q = down.queued + 1,
           NEW close \in {"end", "open"}, close = "end" <=> r = down.size,
           down' = [down EXCEPT !.pc = "flow", !.read = r, !.queued = q, !.close = close]
    PROVE  StreamInv'
<1>1. down \in Downs /\ Streams(down)
  BY DEF StreamInv
<1>2. down.read < down.size /\ down.read \in Nat /\ down.size \in Nat
  BY <1>1 DEF Streams, Downs
<1>3. PICK n \in Nat : n = 1
  OBVIOUS
<1>4. /\ down.read + n <= down.size /\ (close = "end" => down.read + n = down.size)
      /\ close = "open" => down.read + n < down.size
      /\ r = down.read + n /\ q = down.queued + n
  BY <1>2, <1>3
<1> QED
  BY <1>4, ReadKeeps

\* The next block of the open file.
LEMMA NextBlockKeeps ==
    ASSUME StreamInv, NextBlock PROVE StreamInv'
<1> DEFINE r == down.read + 1
           q == down.queued + 1
           close == IF r = down.size THEN "end" ELSE "open"
<1>1. /\ down.pc = "flow" /\ down.close = "open" /\ down.blob \in Ids /\ UNCHANGED apart
      /\ down' = [down EXCEPT !.read = r, !.queued = q, !.close = close]
  BY DEF NextBlock
<1>2. down = [down EXCEPT !.pc = "flow"]
  BY <1>1 DEF StreamInv, Downs
<1>3. close \in {"end", "open"} /\ (close = "end" <=> r = down.size) /\ r = down.read + 1 /\ q = down.queued + 1
  OBVIOUS
<1> HIDE DEF r, q, close
<1>4. down' = [down EXCEPT !.pc = "flow", !.read = r, !.queued = q, !.close = close]
  BY <1>1, <1>2
<1> QED
  BY <1>1, <1>3, <1>4, OneMoreKeeps

\* The next window of a message.
LEMMA NextWindowKeeps ==
    ASSUME StreamInv, NextWindow PROVE StreamInv'
<1> DEFINE n == Window(mail.size, down.read)
           r == down.read + n
           q == down.queued + n
           close == IF LastWindow(mail.size, down.read) THEN "end" ELSE "open"
<1>1. down.pc = "flow" /\ down.close = "open" /\ down.blob \notin Ids /\ kind = "imap" /\ UNCHANGED apart
  BY DEF NextWindow
<1>2. CASE down' = [down EXCEPT !.close = "error"]
  BY <1>1, <1>2, ErrorKeeps
<1>3. CASE down' = [down EXCEPT !.read = r, !.queued = q, !.close = close]
  <2>1. down \in Downs /\ Streams(down) /\ Measured(down) /\ mail.size \in Nat
    BY DEF StreamInv
  <2>2. down.size = mail.size /\ down.read <= down.size /\ down.read \in Nat
    BY <1>1, <2>1 DEF Streams, Measured, Downs
  <2>3. /\ n \in Nat /\ down.read + n <= mail.size
        /\ LastWindow(mail.size, down.read) => down.read + n = mail.size
    BY <2>1, <2>2, WindowSays
  <2>4. close \in {"end", "open"} /\ (close = "end" => LastWindow(mail.size, down.read))
    OBVIOUS
  <2> HIDE DEF n, close
  <2>5. /\ down.read + n <= down.size /\ (close = "end" => down.read + n = down.size)
        /\ r = down.read + n /\ q = down.queued + n
    BY <2>2, <2>3, <2>4
  <2> HIDE DEF r, q
  <2>6. ~(down.blob \in Ids \/ kind = "jmap")
    BY <1>1
  <2>7. down = [down EXCEPT !.pc = "flow"]
    BY <1>1, <2>1 DEF Downs
  <2>8. down' = [down EXCEPT !.pc = "flow", !.read = r, !.queued = q, !.close = close]
    BY <1>3, <2>7
  <2> QED
    BY <1>1, <2>3, <2>4, <2>5, <2>6, <2>8, ReadKeeps
<1>4. \/ down' = [down EXCEPT !.close = "error"]
      \/ down' = [down EXCEPT !.read = r, !.queued = q, !.close = close]
  BY DEF NextWindow
<1> QED
  BY <1>2, <1>3, <1>4

\* A native upstream answers.
LEMMA UpstreamChunkKeeps ==
    ASSUME StreamInv, UpstreamChunk PROVE StreamInv'
<1> DEFINE r == down.read + 1
           q == down.queued + 1
           close == IF r = down.size THEN "end" ELSE "open"
<1>1. kind = "jmap" /\ down.pc \in {"first", "flow"} /\ down.close = "open" /\ UNCHANGED apart
  BY DEF UpstreamChunk
<1>2. \/ down' = [down EXCEPT !.pc = "flow", !.read = r, !.queued = q, !.close = close]
      \/ Ends("refused")
      \/ down.pc = "flow" /\ down' = [down EXCEPT !.close = "error"]
  BY <1>1 DEF UpstreamChunk
<1>3. close \in {"end", "open"} /\ (close = "end" <=> r = down.size) /\ r = down.read + 1 /\ q = down.queued + 1
  OBVIOUS
<1> HIDE DEF r, q, close
<1>4. CASE down' = [down EXCEPT !.pc = "flow", !.read = r, !.queued = q, !.close = close]
  BY <1>1, <1>3, <1>4, OneMoreKeeps
<1>5. CASE Ends("refused")
  BY <1>1, <1>5, EndsKeeps
<1>6. CASE down.pc = "flow" /\ down' = [down EXCEPT !.close = "error"]
  BY <1>1, <1>6, ErrorKeeps
<1> QED
  BY <1>2, <1>4, <1>5, <1>6

\* One step of the body on its way to the browser.
LEMMA FlowKeeps ==
    ASSUME StreamInv, Flow PROVE StreamInv'
<1>1. down.pc = "flow" /\ UNCHANGED apart
  BY DEF Flow
<1>2. down \in Downs /\ Streams(down) /\ Measured(down)
  BY DEF StreamInv
<1>3. /\ down.read = down.got + down.queued /\ down.read <= down.size
      /\ down.close = "end" => down.read = down.size
      /\ down.cut # Absent => down.got <= down.cut /\ down.cut < down.size
      /\ down.got \in Nat /\ down.queued \in Nat /\ down.size \in Nat /\ down.cut \in Int /\ down.read \in Nat
  BY <1>1, <1>2 DEF Streams, Downs
<1>4. CASE down.cut # Absent /\ down.got >= down.cut /\ Ends("whole")
  <2>1. down.got = down.cut
    BY <1>3, <1>4
  <2>2. down.got = IF down.cut # Absent THEN down.cut ELSE down.size
    BY <1>4, <2>1
  <2> QED
    BY <1>1, <1>4, <2>2, WholeKeeps
<1>5. CASE Ends("broken")
  BY <1>1, <1>5, EndsKeeps
<1>6. CASE /\ ~(down.cut # Absent /\ down.got >= down.cut) /\ down.queued > 0
           /\ down' = [down EXCEPT !.queued = down.queued - 1, !.got = down.got + 1]
  <2> DEFINE q == down.queued - 1
             g == down.got + 1
  <2>1. /\ q \in Nat /\ g \in Nat /\ down.read = g + q /\ (down.cut # Absent => g <= down.cut)
        /\ down' = [down EXCEPT !.queued = q, !.got = g]
    BY <1>3, <1>6
  <2> HIDE DEF q, g
  <2>2. /\ down' \in Downs /\ down'.pc = "flow" /\ down'.blob = down.blob /\ down'.size = down.size
        /\ down'.read = down.read /\ down'.queued = q /\ down'.close = down.close
        /\ down'.got = g /\ down'.cut = down.cut
    BY <1>1, <1>2, <2>1 DEF Downs
  <2>3. Streams(down')
    BY <1>1, <1>2, <2>1, <2>2 DEF Streams
  <2>4. Measured(down')
    BY <1>1, <1>2, <2>2 DEF Measured
  <2> QED
    BY <1>1, <2>2, <2>3, <2>4, DownMoves
<1>7. CASE /\ ~(down.cut # Absent /\ down.got >= down.cut) /\ ~(down.queued > 0)
           /\ down.close = "end" /\ Ends("whole")
  <2>1. down.got = down.size
    BY <1>3, <1>7
  <2>2. down.cut = Absent
    BY <1>3, <1>7, <2>1
  <2>3. down.got = IF down.cut # Absent THEN down.cut ELSE down.size
    BY <2>1, <2>2
  <2> QED
    BY <1>1, <1>7, <2>3, WholeKeeps
<1>8. \/ down.cut # Absent /\ down.got >= down.cut /\ Ends("whole")
      \/ Ends("broken")
      \/ /\ ~(down.cut # Absent /\ down.got >= down.cut) /\ down.queued > 0
         /\ down' = [down EXCEPT !.queued = down.queued - 1, !.got = down.got + 1]
      \/ /\ ~(down.cut # Absent /\ down.got >= down.cut) /\ ~(down.queued > 0)
         /\ down.close = "end" /\ Ends("whole")
  BY DEF Flow
<1> QED
  BY <1>4, <1>5, <1>6, <1>7, <1>8

\* A chunk that does not come, a browser that leaves.
LEMMA StallsKeeps ==
    ASSUME StreamInv, Stalls PROVE StreamInv'
<1>1. UNCHANGED apart /\ (Ends("refused") \/ Ends("broken") \/ Ends("left"))
  BY DEF Stalls
<1> QED
  BY <1>1, EndsKeeps

\* Every step keeps what a download may say.
LEMMA StreamStep ==
    ASSUME StreamInv, [Next]_vars PROVE StreamInv'
<1>1. mail \in [size : Nat \ {0}, there : BOOLEAN]
  BY DEF StreamInv
<1>2. ASSUME NEW id \in Ids, Stored(id) \/ Forwarded(id) PROVE UNCHANGED <<kind, mail, down>>
  BY <1>2 DEF Stored, Upload, TakeLock, MakeRoom, WriteFile, RenamePart, WriteSidecar, CallFails,
     Push, Finish, Abandon, Drop, Discard, Forwarded, Pump, PumpCut, PumpFails, ReadChunk, Upstream,
     Judged, others, handed
<1>3. CASE Sweep \/ ForgetUploads \/ RemoveRows \/ Tick \/ UNCHANGED vars
  <2>1. UNCHANGED <<kind, mail, down>>
    BY <1>3 DEF Sweep, ForgetUploads, RemoveRows, Tick, rest, vars
  <2> QED
    BY <1>1, <2>1, DownStays
<1>4. CASE RemoveAccount \/ Restart
  <2>1. /\ UNCHANGED <<kind, mail>>
        /\ down' \in {down, [down EXCEPT !.linked = FALSE], [NoDownload EXCEPT !.pc = "broken"]}
    BY <1>4 DEF RemoveAccount, Restart, rest
  <2> QED
    BY <1>1, <2>1, DownStays
<1>5. CASE MailLeaves
  <2>1. UNCHANGED <<kind, down>> /\ mail' = [mail EXCEPT !.there = FALSE]
    BY <1>5 DEF MailLeaves
  <2>2. mail' \in [size : Nat \ {0}, there : BOOLEAN] /\ mail'.size = mail.size
    BY <1>1, <2>1
  <2> QED
    BY <2>1, <2>2, DownStays
<1>6. CASE Downloading
  BY <1>6, DownloadKeeps, OpenFileKeeps, FirstWindowKeeps, NextBlockKeeps, NextWindowKeeps,
     UpstreamChunkKeeps, FlowKeeps, StallsKeeps DEF Downloading
<1>7. ASSUME NEW id \in Ids, Stored(id) \/ Forwarded(id) PROVE StreamInv'
  BY <1>1, <1>2, <1>7, DownStays
<1> QED
  BY <1>3, <1>4, <1>5, <1>6, <1>7 DEF Next

\* Every step keeps whom a forwarded upload blames.
LEMMA BlameStep ==
    ASSUME BlameInv, [Next]_vars PROVE BlameInv'
<1>1. CASE UNCHANGED <<forward, blame>>
  BY <1>1 DEF BlameInv
<1>2. ASSUME NEW id \in Ids, Forwarded(id) PROVE BlameInv'
  <2> DEFINE f == forward[id]
  <2>1. /\ f \in Ways /\ Blames(f, blame[id]) /\ f.queued \in Int
        /\ blame \in [Ids -> {"none", "upstream", "client"}]
    BY DEF BlameInv, Ways
  <2>2. ASSUME NEW g \in Ways, forward' = [forward EXCEPT ![id] = g], Blames(g, blame'[id]),
               blame' \in [Ids -> {"none", "upstream", "client"}],
               \A k \in Ids : k # id => blame'[k] = blame[k]
        PROVE  BlameInv'
    <3>1. forward' \in [Ids -> Ways] /\ forward'[id] = g /\ \A k \in Ids : k # id => forward'[k] = forward[k]
      BY <2>2 DEF BlameInv
    <3> QED
      BY <2>2, <3>1 DEF BlameInv
  <2>3. CASE Pump(id)
    <3>0. blame' = blame
      BY <2>3 DEF Pump
    <3>1. CASE forward' = [forward EXCEPT ![id].queued = @ + 1]
      <4> DEFINE n == f.queued + 1
                 g == [f EXCEPT !.queued = n]
      <4>1. n \in Int /\ forward' = [forward EXCEPT ![id] = g]
        BY <2>1, <3>1
      <4> HIDE DEF n
      <4>2. g \in Ways /\ g.pump = f.pump /\ g.failed = f.failed /\ g.cut = f.cut
        BY <2>1, <4>1 DEF Ways
      <4> HIDE DEF g
      <4> QED
        BY <2>1, <2>2, <3>0, <4>1, <4>2 DEF Blames
    <3>2. CASE forward' = [forward EXCEPT ![id].pump = "over"]
      <4> DEFINE g == [f EXCEPT !.pump = "over"]
      <4>1. forward' = [forward EXCEPT ![id] = g]
        BY <3>2
      <4>2. g \in Ways /\ g.pump = "over" /\ g.failed = f.failed /\ g.cut = f.cut
        BY <2>1 DEF Ways
      <4> HIDE DEF g
      <4> QED
        BY <2>1, <2>2, <3>0, <4>1, <4>2 DEF Blames
    <3> QED
      BY <2>3, <3>1, <3>2 DEF Pump
  <2>4. CASE PumpCut(id)
    <3> DEFINE g == [f EXCEPT !.pump = "cut", !.cut = TRUE]
    <3>1. forward' = [forward EXCEPT ![id] = g] /\ blame' = blame
      BY <2>4 DEF PumpCut
    <3>2. g \in Ways /\ g.cut = TRUE
      BY <2>1 DEF Ways
    <3> HIDE DEF g
    <3>3. Blames(g, blame'[id])
      BY <3>2 DEF Blames
    <3> QED
      BY <2>1, <2>2, <3>1, <3>2, <3>3
  <2>5. CASE PumpFails(id)
    <3> DEFINE g == [f EXCEPT !.pump = "over", !.failed = TRUE]
    <3>1. forward' = [forward EXCEPT ![id] = g] /\ blame' = blame /\ f.pump = "cut"
      BY <2>5 DEF PumpFails
    <3>2. g \in Ways /\ g.cut = f.cut
      BY <2>1 DEF Ways
    <3> HIDE DEF g
    <3>3. Blames(g, blame'[id])
      BY <2>1, <3>1, <3>2 DEF Blames
    <3> QED
      BY <2>1, <2>2, <3>1, <3>2, <3>3
  <2>6. CASE ReadChunk(id)
    <3> DEFINE n == f.queued - 1
               g == [f EXCEPT !.queued = n]
    <3>1. n \in Int /\ forward' = [forward EXCEPT ![id] = g] /\ blame' = blame
      BY <2>1, <2>6 DEF ReadChunk
    <3> HIDE DEF n
    <3>2. g \in Ways /\ g.pump = f.pump /\ g.failed = f.failed /\ g.cut = f.cut
      BY <2>1, <3>1 DEF Ways
    <3> HIDE DEF g
    <3> QED
      BY <2>1, <2>2, <3>1, <3>2 DEF Blames
  <2>7. CASE Upstream(id)
    <3>1. PICK answer \in {"created", "unauthorized", "too large", "too many", "server error", "unreachable"} :
            /\ forward' = [forward EXCEPT ![id].sent = answer]
            /\ \/ blame' = [blame EXCEPT ![id] = "upstream"]
               \/ blame' = [blame EXCEPT ![id] = "client"] /\ f.failed
      BY <2>7 DEF Upstream
    <3> DEFINE g == [f EXCEPT !.sent = answer]
    <3>2. forward' = [forward EXCEPT ![id] = g]
      BY <3>1
    <3>3. g \in Ways /\ g.pump = f.pump /\ g.failed = f.failed /\ g.cut = f.cut
      BY <2>1 DEF Ways
    <3> HIDE DEF g
    <3>4. f.failed \/ blame'[id] # "client"
      BY <2>1, <3>1
    <3>5. Blames(g, blame'[id])
      BY <2>1, <3>3, <3>4 DEF Blames
    <3>6. /\ blame' \in [Ids -> {"none", "upstream", "client"}]
          /\ \A k \in Ids : k # id => blame'[k] = blame[k]
      BY <2>1, <3>1
    <3> QED
      BY <2>2, <3>2, <3>3, <3>5, <3>6
  <2>8. CASE Judged(id)
    <3> DEFINE g == [f EXCEPT !.pump = "over"]
    <3>1. forward' = [forward EXCEPT ![id] = g] /\ blame' = blame
      BY <2>8 DEF Judged
    <3>2. g \in Ways /\ g.pump = "over" /\ g.failed = f.failed /\ g.cut = f.cut
      BY <2>1 DEF Ways
    <3> HIDE DEF g
    <3> QED
      BY <2>1, <2>2, <3>1, <3>2 DEF Blames
  <2> QED
    BY <1>2, <2>3, <2>4, <2>5, <2>6, <2>7, <2>8 DEF Forwarded
<1>3. ASSUME NEW id \in Ids, Stored(id) PROVE UNCHANGED <<forward, blame>>
  BY <1>3 DEF Stored, Upload, TakeLock, MakeRoom, WriteFile, RenamePart, WriteSidecar, CallFails,
     Push, Finish, Abandon, Drop, Discard, others
<1>4. CASE \/ Sweep \/ RemoveAccount \/ ForgetUploads \/ RemoveRows \/ Tick \/ Restart \/ Downloading
           \/ MailLeaves \/ UNCHANGED vars
  <2>1. UNCHANGED <<forward, blame>>
    BY <1>4 DEF Sweep, RemoveAccount, ForgetUploads, RemoveRows, Tick, Restart, Downloading, Download,
       OpenFile, FirstWindow, NextBlock, NextWindow, UpstreamChunk, Flow, Stalls, MailLeaves, apart,
       rest, vars
  <2> QED
    BY <1>1, <2>1
<1> QED
  BY <1>1, <1>2, <1>3, <1>4 DEF Next

\* Where a stream starts.
LEMMA StreamInit ==
    ASSUME Init PROVE StreamInv /\ BlameInv
<1>1. StoreInv
  BY InitHolds
<1>2. /\ mail \in [size : MailSizes, there : {TRUE}] /\ down = NoDownload
      /\ forward = [id \in Ids |-> NoForward] /\ blame = [id \in Ids |-> "none"]
  BY DEF Init
<1>3. mail \in [size : Nat \ {0}, there : BOOLEAN]
  BY <1>2, BlobsAssumption
<1>4. down \in Downs /\ Streams(down) /\ Measured(down)
  <2>1. Absent \in Int /\ Mail \in Ids \cup {Mail} /\ 0 \in Nat
    BY DEF Absent
  <2>2. down \in Downs
    BY <1>2, <2>1 DEF NoDownload, Downs
  <2>3. down.pc = "idle" /\ down.read = 0 /\ down.queued = 0 /\ down.got = 0 /\ down.close = "open"
    BY <1>2 DEF NoDownload
  <2> QED
    BY <2>2, <2>3 DEF Streams, Measured
<1>5. NoForward \in Ways /\ Blames(NoForward, "none")
  BY DEF NoForward, Ways, Blames
<1>6. BlameInv
  BY <1>2, <1>5 DEF BlameInv
<1> QED
  BY <1>1, <1>3, <1>4, <1>6 DEF StreamInv

\* However a stream ends, its client and the gate are told as it was: a
\* download without an error carried every octet of its blob or its range,
\* and an upload its own client broke off never counts as a failed connection
\* against the account.
THEOREM EndsAreToldAsTheyWere == Spec => []EndsAreTold
<1>1. Init => StreamInv /\ BlameInv
  BY StreamInit
<1>2. StreamInv /\ BlameInv /\ [Next]_vars => StreamInv' /\ BlameInv'
  BY StreamStep, BlameStep
<1>3. StreamInv /\ BlameInv => EndsAreTold
  <2> SUFFICES ASSUME StreamInv, BlameInv PROVE EndsAreTold
    OBVIOUS
  <2>1. WholeOrBroken
    BY DEF StreamInv, Streams, Measured, WholeOrBroken
  <2>2. NoFalseBlame
    <3> SUFFICES ASSUME NEW id \in Ids, blame[id] = "client" PROVE Fault(forward[id]) # "connection"
      BY DEF NoFalseBlame
    <3>1. forward[id].cut
      BY DEF BlameInv, Blames
    <3>2. Fault(forward[id]) = "undecided"
      BY <3>1 DEF Fault
    <3> QED
      BY <3>2
  <2> QED
    BY <2>1, <2>2 DEF EndsAreTold
<1> QED
  BY <1>1, <1>2, <1>3, PTL DEF Spec

-----------------------------------------------------------------------------
(* Sums over a finite set *)

\* What the files of an upload weigh.
Weight(f) == Octets(f.part) + Octets(f.bytes)

\* The element a sum takes next, the function that sums the subsets of a set,
\* and the sum.
First(s) == CHOOSE x \in s : TRUE
Sums(f, S, w) == f = [s \in SUBSET S |-> IF s = {} THEN 0 ELSE w[First(s)] + f[s \ {First(s)}]]
Total(S, w) == (CHOOSE f : Sums(f, S, w))[S]

\* Every family of subsets of a finite set that is not empty has one that
\* contains no other.
LEMMA SmallestSet ==
    ASSUME NEW S, IsFiniteSet(S), NEW F \in SUBSET (SUBSET S), F # {}
    PROVE  \E T \in F : \A U \in F : U \subseteq T => U = T
<1>1. IsWellFoundedOn(StrictSubsetOrdering(S), SUBSET S)
  BY FS_StrictSubsetOrderingWellFounded, FS_FiniteSubsetsOfFinite
<1>2. PICK T \in F : \A U \in F : ~(<<U, T>> \in StrictSubsetOrdering(S))
  BY <1>1, WFMin
<1>3. ASSUME NEW U \in F, U \subseteq T PROVE U = T
  <2>1. <<U, T>> \in (SUBSET S) \X (SUBSET S)
    OBVIOUS
  <2>2. U # T => <<U, T>> \in StrictSubsetOrdering(S)
    BY <1>3, <2>1 DEF StrictSubsetOrdering
  <2> QED
    BY <1>2, <2>2
<1> QED
  BY <1>3

\* Induction over the subsets of a finite set, for the set of those a fact
\* holds of, along the order in which a sum takes their elements.
LEMMA SubsetInduction ==
    ASSUME NEW S, IsFiniteSet(S), NEW G, {} \in G,
           \A s \in SUBSET S : s # {} /\ s \ {First(s)} \in G => s \in G
    PROVE  SUBSET S \subseteq G
<1> SUFFICES ASSUME (SUBSET S) \ G # {} PROVE FALSE
  OBVIOUS
<1> DEFINE F == (SUBSET S) \ G
<1>0. F \in SUBSET (SUBSET S) /\ F # {}
  OBVIOUS
<1>1. PICK T \in F : \A U \in F : U \subseteq T => U = T
  <2> HIDE DEF F
  <2> QED
    BY <1>0, SmallestSet
<1>2. T # {} /\ T \in SUBSET S /\ T \notin G
  BY <1>1
<1>3. First(T) \in T
  BY <1>2 DEF First
<1>4. T \ {First(T)} \subseteq T /\ T \ {First(T)} # T /\ T \ {First(T)} \in SUBSET S
  BY <1>2, <1>3
<1>5. T \ {First(T)} \in G
  BY <1>1, <1>4
<1> QED
  BY <1>2, <1>5

\* Induction over the naturals up to a bound, likewise.
LEMMA UpTo ==
    ASSUME NEW n \in Nat, NEW G, 0 \in G, \A k \in 0..n : k # n /\ k \in G => k + 1 \in G
    PROVE  n \in G
<1> SUFFICES ASSUME n \notin G PROVE FALSE
  OBVIOUS
<1> DEFINE F == {i..n : i \in {k \in 0..n : k \in G}}
<1>1. IsFiniteSet(0..n)
  BY FS_Interval
<1>2. F \in SUBSET (SUBSET (0..n)) /\ F # {}
  OBVIOUS
<1>3. PICK M \in F : \A U \in F : U \subseteq M => U = M
  <2> DEFINE S == 0..n
  <2>1. IsFiniteSet(S) /\ F \in SUBSET (SUBSET S) /\ F # {}
    BY <1>1, <1>2
  <2> HIDE DEF F, S
  <2> QED
    BY <2>1, SmallestSet
<1>4. PICK k \in 0..n : k \in G /\ M = k..n
  OBVIOUS
<1>5. k # n /\ k + 1 \in 0..n /\ k + 1 \in G
  BY <1>4
<1>6. (k + 1)..n \in F /\ (k + 1)..n \subseteq M
  BY <1>4, <1>5
<1>7. (k + 1)..n = M
  BY <1>3, <1>6
<1> QED
  BY <1>4, <1>7

\* The sum of weights over a finite set is there to be chosen.
LEMMA SumExists ==
    ASSUME NEW S, IsFiniteSet(S), NEW w \in [S -> Int]
    PROVE  \E f : Sums(f, S, w)
<1> DEFINE Low(n) == {s \in SUBSET S : Cardinality(s) <= n}
           Value(f, s) == IF s = {} THEN 0 ELSE w[First(s)] + f[s \ {First(s)}]
           Good(n, f) == \A s \in Low(n) : f[s] = Value(f, s)
           G == {n \in Nat : \E f \in [Low(n) -> Int] : Good(n, f)}
<1>0. /\ \A s \in SUBSET S : Cardinality(s) \in Nat /\ Cardinality(s) <= Cardinality(S)
      /\ Cardinality(S) \in Nat
      /\ \A s \in SUBSET S : Cardinality(s) = 0 <=> s = {}
  <2>1. ASSUME NEW s \in SUBSET S
        PROVE  Cardinality(s) \in Nat /\ Cardinality(s) <= Cardinality(S) /\ (Cardinality(s) = 0 <=> s = {})
    BY FS_Subset, FS_CardinalityType, FS_EmptySet
  <2>2. Cardinality(S) \in Nat
    BY FS_CardinalityType
  <2> QED
    BY <2>1, <2>2
<1>1. \A s \in SUBSET S : s # {} => First(s) \in s /\ Cardinality(s \ {First(s)}) = Cardinality(s) - 1
  <2> SUFFICES ASSUME NEW s \in SUBSET S, s # {}
               PROVE  First(s) \in s /\ Cardinality(s \ {First(s)}) = Cardinality(s) - 1
    OBVIOUS
  <2>1. First(s) \in s
    BY DEF First
  <2>2. IsFiniteSet(s)
    BY FS_Subset
  <2> QED
    BY <2>1, <2>2, FS_RemoveElement
<1>2. 0 \in G
  <2> DEFINE f == [s \in Low(0) |-> 0]
  <2>1. \A s \in Low(0) : s = {}
    BY <1>0
  <2>2. f \in [Low(0) -> Int] /\ Good(0, f)
    BY <2>1
  <2> HIDE DEF f
  <2> QED
    BY <2>2
<1>3. ASSUME NEW k \in Nat, k \in G PROVE k + 1 \in G
  <2>1. PICK f \in [Low(k) -> Int] : Good(k, f)
    BY <1>3
  <2> DEFINE g == [s \in Low(k + 1) |-> IF s \in Low(k) THEN f[s] ELSE Value(f, s)]
  <2>2. ASSUME NEW s \in Low(k + 1), s # {} PROVE s \ {First(s)} \in Low(k) /\ First(s) \in S
    BY <1>0, <1>1, <2>2
  <2>3. \A s \in Low(k + 1) : Value(f, s) \in Int
    BY <2>2
  <2>4. g \in [Low(k + 1) -> Int]
    BY <2>3
  <2>5. \A s \in Low(k) : s \in Low(k + 1)
    BY <1>0
  <2>6. /\ \A s \in Low(k) : g[s] = f[s]
        /\ \A s \in Low(k + 1) : s \notin Low(k) => g[s] = Value(f, s)
    BY <2>5
  <2> HIDE DEF g
  <2>7. ASSUME NEW s \in Low(k + 1) PROVE Value(g, s) = Value(f, s)
    BY <2>2, <2>6
  <2>8. Good(k + 1, g)
    <3> SUFFICES ASSUME NEW s \in Low(k + 1) PROVE g[s] = Value(g, s)
      OBVIOUS
    <3> HIDE DEF Value, Low
    <3> QED
      BY <2>1, <2>6, <2>7
  <2> HIDE DEF Good, Low
  <2> QED
    BY <2>4, <2>8
<1> DEFINE n == Cardinality(S)
<1> HIDE DEF G
<1>4. n \in G
  BY <1>0, <1>2, <1>3, UpTo
<1>5. PICK f \in [Low(n) -> Int] : Good(n, f)
  BY <1>4 DEF G
<1>6. Low(n) = SUBSET S
  BY <1>0
<1>7. f = [s \in SUBSET S |-> Value(f, s)]
  <2> HIDE DEF Value
  <2> QED
    BY <1>5, <1>6
<1> QED
  BY <1>7 DEF Sums

\* What the sum is, element by element.
Adds(f, S, w) ==
    /\ Total(S, w) = f[S] /\ f[{}] = 0
    /\ \A s \in SUBSET S : s # {} => /\ First(s) \in s
                                     /\ f[s] = w[First(s)] + f[s \ {First(s)}]

\* The chosen sum is one.
LEMMA SumSays ==
    ASSUME NEW S, IsFiniteSet(S), NEW w \in [S -> Int]
    PROVE  \E f \in [SUBSET S -> Int] : Adds(f, S, w)
<1> DEFINE f == CHOOSE g : Sums(g, S, w)
<1>1. Sums(f, S, w)
  BY SumExists
<1>2. Total(S, w) = f[S]
  BY DEF Total
<1> HIDE DEF f
<1>3. DOMAIN f = SUBSET S /\ f[{}] = 0
  BY <1>1 DEF Sums
<1>4. ASSUME NEW s \in SUBSET S, s # {}
      PROVE  First(s) \in s /\ f[s] = w[First(s)] + f[s \ {First(s)}]
  <2>1. First(s) \in s
    BY <1>4 DEF First
  <2>2. f[s] = IF s = {} THEN 0 ELSE w[First(s)] + f[s \ {First(s)}]
    BY <1>1 DEF Sums
  <2> QED
    BY <1>4, <2>1, <2>2
<1> DEFINE G == {s \in SUBSET S : f[s] \in Int}
<1>5. {} \in G
  BY <1>3
<1>6. ASSUME NEW s \in SUBSET S, s # {}, s \ {First(s)} \in G PROVE s \in G
  BY <1>4, <1>6
<1>7. SUBSET S \subseteq G
  <2> HIDE DEF G
  <2> QED
    BY <1>5, <1>6, SubsetInduction
<1>8. f = [s \in SUBSET S |-> f[s]]
  BY <1>1, <1>3 DEF Sums
<1>9. f \in [SUBSET S -> Int]
  BY <1>7, <1>8
<1>10. Adds(f, S, w)
  BY <1>2, <1>3, <1>4 DEF Adds
<1> QED
  BY <1>9, <1>10

\* Weights that grow by one at most, and only in B, sum to no more than before
\* and one for each of B.
LEMMA SumGrows ==
    ASSUME NEW S, IsFiniteSet(S), NEW v \in [S -> Int], NEW w \in [S -> Int], NEW B \in SUBSET S,
           \A x \in S : v[x] <= w[x] + IF x \in B THEN 1 ELSE 0
    PROVE  /\ Total(S, v) \in Int /\ Total(S, w) \in Int
           /\ Total(S, v) <= Total(S, w) + Cardinality(B)
<1>1. PICK f \in [SUBSET S -> Int] : Adds(f, S, v)
  BY SumSays
<1>2. PICK g \in [SUBSET S -> Int] : Adds(g, S, w)
  BY SumSays
<1>3. \A s \in SUBSET S : IsFiniteSet(s \cap B) /\ Cardinality(s \cap B) \in Nat
  <2> SUFFICES ASSUME NEW s \in SUBSET S
               PROVE  IsFiniteSet(s \cap B) /\ Cardinality(s \cap B) \in Nat
    OBVIOUS
  <2>1. s \cap B \in SUBSET S
    OBVIOUS
  <2> QED
    BY <2>1, FS_Subset, FS_CardinalityType
<1> DEFINE G == {s \in SUBSET S : f[s] <= g[s] + Cardinality(s \cap B)}
<1>4. {} \in G
  <2>1. {} \cap B = {} /\ Cardinality({}) = 0
    BY FS_EmptySet
  <2> QED
    BY <1>1, <1>2, <2>1 DEF Adds
<1>5. ASSUME NEW s \in SUBSET S, s # {}, s \ {First(s)} \in G PROVE s \in G
  <2> DEFINE x == First(s)
             t == s \ {x}
  <2>1. x \in s /\ x \in S /\ f[s] = v[x] + f[t] /\ g[s] = w[x] + g[t] /\ t \in SUBSET S
    BY <1>1, <1>2, <1>5 DEF Adds
  <2>2. f[t] <= g[t] + Cardinality(t \cap B)
    BY <1>5
  <2> HIDE DEF x
  <2>3. Cardinality(s \cap B) = Cardinality(t \cap B) + IF x \in B THEN 1 ELSE 0
    <3>1. CASE x \in B
      <4>1. s \cap B = (t \cap B) \cup {x} /\ x \notin t \cap B
        BY <2>1, <3>1
      <4> QED
        BY <1>3, <2>1, <3>1, <4>1, FS_AddElement
    <3>2. CASE x \notin B
      <4>1. s \cap B = t \cap B
        BY <3>2
      <4>2. Cardinality(t \cap B) \in Nat
        BY <1>3, <2>1
      <4> QED
        <5> DEFINE p == Cardinality(t \cap B)
        <5> HIDE DEF p
        <5>1. p + (IF x \in B THEN 1 ELSE 0) = p
          BY <3>2, <4>2 DEF p
        <5> QED
          BY <4>1, <5>1 DEF p
    <3> QED
      BY <3>1, <3>2
  <2> HIDE DEF t
  <2>4. f[t] \in Int /\ g[t] \in Int /\ v[x] \in Int /\ w[x] \in Int
    BY <2>1
  <2>5. v[x] <= w[x] + IF x \in B THEN 1 ELSE 0
    BY <2>1
  <2>6. Cardinality(t \cap B) \in Nat /\ Cardinality(s \cap B) \in Nat
    BY <1>3, <2>1
  <2>7. f[s] <= g[s] + Cardinality(s \cap B)
    <3> DEFINE p == Cardinality(t \cap B)
               q == Cardinality(s \cap B)
    <3> HIDE DEF p, q
    <3> QED
      BY <2>1, <2>2, <2>3, <2>4, <2>5, <2>6 DEF p, q
  <2> QED
    BY <2>7
<1>6. SUBSET S \subseteq G
  <2> HIDE DEF G
  <2> QED
    BY <1>4, <1>5, SubsetInduction
<1>7. S \in G /\ S \cap B = B
  BY <1>6
<1>8. f[S] <= g[S] + Cardinality(B) /\ f[S] \in Int /\ g[S] \in Int
  BY <1>7
<1> QED
  BY <1>1, <1>2, <1>8 DEF Adds

\* Nothing sums to nothing.
LEMMA SumOfNothing ==
    ASSUME NEW S, IsFiniteSet(S), NEW w \in [S -> Int], \A x \in S : w[x] = 0
    PROVE  Total(S, w) = 0
<1>1. PICK f \in [SUBSET S -> Int] : Adds(f, S, w)
  BY SumSays
<1> DEFINE G == {s \in SUBSET S : f[s] = 0}
<1>2. {} \in G
  BY <1>1 DEF Adds
<1>3. ASSUME NEW s \in SUBSET S, s # {}, s \ {First(s)} \in G PROVE s \in G
  <2>1. w[First(s)] = 0 /\ f[s] = w[First(s)] + f[s \ {First(s)}] /\ f[s \ {First(s)}] = 0
    BY <1>1, <1>3 DEF Adds
  <2> QED
    BY <2>1
<1>4. SUBSET S \subseteq G
  <2> HIDE DEF G
  <2> QED
    BY <1>2, <1>3, SubsetInduction
<1> QED
  BY <1>1, <1>4 DEF Adds

\* What a directory uses is the sum of its weights.
LEMMA UsedIs ==
    ASSUME NEW d, NEW w, w = [id \in Ids |-> Weight(d[id])]
    PROVE  Used(d) = Total(Ids, w)
<1> DEFINE n(s) == Octets(d[First(s)].part) + Octets(d[First(s)].bytes)
           a(f, s) == IF s = {} THEN 0 ELSE w[First(s)] + f[s \ {First(s)}]
           b(f, s) == IF s = {} THEN 0 ELSE n(s) + f[s \ {First(s)}]
<1>1. \A s \in SUBSET Ids : s # {} => w[First(s)] = n(s)
  <2>1. \A s \in SUBSET Ids : s # {} => First(s) \in Ids
    BY DEF First
  <2> QED
    BY <2>1 DEF Weight
<1>2. ASSUME NEW f PROVE Sums(f, Ids, w) <=> f = [s \in SUBSET Ids |-> b(f, s)]
  <2>1. ASSUME NEW s \in SUBSET Ids PROVE a(f, s) = b(f, s)
    <3> HIDE DEF n
    <3> QED
      BY <1>1
  <2>2. [s \in SUBSET Ids |-> a(f, s)] = [s \in SUBSET Ids |-> b(f, s)]
    <3> HIDE DEF a, b
    <3> QED
      BY <2>1
  <2>3. Sums(f, Ids, w) <=> f = [s \in SUBSET Ids |-> a(f, s)]
    BY DEF Sums
  <2> QED
    BY <2>2, <2>3
<1> QED
  BY <1>2 DEF Used, MapThenSumSet, MapThenFoldSet, Total, First

-----------------------------------------------------------------------------
(* Room on the disk *)

\* Calls that have room for one more block, and for one more part file.
Adding == {id \in Ids : up[id].at = "write" /\ up[id].call # "begin"}
Starting == {id \in Ids : up[id].at = "write" /\ up[id].call = "begin"}

\* A call of an upload that is not loose holds the lock of the map.
Locked(u, id, g, l) ==
  /\ u.at # "none" /\ ~u.loose => u.pc = "call" /\ u.lock = g /\ l[g] = id
  /\ u.pc = "wait" /\ ~u.loose => u.lock = g

LockInv ==
  /\ lock \in [Gens -> Ids \cup {Free}]
  /\ \A id \in Ids : Locked(up[id], id, gen, lock)

\* A length is counted or the file is absent.
Measures(f) == f.part >= Absent /\ f.bytes >= Absent

\* The bounds, with the room that was made and is not taken yet.
RoomInv ==
  /\ \A id \in Ids : Measures(disk[id])
  /\ Used(disk) + Cardinality(Adding) <= UPLOAD_QUOTA_BYTES + Cardinality(Loose)
  /\ Cardinality(Listed(disk)) + Cardinality(InFlight(disk)) + Cardinality(Starting)
       <= MAX_UPLOADS_PER_ACCOUNT + Cardinality(Loose)

\* A set of uploads can be counted.
LEMMA Counted ==
    ASSUME NEW A \in SUBSET Ids
    PROVE  IsFiniteSet(A) /\ Cardinality(A) \in Nat
BY BlobsAssumption, FS_Subset, FS_CardinalityType

\* Fewer uploads count less.
LEMMA Fewer ==
    ASSUME NEW B \in SUBSET Ids, NEW A \in SUBSET B
    PROVE  Cardinality(A) <= Cardinality(B)
BY Counted, FS_Subset

\* One more upload counts one more at most.
LEMMA OneMore ==
    ASSUME NEW A \in SUBSET Ids, NEW B \in SUBSET Ids, NEW x, A \subseteq B \cup {x}
    PROVE  Cardinality(A) <= Cardinality(B) + 1
<1>1. IsFiniteSet(B) /\ Cardinality(B) \in Nat /\ IsFiniteSet(A) /\ Cardinality(A) \in Nat
  BY Counted
<1>2. /\ IsFiniteSet(B \cup {x})
      /\ Cardinality(B \cup {x}) = IF x \in B THEN Cardinality(B) ELSE Cardinality(B) + 1
  BY <1>1, FS_AddElement
<1>3. Cardinality(A) <= Cardinality(B \cup {x})
  BY <1>2, FS_Subset
<1> QED
  BY <1>1, <1>2, <1>3

\* One upload less counts one less.
LEMMA OneLess ==
    ASSUME NEW B \in SUBSET Ids, NEW x \in B, NEW A, A \subseteq B \ {x}
    PROVE  Cardinality(A) <= Cardinality(B) - 1
<1>1. IsFiniteSet(B) /\ Cardinality(B) \in Nat
  BY Counted
<1>2. IsFiniteSet(B \ {x}) /\ Cardinality(B \ {x}) = Cardinality(B) - 1
  BY <1>1, FS_RemoveElement
<1> QED
  BY <1>2, FS_Subset

\* The weights of two directories, and what they use.
LEMMA UsedGrows ==
    ASSUME NEW d \in [Ids -> Papers], NEW e \in [Ids -> Papers], NEW B \in SUBSET Ids,
           \A id \in Ids : Weight(e[id]) <= Weight(d[id]) + IF id \in B THEN 1 ELSE 0
    PROVE  Used(d) \in Int /\ Used(e) \in Int /\ Used(e) <= Used(d) + Cardinality(B)
<1> DEFINE v == [id \in Ids |-> Weight(e[id])]
           w == [id \in Ids |-> Weight(d[id])]
<1>1. \A f \in Papers : Weight(f) \in Int
  BY DEF Papers, Weight, Octets
<1>2. v \in [Ids -> Int] /\ w \in [Ids -> Int]
  BY <1>1
<1>3. \A id \in Ids : v[id] <= w[id] + IF id \in B THEN 1 ELSE 0
  OBVIOUS
<1>4. Used(d) = Total(Ids, w) /\ Used(e) = Total(Ids, v)
  BY UsedIs
<1> HIDE DEF v, w
<1> QED
  BY <1>2, <1>3, <1>4, BlobsAssumption, SumGrows

\* A file that loses a part of itself or nothing.
Lean(f, g) == g.part \in {f.part, Absent} /\ g.bytes \in {f.bytes, Absent}

\* A directory in which nothing grows.
LEMMA LeanUses ==
    ASSUME NEW d \in [Ids -> Papers], NEW e \in [Ids -> Papers],
           \A id \in Ids : Measures(d[id]) /\ Lean(d[id], e[id])
    PROVE  /\ Used(d) \in Int /\ Used(e) \in Int /\ Used(e) <= Used(d)
           /\ Listed(e) \subseteq Listed(d) /\ InFlight(e) \subseteq InFlight(d)
           /\ \A id \in Ids : Measures(e[id])
<1>1. ASSUME NEW id \in Ids
      PROVE  Weight(e[id]) <= Weight(d[id]) + (IF id \in {} THEN 1 ELSE 0) /\ Measures(e[id])
  <2>1. /\ d[id].part \in Int /\ d[id].bytes \in Int /\ d[id].part >= -1 /\ d[id].bytes >= -1
        /\ e[id].part = d[id].part \/ e[id].part = -1
        /\ e[id].bytes = d[id].bytes \/ e[id].bytes = -1
    BY DEF Papers, Measures, Lean, Absent
  <2> QED
    BY <2>1 DEF Weight, Octets, Measures, Absent
<1>2. Cardinality({}) = 0
  BY FS_EmptySet
<1>3. Used(d) \in Int /\ Used(e) \in Int /\ Used(e) <= Used(d) + Cardinality({})
  <2>1. {} \in SUBSET Ids
    OBVIOUS
  <2>2. \A id \in Ids : Weight(e[id]) <= Weight(d[id]) + IF id \in {} THEN 1 ELSE 0
    BY <1>1
  <2> QED
    BY <2>1, <2>2, UsedGrows
<1>4. Listed(e) \subseteq Listed(d) /\ InFlight(e) \subseteq InFlight(d)
  BY DEF Listed, InFlight, Lean
<1> QED
  BY <1>1, <1>2, <1>3, <1>4

\* Calls end, room is given up, no file grows: the bounds hold on.
LEMMA Quiet ==
    ASSUME StoreInv, StoreInv', RoomInv,
           \A id \in Ids : /\ Lean(disk[id], disk'[id])
                           /\ up[id].loose => up'[id].loose
                           /\ up'[id].at = "write" => up[id].at = "write" /\ up'[id].call = up[id].call
    PROVE  RoomInv'
<1>1. Loose \subseteq Loose' /\ Adding' \subseteq Adding /\ Starting' \subseteq Starting
  BY DEF Loose, Adding, Starting
<1>2. /\ Loose' \in SUBSET Ids /\ Adding \in SUBSET Ids /\ Starting \in SUBSET Ids
      /\ Loose \in SUBSET Ids /\ Adding' \in SUBSET Ids /\ Starting' \in SUBSET Ids
      /\ Listed(disk) \in SUBSET Ids /\ InFlight(disk) \in SUBSET Ids
      /\ Listed(disk') \in SUBSET Ids /\ InFlight(disk') \in SUBSET Ids
  BY DEF Loose, Adding, Starting, Listed, InFlight
<1>3. /\ Used(disk) \in Int /\ Used(disk') \in Int /\ Used(disk') <= Used(disk)
      /\ Listed(disk') \subseteq Listed(disk) /\ InFlight(disk') \subseteq InFlight(disk)
      /\ \A id \in Ids : Measures(disk'[id])
  <2>1. disk \in [Ids -> Papers] /\ disk' \in [Ids -> Papers] /\ \A id \in Ids : Measures(disk[id])
    BY DEF StoreInv, RoomInv
  <2> QED
    BY <2>1, LeanUses
<1> DEFINE a == Cardinality(Loose)   a1 == Cardinality(Loose')
           b == Cardinality(Adding)  b1 == Cardinality(Adding')
           c == Cardinality(Starting) c1 == Cardinality(Starting')
           l == Cardinality(Listed(disk)) l1 == Cardinality(Listed(disk'))
           i == Cardinality(InFlight(disk)) i1 == Cardinality(InFlight(disk'))
<1>4. a <= a1 /\ b1 <= b /\ c1 <= c /\ l1 <= l /\ i1 <= i
  BY <1>1, <1>2, <1>3, Fewer
<1>5. /\ a \in Nat /\ b \in Nat /\ c \in Nat /\ l \in Nat /\ i \in Nat
      /\ a1 \in Nat /\ b1 \in Nat /\ c1 \in Nat /\ l1 \in Nat /\ i1 \in Nat
  BY <1>2, Counted
<1>6. UPLOAD_QUOTA_BYTES \in Nat /\ MAX_UPLOADS_PER_ACCOUNT \in Nat
  BY BlobsAssumption
<1>7. Used(disk) + b <= UPLOAD_QUOTA_BYTES + a /\ l + i + c <= MAX_UPLOADS_PER_ACCOUNT + a
  BY DEF RoomInv
<1> HIDE DEF a, a1, b, b1, c, c1, l, l1, i, i1
<1>8. Used(disk') + b1 <= UPLOAD_QUOTA_BYTES + a1 /\ l1 + i1 + c1 <= MAX_UPLOADS_PER_ACCOUNT + a1
  BY <1>3, <1>4, <1>5, <1>6, <1>7
<1> QED
  BY <1>3, <1>8 DEF RoomInv, a1, b1, c1, l1, i1

\* The lock as it is, or given back by an upload.
LockStays(id) == lock' = lock \/ lock' = [g \in Gens |-> IF lock[g] = id THEN Free ELSE lock[g]]

\* A step of one upload that takes no room.
LEMMA Turn ==
    ASSUME StoreInv, StoreInv', LockInv, RoomInv, NEW id \in Ids, NEW u,
           up' = [up EXCEPT ![id] = u], gen' = gen, LockStays(id), Locked(u, id, gen, lock'),
           up[id].loose => u.loose,
           u.at = "write" => up[id].at = "write" /\ u.call = up[id].call,
           \A k \in Ids : Lean(disk[k], disk'[k])
    PROVE  LockInv' /\ RoomInv'
<1>1. up'[id] = u /\ \A k \in Ids : k # id => up'[k] = up[k]
  BY DEF StoreInv
<1>2. LockInv'
  <2>1. lock' \in [Gens -> Ids \cup {Free}] /\ gen \in Gens
    BY DEF LockInv, LockStays, StoreInv
  <2>2. ASSUME NEW k \in Ids PROVE Locked(up'[k], k, gen, lock')
    <3>1. CASE k = id
      BY <1>1, <3>1
    <3>2. CASE k # id
      <4>1. up'[k] = up[k] /\ Locked(up[k], k, gen, lock)
        BY <1>1, <3>2 DEF LockInv
      <4>2. lock[gen] = k => lock'[gen] = k
        BY <2>1, <3>2 DEF LockStays
      <4> QED
        BY <4>1, <4>2 DEF Locked
    <3> QED
      BY <3>1, <3>2
  <2> QED
    BY <2>1, <2>2 DEF LockInv
<1>3. \A k \in Ids : /\ up[k].loose => up'[k].loose
                     /\ up'[k].at = "write" => up[k].at = "write" /\ up'[k].call = up[k].call
  BY <1>1
<1>4. RoomInv'
  BY <1>3, Quiet
<1> QED
  BY <1>2, <1>4

\* The files as they are.
LEMMA LeanStays == \A f : Lean(f, f)
BY DEF Lean

\* An answer ends the call, and asks for the lock of the map where it asks on.
LEMMA AnsweredSays ==
    ASSUME gen \in Gens, NEW u \in Calls, u.pc \in {"call", "gone"}, NEW ok \in BOOLEAN,
           NEW v, v = Answered(u, ok)
    PROVE  v.at = "none" /\ v.loose = u.loose /\ (v.pc = "wait" => v.lock = gen)
<1>1. CASE u.pc # "call"
  <2>1. v = [u EXCEPT !.at = "none"]
    BY <1>1 DEF Answered
  <2> QED
    BY <1>1, <2>1 DEF Calls
<1> DEFINE back == [u EXCEPT !.at = "none", !.lock = 0]
           n == back.index + 1
<1>2. u.pc = "call" =>
        v = IF ~ok THEN IF u.call = "begin" THEN [back EXCEPT !.pc = "failed"]
                        ELSE [back EXCEPT !.pc = "discard", !.removing = TRUE]
            ELSE CASE u.call = "begin"    -> [back EXCEPT !.pc = "writing", !.call = "append"]
                   [] u.call = "append"   -> [back EXCEPT !.pc = "writing", !.index = n]
                   [] u.call = "last"     -> [back EXCEPT !.pc = "wait", !.index = n,
                                                          !.call = "complete", !.lock = gen]
                   [] u.call = "complete" -> [back EXCEPT !.pc = "done"]
  BY DEF Answered
<1>3. back \in Calls /\ back.at = "none" /\ back.loose = u.loose
  <2>1. back \in Calls /\ back.at = "none"
    BY Back
  <2> QED
    BY <2>1 DEF Calls
<1> HIDE DEF back, n
<1>4. CASE u.pc = "call" /\ ~ok /\ u.call = "begin"
  <2>1. v = [back EXCEPT !.pc = "failed"]
    BY <1>2, <1>4
  <2> QED
    BY <1>3, <2>1 DEF Calls
<1>5. CASE u.pc = "call" /\ ~ok /\ u.call # "begin"
  <2>1. v = [back EXCEPT !.pc = "discard", !.removing = TRUE]
    BY <1>2, <1>5
  <2> QED
    BY <1>3, <2>1 DEF Calls
<1>6. CASE u.pc = "call" /\ ok /\ u.call = "begin"
  <2>1. v = [back EXCEPT !.pc = "writing", !.call = "append"]
    BY <1>2, <1>6
  <2> QED
    BY <1>3, <2>1 DEF Calls
<1>7. CASE u.pc = "call" /\ ok /\ u.call = "append"
  <2>1. v = [back EXCEPT !.pc = "writing", !.index = n]
    BY <1>2, <1>7
  <2> QED
    BY <1>3, <2>1 DEF Calls
<1>8. CASE u.pc = "call" /\ ok /\ u.call = "last"
  <2>1. v = [back EXCEPT !.pc = "wait", !.index = n, !.call = "complete", !.lock = gen]
    BY <1>2, <1>8
  <2> QED
    BY <1>3, <2>1 DEF Calls
<1>9. CASE u.pc = "call" /\ ok /\ u.call = "complete"
  <2>1. v = [back EXCEPT !.pc = "done"]
    BY <1>2, <1>9
  <2> QED
    BY <1>3, <2>1 DEF Calls
<1> QED
  BY <1>1, <1>4, <1>5, <1>6, <1>7, <1>8, <1>9 DEF Calls

\* A call that is answered, whatever it did that took no room.
LEMMA ReturnsRoom ==
    ASSUME StoreInv, StoreInv', LockInv, RoomInv, NEW id \in Ids, NEW ok \in BOOLEAN,
           up[id].at # "none", Returns(id, ok), gen' = gen,
           \A k \in Ids : Lean(disk[k], disk'[k])
    PROVE  LockInv' /\ RoomInv'
<1> DEFINE v == Answered(up[id], ok)
<1>1. up' = [up EXCEPT ![id] = v] /\ LockStays(id)
  BY DEF Returns, LockStays, StoreInv
<1>2. up[id] \in Calls /\ up[id].pc \in {"call", "gone"} /\ gen \in Gens
  BY UploadType DEF Fits, StoreInv
<1>a. v = Answered(up[id], ok)
  OBVIOUS
<1> HIDE DEF v
<1>3. v.at = "none" /\ v.loose = up[id].loose /\ (v.pc = "wait" => v.lock = gen)
  BY <1>2, <1>a, AnsweredSays
<1>4. Locked(v, id, gen, lock')
  BY <1>3 DEF Locked
<1> QED
  BY <1>1, <1>3, <1>4, Turn

\* The steps of one upload that take no room and end no call.
LEMMA PlainRoom ==
    ASSUME StoreInv, StoreInv', LockInv, RoomInv, NEW id \in Ids,
           Upload(id) \/ Push(id) \/ Finish(id) \/ Abandon(id) \/ Drop(id) \/ Discard(id)
    PROVE  LockInv' /\ RoomInv'
<1>0. up[id] \in Calls /\ Fits(up[id], disk[id]) /\ gen \in Gens /\ Locked(up[id], id, gen, lock)
  BY UploadType DEF StoreInv, LockInv
<1>1. CASE Upload(id)
  <2> DEFINE pc == IF kind = "imap" THEN "wait" ELSE "send"
             u == [up[id] EXCEPT !.pc = pc, !.lock = gen]
  <2>1. up' = [up EXCEPT ![id] = u] /\ UNCHANGED <<disk, gen, lock>> /\ up[id].pc = "idle"
    BY <1>1 DEF Upload, StoreInv
  <2>2. pc \in {"wait", "send"}
    OBVIOUS
  <2> HIDE DEF pc
  <2>3. u.pc = pc /\ u.lock = gen /\ u.at = up[id].at /\ u.loose = up[id].loose /\ u.call = up[id].call
    BY <1>0 DEF Calls
  <2> HIDE DEF u
  <2>4. u.at = "none"
    BY <1>0, <2>1, <2>3 DEF Fits
  <2>5. Locked(u, id, gen, lock')
    BY <2>3, <2>4 DEF Locked
  <2> QED
    BY <2>1, <2>3, <2>4, <2>5, Turn, LeanStays DEF LockStays
<1>2. CASE Push(id) \/ Finish(id)
  <2>1. PICK c \in {"append", "last"} :
          up' = [up EXCEPT ![id] = [up[id] EXCEPT !.pc = "wait", !.call = c, !.lock = gen]]
    BY <1>2 DEF Push, Finish, StoreInv
  <2> DEFINE u == [up[id] EXCEPT !.pc = "wait", !.call = c, !.lock = gen]
  <2>2. up' = [up EXCEPT ![id] = u] /\ UNCHANGED <<disk, gen, lock>> /\ up[id].pc = "writing"
    BY <1>2, <2>1 DEF Push, Finish
  <2>3. u.lock = gen /\ u.at = up[id].at /\ u.loose = up[id].loose
    BY <1>0 DEF Calls
  <2> HIDE DEF u
  <2>4. u.at = "none"
    BY <1>0, <2>2, <2>3 DEF Fits
  <2>5. Locked(u, id, gen, lock')
    BY <2>3, <2>4 DEF Locked
  <2> QED
    BY <2>2, <2>3, <2>4, <2>5, Turn, LeanStays DEF LockStays
<1>3. CASE Abandon(id)
  <2> DEFINE u == [up[id] EXCEPT !.pc = "discard", !.removing = TRUE]
  <2>1. up' = [up EXCEPT ![id] = u] /\ UNCHANGED <<disk, gen, lock>> /\ up[id].pc = "writing"
    BY <1>3 DEF Abandon, StoreInv
  <2>3. u.pc = "discard" /\ u.at = up[id].at /\ u.loose = up[id].loose
    BY <1>0 DEF Calls
  <2> HIDE DEF u
  <2>4. u.at = "none"
    BY <1>0, <2>1, <2>3 DEF Fits
  <2>5. Locked(u, id, gen, lock')
    BY <2>3, <2>4 DEF Locked
  <2> QED
    BY <2>1, <2>3, <2>4, <2>5, Turn, LeanStays DEF LockStays
<1>4. CASE Drop(id)
  <2> DEFINE r == up[id].removing \/ up[id].call # "begin"
             l == up[id].loose \/ up[id].at # "none"
             u == [up[id] EXCEPT !.pc = "gone", !.removing = r, !.loose = l]
  <2>1. up' = [up EXCEPT ![id] = u] /\ UNCHANGED <<disk, gen>> /\ LockStays(id)
    BY <1>4 DEF Drop, LockStays
  <2>2. (l <=> (up[id].loose \/ up[id].at # "none")) /\ r \in BOOLEAN /\ l \in BOOLEAN
    OBVIOUS
  <2> HIDE DEF l, r
  <2>3. u.pc = "gone" /\ u.at = up[id].at /\ u.loose = l /\ u.call = up[id].call
    BY <1>0 DEF Calls
  <2> HIDE DEF u
  <2>5. Locked(u, id, gen, lock')
    BY <2>2, <2>3 DEF Locked
  <2> QED
    BY <2>1, <2>2, <2>3, <2>5, Turn, LeanStays
<1>5. CASE Discard(id)
  <2> DEFINE pc == IF up[id].pc = "discard" THEN "failed" ELSE up[id].pc
             u == [up[id] EXCEPT !.removing = FALSE, !.pc = pc]
             f == WithoutPart(disk[id])
  <2>1. up' = [up EXCEPT ![id] = u] /\ UNCHANGED <<gen, lock>> /\ disk' = [disk EXCEPT ![id] = f]
    BY <1>5 DEF Discard
  <2>2. pc = up[id].pc \/ (up[id].pc = "discard" /\ pc = "failed")
    OBVIOUS
  <2> HIDE DEF pc
  <2>3. /\ u.pc = pc /\ u.at = up[id].at /\ u.loose = up[id].loose /\ u.call = up[id].call
        /\ u.lock = up[id].lock
    BY <1>0 DEF Calls
  <2> HIDE DEF u
  <2>4. up[id].at # "none" => up[id].pc # "discard"
    BY <1>0 DEF Fits
  <2>5. Locked(u, id, gen, lock')
    BY <1>0, <2>1, <2>2, <2>3, <2>4 DEF Locked
  <2>6. disk[id] \in Papers /\ f = WithoutPart(disk[id])
    BY UploadType
  <2> HIDE DEF f
  <2>7. f.part = Absent /\ f.bytes = disk[id].bytes
    BY <2>6, WithoutPartSays
  <2>8. ASSUME NEW k \in Ids PROVE Lean(disk[k], disk'[k])
    <3>1. disk'[k] = IF k = id THEN f ELSE disk[k]
      BY <2>1 DEF StoreInv
    <3> QED
      BY <2>7, <3>1 DEF Lean
  <2> QED
    BY <2>1, <2>3, <2>5, <2>8, Turn DEF LockStays
<1> QED
  BY <1>1, <1>2, <1>3, <1>4, <1>5

\* A turn on the lock.
LEMMA TakeLockRoom ==
    ASSUME StoreInv, StoreInv', LockInv, RoomInv, NEW id \in Ids, TakeLock(id)
    PROVE  LockInv' /\ RoomInv'
<1> DEFINE at == IF up[id].call = "complete" THEN "rename" ELSE "room"
           u == [up[id] EXCEPT !.pc = "call", !.at = at]
           own == up[id].lock
<1>1. /\ up[id].pc = "wait" /\ UNCHANGED <<disk, gen>> /\ up' = [up EXCEPT ![id] = u]
      /\ lock[own] = Free /\ lock' = [lock EXCEPT ![own] = id]
  BY DEF TakeLock, StoreInv
<1>2. /\ up[id] \in Calls /\ own \in Gens /\ gen \in Gens /\ Locked(up[id], id, gen, lock)
      /\ lock \in [Gens -> Ids \cup {Free}]
  BY UploadType DEF StoreInv, LockInv, Calls
<1>3. at \in {"rename", "room"}
  OBVIOUS
<1> HIDE DEF at
<1>4. u.pc = "call" /\ u.at = at /\ u.loose = up[id].loose /\ u.lock = own
  BY <1>2 DEF Calls
<1> HIDE DEF u, own
<1>5. up'[id] = u /\ \A k \in Ids : k # id => up'[k] = up[k]
  BY <1>1 DEF StoreInv
<1>6. lock' \in [Gens -> Ids \cup {Free}] /\ lock'[own] = id /\ \A g \in Gens : g # own => lock'[g] = lock[g]
  BY <1>1, <1>2
<1>7. ASSUME NEW k \in Ids PROVE Locked(up'[k], k, gen, lock')
  <2>1. CASE k = id
    <3>1. ~u.loose => own = gen
      BY <1>1, <1>2, <1>4 DEF Locked, own
    <3> QED
      BY <1>4, <1>5, <1>6, <2>1, <3>1 DEF Locked
  <2>2. CASE k # id
    <3>1. Locked(up[k], k, gen, lock) /\ up'[k] = up[k] /\ k # Free
      BY <1>5, <2>2, BlobsAssumption DEF LockInv
    <3>2. lock[gen] = k => lock'[gen] = k
      BY <1>1, <1>2, <1>6, <3>1
    <3> QED
      BY <3>1, <3>2 DEF Locked
  <2> QED
    BY <2>1, <2>2
<1>8. LockInv'
  BY <1>1, <1>6, <1>7 DEF LockInv
<1>9. \A k \in Ids : /\ Lean(disk[k], disk'[k]) /\ (up[k].loose => up'[k].loose)
                     /\ up'[k].at = "write" => up[k].at = "write" /\ up'[k].call = up[k].call
  BY <1>1, <1>3, <1>4, <1>5, LeanStays
<1> QED
  BY <1>8, <1>9, Quiet

\* Of the calls under way all but one are loose.
LEMMA OneOutside ==
    ASSUME StoreInv, LockInv, NEW A \in SUBSET Ids, \A id \in A : up[id].at # "none"
    PROVE  Cardinality(A) <= Cardinality(Loose) + 1
<1>1. ASSUME NEW id \in A PROVE id \in Loose \cup {lock[gen]}
  BY DEF LockInv, Locked, Loose
<1>2. Loose \in SUBSET Ids
  BY DEF Loose
<1> QED
  BY <1>1, <1>2, OneMore

\* Room is made, or there is none.
LEMMA MakeRoomRoom ==
    ASSUME StoreInv, StoreInv', LockInv, RoomInv, NEW id \in Ids, MakeRoom(id)
    PROVE  LockInv' /\ RoomInv'
<1> DEFINE more == IF up[id].call = "begin" THEN 1 ELSE 0
           blocks == 1 - more
<1>1. up[id].at = "room" /\ gen' = gen
  BY DEF MakeRoom
<1>2. PICK S \in Evicted(disk, more, blocks) :
        /\ disk' = Removed(disk, S)
        /\ IF Crowded(disk, S, more, blocks) THEN Returns(id, FALSE)
           ELSE up' = [up EXCEPT ![id].at = "write"] /\ UNCHANGED lock
  BY DEF MakeRoom
<1>3. S \in SUBSET Listed(disk)
  BY DEF Evicted
<1>4. \A k \in Ids : /\ k \notin S => disk'[k] = disk[k]
                     /\ k \in S => disk'[k].bytes = Absent /\ disk'[k].part = Absent
  BY <1>2, <1>3, RemovedSays
<1>5. \A k \in Ids : Lean(disk[k], disk'[k])
  BY <1>4 DEF Lean
<1>6. CASE Crowded(disk, S, more, blocks)
  BY <1>1, <1>2, <1>5, <1>6, ReturnsRoom
<1>7. CASE ~Crowded(disk, S, more, blocks)
  <2> DEFINE u == [up[id] EXCEPT !.at = "write"]
  <2>1. up' = [up EXCEPT ![id] = u] /\ lock' = lock
    BY <1>2, <1>7 DEF StoreInv
  <2>2. up[id] \in Calls /\ Locked(up[id], id, gen, lock) /\ gen \in Gens
    BY UploadType DEF LockInv, StoreInv
  <2>3. /\ u.at = "write" /\ u.pc = up[id].pc /\ u.call = up[id].call /\ u.lock = up[id].lock
        /\ u.loose = up[id].loose
    BY <2>2 DEF Calls
  <2> HIDE DEF u
  <2>4. up'[id] = u /\ \A k \in Ids : k # id => up'[k] = up[k]
    BY <2>1 DEF StoreInv
  <2>5. Locked(u, id, gen, lock)
    BY <1>1, <2>2, <2>3 DEF Locked
  <2>6. LockInv'
    BY <1>1, <2>1, <2>4, <2>5 DEF LockInv
  <2>7. Loose' = Loose
    BY <2>3, <2>4 DEF Loose
  <2>8. /\ Used(disk) \in Int /\ Used(disk') \in Int /\ Used(disk') <= Used(disk)
        /\ Listed(disk') \subseteq Listed(disk) /\ InFlight(disk') \subseteq InFlight(disk)
        /\ \A k \in Ids : Measures(disk'[k])
    <3>1. disk \in [Ids -> Papers] /\ disk' \in [Ids -> Papers] /\ \A k \in Ids : Measures(disk[k])
      BY DEF StoreInv, RoomInv
    <3> QED
      BY <1>5, <3>1, LeanUses
  <2>9. Listed(disk) \ S = Listed(disk')
    BY <1>3, <1>4 DEF Listed
  <2>10. /\ Loose \in SUBSET Ids /\ Listed(disk) \in SUBSET Ids /\ InFlight(disk) \in SUBSET Ids
         /\ Listed(disk') \in SUBSET Ids /\ InFlight(disk') \in SUBSET Ids
         /\ Adding \in SUBSET Ids /\ Starting \in SUBSET Ids
         /\ Adding' \in SUBSET Ids /\ Starting' \in SUBSET Ids
    BY DEF Loose, Listed, InFlight, Adding, Starting
  <2> DEFINE a == Cardinality(Loose)   a1 == Cardinality(Loose')
             b == Cardinality(Adding)  b1 == Cardinality(Adding')
             c == Cardinality(Starting) c1 == Cardinality(Starting')
             l == Cardinality(Listed(disk)) l1 == Cardinality(Listed(disk'))
             i == Cardinality(InFlight(disk)) i1 == Cardinality(InFlight(disk'))
             q == UPLOAD_QUOTA_BYTES
             m == MAX_UPLOADS_PER_ACCOUNT
  <2>11. l1 <= l /\ i1 <= i /\ a1 = a
    BY <2>7, <2>8, <2>10, Fewer
  <2>12. /\ a \in Nat /\ b \in Nat /\ c \in Nat /\ l \in Nat /\ i \in Nat
         /\ b1 \in Nat /\ c1 \in Nat /\ l1 \in Nat /\ i1 \in Nat /\ q \in Nat /\ m \in Nat
    BY <2>10, Counted, BlobsAssumption
  <2>13. Used(disk) + b <= q + a /\ l + i + c <= m + a
    BY DEF RoomInv
  <2>14. ~(l1 + i + more > m) /\ ~(Used(disk') + blocks > q)
    BY <1>2, <1>7, <2>9 DEF Crowded
  <2>15. b1 <= a + 1 /\ c1 <= a + 1
    <3>1. \A k \in Adding' \cup Starting' : up'[k].at # "none"
      BY DEF Adding, Starting
    <3>2. \A k \in Ids : up'[k].at # "none" => up[k].at # "none"
      BY <1>1, <2>4
    <3>3. \A k \in Adding' \cup Starting' : up[k].at # "none"
      BY <2>10, <3>1, <3>2
    <3> QED
      BY <2>10, <3>3, OneOutside
  <2>16. ASSUME up[id].call = "begin"
         PROVE  Used(disk') + b1 <= q + a1 /\ l1 + i1 + c1 <= m + a1
    <3>1. Adding' \subseteq Adding
      BY <2>3, <2>4, <2>16 DEF Adding
    <3>2. b1 <= b
      BY <2>10, <3>1, Fewer
    <3>3. more = 1
      BY <2>16
    <3>4. l1 + i + 1 <= m
      <4> HIDE DEF more, blocks, l1, i, m
      <4> QED
        BY <2>12, <2>14, <3>3
    <3> HIDE DEF more, blocks, a, a1, b, b1, c, c1, l, l1, i, i1, q, m
    <3>5. Used(disk') + b1 <= q + a1 /\ l1 + i1 + c1 <= m + a1
      BY <2>8, <2>11, <2>12, <2>13, <2>15, <3>2, <3>4
    <3> QED
      BY <3>5
  <2>17. ASSUME up[id].call # "begin"
         PROVE  Used(disk') + b1 <= q + a1 /\ l1 + i1 + c1 <= m + a1
    <3>1. Starting' \subseteq Starting
      BY <2>3, <2>4, <2>17 DEF Starting
    <3>2. c1 <= c
      BY <2>10, <3>1, Fewer
    <3>3. blocks = 1
      BY <2>17
    <3>4. Used(disk') + 1 <= q
      <4> HIDE DEF more, blocks, q
      <4> QED
        BY <2>8, <2>12, <2>14, <3>3
    <3> HIDE DEF more, blocks, a, a1, b, b1, c, c1, l, l1, i, i1, q, m
    <3>5. Used(disk') + b1 <= q + a1 /\ l1 + i1 + c1 <= m + a1
      BY <2>8, <2>11, <2>12, <2>13, <2>15, <3>2, <3>4
    <3> QED
      BY <3>5
  <2>18. Used(disk') + b1 <= q + a1 /\ l1 + i1 + c1 <= m + a1
    BY <2>16, <2>17
  <2>19. RoomInv'
    BY <2>8, <2>18 DEF RoomInv
  <2> QED
    BY <2>6, <2>19
<1> QED
  BY <1>6, <1>7

\* An upload with room takes it; what it took is counted once.
LEMMA Takes ==
    ASSUME StoreInv, StoreInv', LockInv, RoomInv, NEW id \in Ids, NEW ok \in BOOLEAN,
           up[id].at # "none", Returns(id, ok), gen' = gen, NEW f, disk' = [disk EXCEPT ![id] = f],
           Measures(f), f.bytes = disk[id].bytes,
           \/ /\ up[id].at = "write" /\ up[id].call = "begin" /\ Weight(f) <= Weight(disk[id])
           \/ /\ up[id].at = "write" /\ up[id].call # "begin" /\ Weight(f) <= Weight(disk[id]) + 1
              /\ disk[id].part # Absent
    PROVE  LockInv' /\ RoomInv'
<1> DEFINE v == Answered(up[id], ok)
<1>1. up' = [up EXCEPT ![id] = v] /\ LockStays(id)
  BY DEF Returns, LockStays, StoreInv
<1>2. up[id] \in Calls /\ up[id].pc \in {"call", "gone"} /\ gen \in Gens
  BY UploadType DEF Fits, StoreInv
<1>a. v = Answered(up[id], ok)
  OBVIOUS
<1> HIDE DEF v
<1>3. v.at = "none" /\ v.loose = up[id].loose /\ (v.pc = "wait" => v.lock = gen)
  BY <1>2, <1>a, AnsweredSays
<1>4. up'[id] = v /\ \A k \in Ids : k # id => up'[k] = up[k]
  BY <1>1 DEF StoreInv
<1>5. disk'[id] = f /\ \A k \in Ids : k # id => disk'[k] = disk[k]
  BY DEF StoreInv
<1>6. LockInv'
  <2>1. lock' \in [Gens -> Ids \cup {Free}]
    BY <1>1 DEF LockInv, LockStays
  <2>2. ASSUME NEW k \in Ids PROVE Locked(up'[k], k, gen, lock')
    <3>1. CASE k = id
      BY <1>3, <1>4, <3>1 DEF Locked
    <3>2. CASE k # id
      <4>1. up'[k] = up[k] /\ Locked(up[k], k, gen, lock)
        BY <1>4, <3>2 DEF LockInv
      <4>2. lock[gen] = k => lock'[gen] = k
        BY <1>1, <1>2, <3>2 DEF LockStays
      <4> QED
        BY <4>1, <4>2 DEF Locked
    <3> QED
      BY <3>1, <3>2
  <2> QED
    BY <2>1, <2>2 DEF LockInv
<1>7. Loose' = Loose /\ Listed(disk') = Listed(disk)
  BY <1>3, <1>4, <1>5 DEF Loose, Listed
<1>8. /\ Loose \in SUBSET Ids /\ Listed(disk) \in SUBSET Ids /\ InFlight(disk) \in SUBSET Ids
      /\ InFlight(disk') \in SUBSET Ids /\ Adding \in SUBSET Ids /\ Starting \in SUBSET Ids
      /\ Adding' \in SUBSET Ids /\ Starting' \in SUBSET Ids
  BY DEF Loose, Listed, InFlight, Adding, Starting
<1>9. Adding' \subseteq Adding \ {id} /\ Starting' \subseteq Starting \ {id}
  BY <1>3, <1>4 DEF Adding, Starting
<1>10. \A k \in Ids : Measures(disk'[k])
  BY <1>5 DEF RoomInv
<1> DEFINE a == Cardinality(Loose)   a1 == Cardinality(Loose')
           b == Cardinality(Adding)  b1 == Cardinality(Adding')
           c == Cardinality(Starting) c1 == Cardinality(Starting')
           l == Cardinality(Listed(disk)) l1 == Cardinality(Listed(disk'))
           i == Cardinality(InFlight(disk)) i1 == Cardinality(InFlight(disk'))
           q == UPLOAD_QUOTA_BYTES
           m == MAX_UPLOADS_PER_ACCOUNT
<1>11. a1 = a /\ l1 = l
  BY <1>7
<1>12. /\ a \in Nat /\ b \in Nat /\ c \in Nat /\ l \in Nat /\ i \in Nat
       /\ b1 \in Nat /\ c1 \in Nat /\ i1 \in Nat /\ q \in Nat /\ m \in Nat
  BY <1>8, Counted, BlobsAssumption
<1>13. Used(disk) + b <= q + a /\ l + i + c <= m + a
  BY DEF RoomInv
<1>14. disk \in [Ids -> Papers] /\ disk' \in [Ids -> Papers]
  BY DEF StoreInv
<1>15. CASE up[id].call = "begin"
  <2>1. id \in Starting /\ up[id].at = "write" /\ Weight(f) <= Weight(disk[id])
    BY <1>15 DEF Starting
  <2>2. c1 <= c - 1
    BY <1>8, <1>9, <2>1, OneLess
  <2>3. b1 <= b
    BY <1>8, <1>9, Fewer
  <2>4. i1 <= i + 1
    <3>1. InFlight(disk') \subseteq InFlight(disk) \cup {id}
      BY <1>5 DEF InFlight
    <3> QED
      BY <1>8, <3>1, OneMore
  <2>5. Used(disk) \in Int /\ Used(disk') \in Int /\ Used(disk') <= Used(disk) + Cardinality({})
    <3>1. \A g \in Papers : Weight(g) \in Int
      BY DEF Papers, Weight, Octets
    <3>2. \A k \in Ids : Weight(disk[k]) \in Int
      BY <1>14, <3>1
    <3>3. \A k \in Ids : Weight(disk'[k]) <= Weight(disk[k]) + 0
      <4> SUFFICES ASSUME NEW k \in Ids PROVE Weight(disk'[k]) <= Weight(disk[k]) + 0
        OBVIOUS
      <4>1. Weight(disk[k]) \in Int /\ Weight(disk[k]) + 0 = Weight(disk[k]) /\ Weight(disk'[k]) \in Int
        BY <1>14, <3>1, <3>2
      <4>2. CASE k = id
        BY <1>5, <2>1, <4>1, <4>2
      <4>3. CASE k # id
        BY <1>5, <4>1, <4>3
      <4> QED
        BY <4>2, <4>3
    <3>4. PICK B \in SUBSET Ids : B = {}
      OBVIOUS
    <3>5. \A k \in Ids : Weight(disk'[k]) <= Weight(disk[k]) + IF k \in B THEN 1 ELSE 0
      BY <3>3, <3>4
    <3>6. Used(disk) \in Int /\ Used(disk') \in Int /\ Used(disk') <= Used(disk) + Cardinality(B)
      BY <1>14, <3>5, UsedGrows
    <3> QED
      BY <3>4, <3>6
  <2>6. Cardinality({}) = 0
    BY FS_EmptySet
  <2> HIDE DEF a, a1, b, b1, c, c1, l, l1, i, i1, q, m
  <2>7. Used(disk') + b1 <= q + a1 /\ l1 + i1 + c1 <= m + a1
    BY <1>11, <1>12, <1>13, <2>2, <2>3, <2>4, <2>5, <2>6
  <2>8. RoomInv'
    BY <1>10, <2>7 DEF RoomInv, a1, b1, c1, l1, i1, q, m
  <2> QED
    BY <1>6, <2>8
<1>16. CASE up[id].call # "begin"
  <2>1. id \in Adding /\ up[id].at = "write" /\ Weight(f) <= Weight(disk[id]) + 1 /\ disk[id].part # Absent
    BY <1>16 DEF Adding
  <2>2. b1 <= b - 1
    BY <1>8, <1>9, <2>1, OneLess
  <2>3. c1 <= c
    BY <1>8, <1>9, Fewer
  <2>4. i1 <= i
    <3>1. InFlight(disk') \subseteq InFlight(disk)
      BY <1>5, <2>1 DEF InFlight
    <3> QED
      BY <1>8, <3>1, Fewer
  <2>5. Used(disk) \in Int /\ Used(disk') \in Int /\ Used(disk') <= Used(disk) + Cardinality({id})
    <3>1. \A g \in Papers : Weight(g) \in Int
      BY DEF Papers, Weight, Octets
    <3>3. \A k \in Ids : Weight(disk'[k]) <= Weight(disk[k]) + IF k \in {id} THEN 1 ELSE 0
      <4> SUFFICES ASSUME NEW k \in Ids
                   PROVE  Weight(disk'[k]) <= Weight(disk[k]) + IF k = id THEN 1 ELSE 0
        OBVIOUS
      <4>1. Weight(disk[k]) \in Int /\ Weight(disk'[k]) \in Int
        BY <1>14, <3>1
      <4>2. CASE k = id
        BY <1>5, <2>1, <4>1, <4>2
      <4>3. CASE k # id
        BY <1>5, <4>1, <4>3
      <4> QED
        BY <4>2, <4>3
    <3>4. {id} \in SUBSET Ids
      OBVIOUS
    <3> QED
      BY <1>14, <3>3, <3>4, UsedGrows
  <2>6. Cardinality({id}) = 1
    BY FS_Singleton
  <2> HIDE DEF a, a1, b, b1, c, c1, l, l1, i, i1, q, m
  <2>7. Used(disk') + b1 <= q + a1 /\ l1 + i1 + c1 <= m + a1
    BY <1>11, <1>12, <1>13, <2>2, <2>3, <2>4, <2>5, <2>6
  <2>8. RoomInv'
    BY <1>10, <2>7 DEF RoomInv, a1, b1, c1, l1, i1, q, m
  <2> QED
    BY <1>6, <2>8
<1> QED
  BY <1>15, <1>16

\* A block goes to the part file.
LEMMA WriteFileRoom ==
    ASSUME StoreInv, StoreInv', LockInv, RoomInv, NEW id \in Ids, WriteFile(id)
    PROVE  LockInv' /\ RoomInv'
<1> DEFINE u == up[id]
           d == disk[id]
           begins == u.call = "begin"
           fits == begins \/ d.part # Absent
           file == IF begins THEN Begun(d) ELSE Appended(d)
           ends == u.call = "last" /\ u.pc = "call"
           f == IF ends THEN [file EXCEPT !.size = u.index + 1, !.made = 0] ELSE file
<1>1. /\ u.at = "write" /\ gen' = gen /\ Returns(id, fits) /\ fits \in BOOLEAN
      /\ disk' = IF fits THEN [disk EXCEPT ![id] = f] ELSE disk
  BY DEF WriteFile
<1>2. d \in Papers /\ Measures(d) /\ d.part \in Int /\ d.bytes \in Int
  BY UploadType DEF RoomInv, Papers
<1>3. CASE ~fits
  BY <1>1, <1>3, ReturnsRoom, LeanStays
<1>4. CASE fits
  <2> DEFINE p == IF begins THEN 0 ELSE d.part + 1
  <2>1. file = [d EXCEPT !.part = p, !.age = 0]
    BY DEF Begun, Appended
  <2>2. /\ p \in Int /\ p >= 0 /\ (begins => p = 0) /\ (~begins => p = d.part + 1 /\ d.part # Absent)
    BY <1>2, <1>4 DEF Measures, Absent
  <2> HIDE DEF p
  <2>3. file.part = p /\ file.bytes = d.bytes
    BY <1>2, <2>1 DEF Papers
  <2>4. file = [part |-> file.part, bytes |-> file.bytes, side |-> file.side, size |-> file.size,
                age |-> file.age, made |-> file.made]
    BY <1>2, <2>1 DEF Papers
  <2> HIDE DEF file
  <2>5. f.part = p /\ f.bytes = d.bytes
    <3>1. CASE ends
      <4>1. f = [file EXCEPT !.size = u.index + 1, !.made = 0]
        BY <3>1
      <4> HIDE DEF f
      <4> QED
        BY <2>3, <2>4, <4>1
    <3>2. CASE ~ends
      BY <2>3, <3>2
    <3> QED
      BY <3>1, <3>2
  <2>6. disk' = [disk EXCEPT ![id] = f]
    BY <1>1, <1>4
  <2> HIDE DEF f
  <2>7. d.part >= -1 /\ d.bytes >= -1
    BY <1>2 DEF Measures, Absent
  <2>8. Measures(f) /\ f.bytes = d.bytes
    BY <1>2, <2>2, <2>5, <2>7 DEF Measures, Absent
  <2>9. CASE begins
    <3>1. Weight(f) <= Weight(d)
      BY <1>2, <2>2, <2>5, <2>7, <2>9 DEF Weight, Octets, Absent
    <3> QED
      BY <1>1, <2>6, <2>8, <2>9, <3>1, Takes
  <2>10. CASE ~begins
    <3>1. Weight(f) <= Weight(d) + 1 /\ d.part # Absent
      BY <1>2, <2>2, <2>5, <2>7, <2>10 DEF Weight, Octets, Absent
    <3> QED
      BY <1>1, <2>6, <2>8, <2>10, <3>1, Takes
  <2> QED
    BY <2>9, <2>10
<1> QED
  BY <1>3, <1>4

\* The part file becomes the upload: what it took it takes still.
LEMMA RenamePartRoom ==
    ASSUME StoreInv, StoreInv', LockInv, RoomInv, NEW id \in Ids, RenamePart(id)
    PROVE  LockInv' /\ RoomInv'
<1> DEFINE d == disk[id]
<1>1. up[id].at = "rename" /\ gen' = gen
  BY DEF RenamePart
<1>2. up[id] \in Calls /\ d \in Papers /\ Fits(up[id], d) /\ Measures(d) /\ Locked(up[id], id, gen, lock)
  BY UploadType DEF RoomInv, LockInv
<1>3. CASE d.part = Absent
  <2>1. Returns(id, FALSE) /\ disk' = disk
    BY <1>3 DEF RenamePart
  <2> QED
    BY <1>1, <2>1, ReturnsRoom, LeanStays
<1>4. CASE d.part # Absent
  <2> DEFINE f == [d EXCEPT !.bytes = d.part, !.part = Absent]
             u == [up[id] EXCEPT !.at = "sidecar"]
  <2>1. up' = [up EXCEPT ![id] = u] /\ disk' = [disk EXCEPT ![id] = f] /\ lock' = lock
    BY <1>4 DEF RenamePart, StoreInv
  <2>2. u.at = "sidecar" /\ u.pc = up[id].pc /\ u.lock = up[id].lock /\ u.loose = up[id].loose
    BY <1>2 DEF Calls
  <2>3. f.part = Absent /\ f.bytes = d.part
    BY <1>2 DEF Papers
  <2> HIDE DEF f, u
  <2>4. up'[id] = u /\ \A k \in Ids : k # id => up'[k] = up[k]
    BY <2>1 DEF StoreInv
  <2>5. disk'[id] = f /\ \A k \in Ids : k # id => disk'[k] = disk[k]
    BY <2>1 DEF StoreInv
  <2>6. d.bytes = Absent
    BY <1>2, <1>4 DEF Fits
  <2>7. Locked(u, id, gen, lock)
    BY <1>1, <1>2, <2>2 DEF Locked
  <2>8. LockInv'
    BY <1>1, <2>1, <2>4, <2>7 DEF LockInv
  <2>9. Loose' = Loose /\ Adding' = Adding /\ Starting' = Starting
    BY <1>1, <2>2, <2>4 DEF Loose, Adding, Starting
  <2>10. \A k \in Ids : Measures(disk'[k])
    BY <1>2, <2>3, <2>5, <2>6 DEF RoomInv, Measures
  <2>11. /\ Listed(disk') \subseteq Listed(disk) \cup {id}
         /\ InFlight(disk') \subseteq InFlight(disk) \ {id} /\ id \in InFlight(disk)
    BY <1>4, <2>3, <2>5 DEF Listed, InFlight
  <2>12. /\ Loose \in SUBSET Ids /\ Listed(disk) \in SUBSET Ids /\ InFlight(disk) \in SUBSET Ids
         /\ Listed(disk') \in SUBSET Ids /\ InFlight(disk') \in SUBSET Ids
         /\ Adding \in SUBSET Ids /\ Starting \in SUBSET Ids
    BY DEF Loose, Listed, InFlight, Adding, Starting
  <2>13. Used(disk) \in Int /\ Used(disk') \in Int /\ Used(disk') <= Used(disk)
    <3>1. disk \in [Ids -> Papers] /\ disk' \in [Ids -> Papers]
      BY DEF StoreInv
    <3>2. \A g \in Papers : Weight(g) \in Int
      BY DEF Papers, Weight, Octets
    <3>3. Weight(f) = Weight(d)
      <4>1. d.part \in Int
        BY <1>2 DEF Papers
      <4> QED
        BY <2>3, <2>6, <4>1 DEF Weight, Octets, Absent
    <3>4. PICK B \in SUBSET Ids : B = {}
      OBVIOUS
    <3>5. ASSUME NEW k \in Ids PROVE Weight(disk'[k]) <= Weight(disk[k]) + IF k \in B THEN 1 ELSE 0
      <4>1. Weight(disk[k]) \in Int /\ Weight(disk'[k]) = Weight(disk[k])
        BY <2>5, <3>1, <3>2, <3>3
      <4> QED
        BY <3>4, <4>1
    <3>6. Used(disk) \in Int /\ Used(disk') \in Int /\ Used(disk') <= Used(disk) + Cardinality(B)
      BY <3>1, <3>5, UsedGrows
    <3> QED
      BY <3>4, <3>6, FS_EmptySet
  <2> DEFINE a == Cardinality(Loose)   a1 == Cardinality(Loose')
             b == Cardinality(Adding)  b1 == Cardinality(Adding')
             c == Cardinality(Starting) c1 == Cardinality(Starting')
             l == Cardinality(Listed(disk)) l1 == Cardinality(Listed(disk'))
             i == Cardinality(InFlight(disk)) i1 == Cardinality(InFlight(disk'))
             q == UPLOAD_QUOTA_BYTES
             m == MAX_UPLOADS_PER_ACCOUNT
  <2>14. a1 = a /\ b1 = b /\ c1 = c
    BY <2>9
  <2>15. l1 <= l + 1 /\ i1 <= i - 1
    BY <2>11, <2>12, OneMore, OneLess
  <2>16. /\ a \in Nat /\ b \in Nat /\ c \in Nat /\ l \in Nat /\ i \in Nat /\ l1 \in Nat /\ i1 \in Nat
         /\ q \in Nat /\ m \in Nat
    BY <2>12, Counted, BlobsAssumption
  <2>17. Used(disk) + b <= q + a /\ l + i + c <= m + a
    BY DEF RoomInv
  <2>18. Used(disk') + b1 <= q + a1 /\ l1 + i1 + c1 <= m + a1
    <3> HIDE DEF a, a1, b, b1, c, c1, l, l1, i, i1, q, m
    <3> QED
      BY <2>13, <2>14, <2>15, <2>16, <2>17
  <2>19. RoomInv'
    BY <2>10, <2>18 DEF RoomInv
  <2> QED
    BY <2>8, <2>19
<1> QED
  BY <1>3, <1>4

\* The sidecar is written, or a file call fails.
LEMMA EndsRoom ==
    ASSUME StoreInv, StoreInv', LockInv, RoomInv, NEW id \in Ids, WriteSidecar(id) \/ CallFails(id)
    PROVE  LockInv' /\ RoomInv'
<1>0. disk[id] \in Papers
  BY UploadType
<1>1. CASE WriteSidecar(id)
  <2>1. up[id].at = "sidecar" /\ gen' = gen /\ Returns(id, TRUE)
    BY <1>1 DEF WriteSidecar
  <2>2. \E f : disk' = [disk EXCEPT ![id] = f] /\ f.part = disk[id].part /\ f.bytes = disk[id].bytes
    <3>1. CASE disk[id].bytes # Absent
      <4>1. disk' = [disk EXCEPT ![id] = [disk[id] EXCEPT !.side = "whole"]]
        BY <1>1, <3>1 DEF WriteSidecar, StoreInv
      <4> DEFINE f == [disk[id] EXCEPT !.side = "whole"]
      <4>2. f.part = disk[id].part /\ f.bytes = disk[id].bytes
        BY <1>0 DEF Papers
      <4> QED
        BY <4>1, <4>2
    <3>2. CASE disk[id].bytes = Absent
      <4>1. PICK made : disk' = [disk EXCEPT ![id] = [disk[id] EXCEPT !.side = "whole", !.size = up[id].index,
                                                                    !.made = made]]
        BY <1>1, <3>2 DEF WriteSidecar, StoreInv
      <4> DEFINE f == [disk[id] EXCEPT !.side = "whole", !.size = up[id].index, !.made = made]
      <4>2. f.part = disk[id].part /\ f.bytes = disk[id].bytes
        BY <1>0 DEF Papers
      <4> QED
        BY <4>1, <4>2
    <3> QED
      BY <3>1, <3>2
  <2>3. \A k \in Ids : Lean(disk[k], disk'[k])
    BY <2>2 DEF Lean, StoreInv
  <2> QED
    BY <2>1, <2>3, ReturnsRoom
<1>2. CASE CallFails(id)
  <2>1. up[id].at # "none" /\ gen' = gen /\ Returns(id, FALSE)
    BY <1>2 DEF CallFails
  <2>2. CASE up[id].at # "sidecar"
    <3>1. disk' = disk
      BY <1>2, <2>2 DEF CallFails
    <3> QED
      BY <2>1, <3>1, ReturnsRoom, LeanStays
  <2>3. CASE up[id].at = "sidecar"
    <3>1. PICK side \in {"none", "torn"} :
            disk' = [disk EXCEPT ![id] = IF side = "none" THEN NoFile ELSE [NoFile EXCEPT !.side = "torn"]]
      BY <1>2, <2>3 DEF CallFails
    <3> DEFINE f == IF side = "none" THEN NoFile ELSE [NoFile EXCEPT !.side = "torn"]
    <3>2. f.part = Absent /\ f.bytes = Absent
      BY DEF NoFile
    <3>3. disk' = [disk EXCEPT ![id] = f]
      BY <3>1
    <3> HIDE DEF f
    <3>4. \A k \in Ids : Lean(disk[k], disk'[k])
      BY <3>2, <3>3 DEF Lean, StoreInv
    <3> QED
      BY <2>1, <3>4, ReturnsRoom
  <2> QED
    BY <2>2, <2>3
<1> QED
  BY <1>1, <1>2

\* An upload on its way upstream runs no call of the store.
LEMMA ForwardedRoom ==
    ASSUME StoreInv, StoreInv', LockInv, RoomInv, NEW id \in Ids, Forwarded(id)
    PROVE  LockInv' /\ RoomInv'
<1>0. /\ UNCHANGED <<disk, gen, lock>> /\ up[id].pc = "send"
  BY DEF Forwarded, Pump, PumpCut, PumpFails, ReadChunk, Upstream, Judged, Pumping, handed
<1>1. up[id] \in Calls /\ up[id].at = "none"
  BY <1>0, UploadType DEF Fits
<1>2. \E u : up' = [up EXCEPT ![id] = u] /\ u.at = "none" /\ u.loose = up[id].loose /\ u.pc # "wait"
  <2>1. CASE UNCHANGED up
    <3>1. up' = [up EXCEPT ![id] = up[id]]
      BY <2>1 DEF StoreInv
    <3> QED
      BY <1>0, <1>1, <3>1
  <2>2. CASE up' = [up EXCEPT ![id].index = @ + 1]
    <3> DEFINE n == up[id].index + 1
               u == [up[id] EXCEPT !.index = n]
    <3>1. up' = [up EXCEPT ![id] = u]
      BY <2>2 DEF StoreInv
    <3> HIDE DEF n
    <3>2. u.at = "none" /\ u.loose = up[id].loose /\ u.pc # "wait"
      BY <1>0, <1>1 DEF Calls
    <3> QED
      BY <3>1, <3>2
  <2>3. CASE Judged(id)
    <3> DEFINE pc == IF Fault(forward[id]) = "none" THEN "done" ELSE "failed"
               u == [up[id] EXCEPT !.pc = pc]
    <3>1. up' = [up EXCEPT ![id] = u]
      BY <2>3 DEF StoreInv, Judged
    <3>2. pc \in {"done", "failed"}
      OBVIOUS
    <3> HIDE DEF pc
    <3>3. u.at = "none" /\ u.loose = up[id].loose /\ u.pc # "wait"
      BY <1>1, <3>2 DEF Calls
    <3> QED
      BY <3>1, <3>3
  <2> QED
    BY <2>1, <2>2, <2>3 DEF Forwarded, Pump, PumpCut, PumpFails, ReadChunk, Upstream
<1>3. PICK u : up' = [up EXCEPT ![id] = u] /\ u.at = "none" /\ u.loose = up[id].loose /\ u.pc # "wait"
  BY <1>2
<1>4. Locked(u, id, gen, lock')
  BY <1>3 DEF Locked
<1> QED
  BY <1>0, <1>3, <1>4, Turn, LeanStays DEF LockStays

\* What the sweep leaves of a file is a part of it.
LEMMA SweptLean ==
    ASSUME NEW f \in Papers
    PROVE  Lean(f, SweptFile(f))
<1> DEFINE kept == IF f.part # Absent /\ Stale(f) THEN WithoutPart(f) ELSE f
           gone == IF kept.side = "whole" THEN ~Lives(kept) ELSE Stale(kept)
           out  == (kept.bytes # Absent \/ kept.side # "none") /\ gone
           g == SweptFile(f)
<1>1. g = IF out THEN [NoFile EXCEPT !.part = kept.part] ELSE kept
  BY DEF SweptFile
<1>2. kept.part \in {f.part, Absent} /\ kept.bytes = f.bytes
  <2>1. CASE kept = f
    BY <2>1
  <2>2. CASE kept = WithoutPart(f)
    <3> HIDE DEF kept
    <3> QED
      BY <2>2, WithoutPartSays
  <2> QED
    BY <2>1, <2>2
<1> HIDE DEF kept, gone
<1>3. CASE out
  <2>1. g.part = kept.part /\ g.bytes = Absent
    BY <1>1, <1>3 DEF NoFile
  <2> QED
    BY <1>2, <2>1 DEF Lean
<1>4. CASE ~out
  BY <1>1, <1>2, <1>4 DEF Lean
<1> QED
  BY <1>3, <1>4

\* The sweep and time.
LEMMA AgeRoom ==
    ASSUME StoreInv, StoreInv', LockInv, RoomInv, Sweep \/ Tick
    PROVE  LockInv' /\ RoomInv'
<1>1. UNCHANGED <<up, gen, lock>>
  BY DEF Sweep, Tick
<1>2. LockInv'
  BY <1>1 DEF LockInv
<1>3. ASSUME NEW id \in Ids PROVE Lean(disk[id], disk'[id])
  <2>1. disk[id] \in Papers
    BY UploadType
  <2>2. CASE Sweep
    <3>1. disk'[id] = disk[id] \/ disk'[id] = SweptFile(disk[id])
      BY <2>2 DEF Sweep
    <3> QED
      BY <2>1, <3>1, SweptLean, LeanStays
  <2>3. CASE Tick
    <3> DEFINE a == IF disk[id].age < UPLOAD_TTL THEN disk[id].age + 1 ELSE disk[id].age
               m == IF disk[id].size = 0 THEN disk[id].made
                    ELSE IF disk[id].made < UPLOAD_TTL THEN disk[id].made + 1 ELSE disk[id].made
    <3>1. disk'[id] = IF ~Stands(disk[id]) THEN disk[id] ELSE [disk[id] EXCEPT !.age = a, !.made = m]
      BY <2>3 DEF Tick
    <3> HIDE DEF a, m
    <3>2. disk'[id].part = disk[id].part /\ disk'[id].bytes = disk[id].bytes
      BY <2>1, <3>1 DEF Papers
    <3> QED
      BY <3>2 DEF Lean
  <2> QED
    BY <2>2, <2>3
<1>4. RoomInv'
  BY <1>1, <1>3, Quiet
<1> QED
  BY <1>2, <1>4

\* The account is forgotten: nobody holds the lock, who waits for it is loose.
LEMMA ForgetRoom ==
    ASSUME StoreInv, StoreInv', LockInv, RoomInv, ForgetUploads
    PROVE  LockInv' /\ RoomInv'
<1>1. /\ lock[gen] = Free /\ lock' = lock /\ disk' = [id \in Ids |-> NoFile]
      /\ up' = [id \in Ids |-> IF up[id].pc = "wait" THEN [up[id] EXCEPT !.loose = TRUE] ELSE up[id]]
  BY DEF ForgetUploads
<1>2. ASSUME NEW id \in Ids
      PROVE  /\ up'[id].at = up[id].at /\ up'[id].call = up[id].call /\ up'[id].pc = up[id].pc
             /\ up[id].loose => up'[id].loose
             /\ up[id].pc = "wait" => up'[id].loose
  <2>1. up[id] \in Calls
    BY UploadType
  <2>2. CASE up[id].pc = "wait"
    <3>1. up'[id] = [up[id] EXCEPT !.loose = TRUE]
      BY <1>1, <2>2
    <3> QED
      BY <2>1, <3>1 DEF Calls
  <2>3. CASE up[id].pc # "wait"
    <3>1. up'[id] = up[id]
      BY <1>1, <2>3
    <3> QED
      BY <2>3, <3>1
  <2> QED
    BY <2>2, <2>3
<1>3. ASSUME NEW id \in Ids PROVE Locked(up'[id], id, gen', lock')
  <2>1. Locked(up[id], id, gen, lock) /\ id # Free
    BY BlobsAssumption DEF LockInv
  <2>2. up[id].at # "none" => up[id].loose
    BY <1>1, <2>1 DEF Locked
  <2> QED
    BY <1>2, <2>2 DEF Locked
<1>4. LockInv'
  BY <1>1, <1>3 DEF LockInv
<1>5. ASSUME NEW id \in Ids PROVE Lean(disk[id], disk'[id])
  <2>1. disk'[id] = NoFile
    BY <1>1
  <2> QED
    BY <2>1 DEF Lean, NoFile
<1>6. RoomInv'
  BY <1>2, <1>5, Quiet
<1> QED
  BY <1>4, <1>6

\* The process ends: no call is under way.
LEMMA RestartRoom ==
    ASSUME StoreInv, StoreInv', LockInv, RoomInv, Restart
    PROVE  LockInv' /\ RoomInv'
<1>1. /\ gen' = 0 /\ lock' = [g \in Gens |-> Free]
      /\ up' = [id \in Ids |-> IF Active(id) \/ up[id].at # "none" \/ up[id].removing
                               THEN [up[id] EXCEPT !.pc = IF Active(id) THEN "gone" ELSE up[id].pc,
                                                   !.at = "none", !.lock = 0, !.removing = FALSE]
                               ELSE up[id]]
  BY DEF Restart
<1>2. PICK torn \in SUBSET {id \in Ids : up[id].at = "sidecar"} :
        disk' = [id \in Ids |-> IF id \in torn THEN [disk[id] EXCEPT !.side = "torn"] ELSE disk[id]]
  BY DEF Restart
<1>3. ASSUME NEW id \in Ids
      PROVE  up'[id].at = "none" /\ up'[id].pc # "wait" /\ up'[id].loose = up[id].loose
  <2> DEFINE u == up[id]
             pc == IF Active(id) THEN "gone" ELSE u.pc
             hit == Active(id) \/ u.at # "none" \/ u.removing
  <2>1. u \in Calls
    BY UploadType
  <2>2. up'[id] = IF hit THEN [u EXCEPT !.pc = pc, !.at = "none", !.lock = 0, !.removing = FALSE] ELSE u
    BY <1>1
  <2>3. pc # "wait" /\ (~hit => u.at = "none" /\ u.pc # "wait")
    BY DEF Active
  <2> HIDE DEF pc, hit
  <2>4. CASE hit
    <3>1. up'[id] = [u EXCEPT !.pc = pc, !.at = "none", !.lock = 0, !.removing = FALSE]
      BY <2>2, <2>4
    <3> QED
      BY <2>1, <2>3, <3>1 DEF Calls
  <2>5. CASE ~hit
    BY <2>2, <2>3, <2>5
  <2> QED
    BY <2>4, <2>5
<1>4. ASSUME NEW id \in Ids PROVE Lean(disk[id], disk'[id])
  <2>1. disk[id] \in Papers
    BY UploadType
  <2>2. disk'[id] = disk[id] \/ disk'[id] = [disk[id] EXCEPT !.side = "torn"]
    BY <1>2
  <2> QED
    BY <2>1, <2>2 DEF Lean, Papers
<1>5. LockInv'
  <2>1. lock' \in [Gens -> Ids \cup {Free}]
    BY <1>1
  <2> QED
    BY <1>3, <2>1 DEF LockInv, Locked
<1>6. RoomInv'
  BY <1>3, <1>4, Quiet
<1> QED
  BY <1>5, <1>6

\* A step keeps the lock and the room.
LEMMA RoomStep ==
    ASSUME StoreInv, StoreInv', LockInv, RoomInv, [Next]_vars
    PROVE  LockInv' /\ RoomInv'
<1>1. ASSUME NEW id \in Ids, Stored(id) PROVE LockInv' /\ RoomInv'
  BY <1>1, PlainRoom, TakeLockRoom, MakeRoomRoom, WriteFileRoom, RenamePartRoom, EndsRoom DEF Stored
<1>2. ASSUME NEW id \in Ids, Forwarded(id) PROVE LockInv' /\ RoomInv'
  BY <1>2, ForwardedRoom
<1>3. CASE Sweep \/ Tick \/ ForgetUploads \/ Restart
  BY <1>3, AgeRoom, ForgetRoom, RestartRoom
<1>4. CASE RemoveAccount \/ RemoveRows \/ Downloading \/ MailLeaves \/ UNCHANGED vars
  <2>1. UNCHANGED <<disk, up, gen, lock>>
    BY <1>4 DEF RemoveAccount, RemoveRows, Downloading, Download, OpenFile, FirstWindow, NextBlock,
                NextWindow, UpstreamChunk, Flow, Stalls, MailLeaves, apart, store, vars
  <2>2. LockInv'
    BY <2>1 DEF LockInv
  <2>3. RoomInv'
    BY <2>1, Quiet, LeanStays
  <2> QED
    BY <2>2, <2>3
<1> QED
  BY <1>1, <1>2, <1>3, <1>4 DEF Next

\* What an earlier request left is within the bounds.
LEMMA RoomInit ==
    ASSUME Init PROVE LockInv /\ RoomInv
<1>1. gen = 0 /\ lock = [g \in Gens |-> Free] /\ gen \in Gens
  BY DEF Init, Gens
<1>2. PICK before \in SUBSET Ids : StoredBefore(before)
  BY DEF Init
<1>3. /\ Cardinality(before) <= Min({UPLOAD_QUOTA_BYTES, MAX_UPLOADS_PER_ACCOUNT})
      /\ up = [id \in Ids |-> IF id \in before
                           THEN [NoUpload EXCEPT !.pc = "done", !.call = "complete", !.index = 1]
                           ELSE NoUpload]
  BY <1>2 DEF StoredBefore
<1>4. PICK age \in [before -> 0..UPLOAD_TTL] :
        disk = [id \in Ids |-> IF id \in before
                              THEN [NoFile EXCEPT !.bytes = 1, !.side = "whole", !.size = 1,
                                                  !.age = age[id], !.made = age[id]]
                              ELSE NoFile]
  BY <1>2 DEF StoredBefore
<1>5. ASSUME NEW id \in Ids
      PROVE  /\ up[id].at = "none" /\ ~up[id].loose /\ up[id].pc # "wait"
             /\ disk[id].part = Absent /\ disk[id].bytes = IF id \in before THEN 1 ELSE Absent
  <2>1. up[id].at = "none" /\ ~up[id].loose /\ up[id].pc # "wait"
    BY <1>3 DEF NoUpload
  <2>2. CASE id \in before
    <3>1. disk[id] = [NoFile EXCEPT !.bytes = 1, !.side = "whole", !.size = 1,
                                    !.age = age[id], !.made = age[id]]
      BY <1>4, <2>2
    <3> QED
      BY <2>1, <2>2, <3>1 DEF NoFile
  <2>3. CASE id \notin before
    <3>1. disk[id] = NoFile
      BY <1>4, <2>3
    <3> QED
      BY <2>1, <2>3, <3>1 DEF NoFile
  <2> QED
    BY <2>2, <2>3
<1>6. LockInv
  BY <1>1, <1>5 DEF LockInv, Locked
<1>7. Loose = {} /\ Adding = {} /\ Starting = {} /\ Listed(disk) = before /\ InFlight(disk) = {}
  BY <1>5 DEF Loose, Adding, Starting, Listed, InFlight, Absent
<1>8. \A id \in Ids : Measures(disk[id])
  <2> SUFFICES ASSUME NEW id \in Ids PROVE Measures(disk[id])
    OBVIOUS
  <2> QED
    BY <1>5 DEF Measures, Absent
<1>9. Used(disk) <= Cardinality(before) /\ Used(disk) \in Int
  <2> DEFINE v == [id \in Ids |-> Weight(disk[id])]
             w == [id \in Ids |-> 0]
  <2>1. Used(disk) = Total(Ids, v)
    BY UsedIs
  <2>2. ASSUME NEW id \in Ids PROVE Weight(disk[id]) = IF id \in before THEN 1 ELSE 0
    BY <1>5 DEF Weight, Octets, Absent
  <2>3. v \in [Ids -> Int] /\ w \in [Ids -> Int] /\ \A id \in Ids : w[id] = 0
    BY <2>2
  <2>4. \A id \in Ids : v[id] <= w[id] + IF id \in before THEN 1 ELSE 0
    BY <2>2
  <2> HIDE DEF v, w
  <2>5. /\ Total(Ids, v) \in Int /\ Total(Ids, w) \in Int
        /\ Total(Ids, v) <= Total(Ids, w) + Cardinality(before)
    BY <2>3, <2>4, SumGrows, BlobsAssumption
  <2>6. Total(Ids, w) = 0
    BY <2>3, SumOfNothing, BlobsAssumption
  <2>7. Cardinality(before) \in Nat
    BY Counted
  <2> QED
    BY <2>1, <2>5, <2>6, <2>7
<1>10. /\ UPLOAD_QUOTA_BYTES \in Nat /\ MAX_UPLOADS_PER_ACCOUNT \in Nat /\ Cardinality(before) \in Nat
       /\ Cardinality({}) = 0
  BY BlobsAssumption, Counted, FS_EmptySet
<1>11. Cardinality(before) <= UPLOAD_QUOTA_BYTES /\ Cardinality(before) <= MAX_UPLOADS_PER_ACCOUNT
  BY <1>3, <1>10, MinOfTwo
<1>12. RoomInv
  BY <1>7, <1>8, <1>9, <1>10, <1>11 DEF RoomInv
<1> QED
  BY <1>6, <1>12

\* The uploads of an account stay within their quota and their count, parts
\* in flight included, up to one block and one file for every upload whose
\* call ran outside the account's lock, although a call makes room in one
\* step and takes it in another.
THEOREM RoomIsKept == Spec => []WithinBounds
<1>1. Init => StoreInv /\ LockInv /\ RoomInv
  BY InitHolds, RoomInit
<1>2. StoreInv /\ LockInv /\ RoomInv /\ [Next]_vars => (StoreInv /\ LockInv /\ RoomInv)'
  BY StepKeeps, RoomStep
<1>3. StoreInv /\ RoomInv => WithinBounds
  <2> SUFFICES ASSUME StoreInv, RoomInv PROVE WithinBounds
    OBVIOUS
  <2>1. /\ Loose \in SUBSET Ids /\ Listed(disk) \in SUBSET Ids /\ InFlight(disk) \in SUBSET Ids
        /\ Adding \in SUBSET Ids /\ Starting \in SUBSET Ids
    BY DEF Loose, Listed, InFlight, Adding, Starting
  <2> DEFINE a == Cardinality(Loose)
             b == Cardinality(Adding)
             c == Cardinality(Starting)
             l == Cardinality(Listed(disk))
             i == Cardinality(InFlight(disk))
  <2>2. /\ a \in Nat /\ b \in Nat /\ c \in Nat /\ l \in Nat /\ i \in Nat
        /\ UPLOAD_QUOTA_BYTES \in Nat /\ MAX_UPLOADS_PER_ACCOUNT \in Nat
    BY <2>1, Counted, BlobsAssumption
  <2>3. Used(disk) \in Int
    <3>1. disk \in [Ids -> Papers] /\ \A id \in Ids : Measures(disk[id]) /\ Lean(disk[id], disk[id])
      BY LeanStays DEF StoreInv, RoomInv
    <3> QED
      BY <3>1, LeanUses
  <2>4. Used(disk) + b <= UPLOAD_QUOTA_BYTES + a /\ l + i + c <= MAX_UPLOADS_PER_ACCOUNT + a
    BY DEF RoomInv
  <2>5. Used(disk) <= UPLOAD_QUOTA_BYTES + a /\ l + i <= MAX_UPLOADS_PER_ACCOUNT + a
    <3> HIDE DEF a, b, c, l, i
    <3> QED
      BY <2>2, <2>3, <2>4
  <2> QED
    BY <2>5 DEF WithinBounds
<1> QED
  BY <1>1, <1>2, <1>3, PTL DEF Spec

=============================================================================
