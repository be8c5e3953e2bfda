----------------------------- MODULE EmailQuery -----------------------------
(***************************************************************************)
(* Email/query on an IMAP account, over the threads of its rows.  Rows     *)
(* enter and leave by the transactions of the sync, each of which joins,   *)
(* merges and ends threads and logs what it did.  A query of one mailbox   *)
(* and its keywords is answered from the memberships; any other is a       *)
(* search over the rows, and one with a text or a sender asks the server   *)
(* first: a plan of folders and coarse keys in a first pass over the       *)
(* request, the SEARCH of each folder on a connection of its own or the    *)
(* hits kept of an equal plan, and the SQL over the hits in a second pass. *)
(* In between mail arrives, leaves, is moved by the bridge or renumbered,  *)
(* kept hits age and the request goes away.                                *)
(*                                                                         *)
(* The account keeps its mail in folders or is a Gmail account, whose      *)
(* stores are All Mail (1) and Trash (2) and whose mailbox 3 is a label.   *)
(***************************************************************************)
EXTENDS Integers, Sequences, FiniteSets, SequencesExt

CONSTANTS
  Kinds,                 \* bound of the model: the kinds of accounts
  MaxFaults,             \* bounds of the model: what others and the bridge do to the mail
  MaxSearchFaults,       \* while nobody searches and while two requests do
  QUERY_LIMIT,           \* the most ids of one answer
  SEARCH_CACHE_ENTRIES,  \* the searches kept
  SEARCH_CACHE_TTL,      \* how long one is, in ticks of the model's clock
  DAY                    \* the seconds of a day of the model

ASSUME EmailQueryAssumption ==
  /\ Kinds \subseteq {"folders", "gmail"}
  /\ {MaxFaults, MaxSearchFaults} \subseteq Nat
  /\ {QUERY_LIMIT, SEARCH_CACHE_ENTRIES, SEARCH_CACHE_TTL, DAY} \subseteq Nat \ {0}

NULL == -1
None == 0
Messages == 1..4
Hashes == 1..3                \* of the message ids the headers name
Folders == 1..2
Label == 3
Requests == 1..2

(* External: what the messages are.  The third names an id of each of the  *)
(* first two, the last none; the first two came in one second.             *)
NamedIds(m) == <<{1, 3}, {2}, {1, 2}, {}>>[m]
ReceivedAt(m) == <<2, 2, 5, 4>>[m]
Zone(m) == <<-1, 1, 1, 0>>[m] \* of the date as the server wrote it down
KeywordsOf(m) == <<{"$flagged"}, {"$seen"}, {"$flagged"}, {}>>[m]
HasAttachment(m) == m \in {1, 3}
HasText(m) == m \in 1..3
Labeled(m) == m \in {1, 3}

VARIABLES
  kind, asking,  \* the account's kind, whether requests search it
  box, thrid,    \* external: the mail on the server and the threads Gmail names
  rows, hashes,  \* bridge_emails with its memberships, bridge_message_ids
  pin, done,     \* uid_validity of bridge_mailboxes, done of bridge_sync
  told,          \* the log rows of the last transaction
  req,           \* the requests
  wire, kept, forgets, \* the search connection's holder and Kept
  faults,
  restless       \* history: the mail something other than the bridge touched

server == <<box, thrid>>
store  == <<rows, hashes, pin, done>>
seek   == <<wire, kept, forgets>>
vars   == <<kind, asking, server, store, told, req, seek, faults, restless>>

Gmail == kind = "gmail"
Mailboxes == IF Gmail THEN Folders \cup {Label} ELSE Folders

(* What happens outside is bounded.                                        *)
Fault == faults < (IF asking THEN MaxSearchFaults ELSE MaxFaults) /\ faults' = faults + 1

-----------------------------------------------------------------------------
(* External: the mail of a folder by UID.                                  *)

UidsOf(f) == {u \in DOMAIN box[f].at : box[f].at[u] # None}
MailOf(f) == {box[f].at[u] : u \in UidsOf(f)}
Lying == UNION {MailOf(f) : f \in Folders}

-----------------------------------------------------------------------------
(* The rows and what one write does to them: a transaction is a record of  *)
(* the tables and of the ledger's notes.                                   *)

Held(rs, f, u) == \E row \in rs : row.folder = f /\ row.uid = u
EmailsOf(rs, t) == {row \in rs : row.thread = t}
IdsOf(rs) == {row.id : row \in rs}
Memberships(row) ==
  {row.folder} \cup (IF Gmail /\ row.folder = 1 /\ Labeled(row.msg) THEN {Label} ELSE {})

(* The ids nothing names: an email and a thread take the first of them.    *)
FreshId(rs) == CHOOSE id \in 1..(Cardinality(rs) + 1) :
                 /\ id \notin IdsOf(rs)
                 /\ \A other \in 1..(id - 1) : other \in IdsOf(rs)
FreshThread(tx) ==
  LET taken == {row.thread : row \in tx.rows} \cup {tx.hashes[h] : h \in Hashes}
  IN  CHOOSE t \in 1..(Cardinality(taken) + 1) : t \notin taken /\ \A o \in 1..(t - 1) : o \in taken

Begin == [rows |-> rows, hashes |-> hashes, notes |-> {}]

KindOf(tx, of, id) ==
  IF \E n \in tx.notes : n.of = of /\ n.id = id
  THEN (CHOOSE n \in tx.notes : n.of = of /\ n.id = id).kind ELSE "none"

(* One entry per object: what a write created and ended never existed.     *)
Fold(before, change) ==
  CASE before = "created" /\ change = "destroyed"                  -> "none"
    [] before = "created"                                          -> "created"
    [] before \in {"destroyed", "updated"} /\ change = "created"   -> "updated"
    [] before = "destroyed"                                        -> "destroyed"
    [] OTHER                                                       -> change

Logged(tx, lines) ==
  [tx EXCEPT !.notes = {n \in @ : ~\E l \in lines : l.of = n.of /\ l.id = n.id}
                         \cup {l \in lines : l.kind # "none"}]

Note(tx, of, ids, change) ==
  Logged(tx, {[of |-> of, id |-> id, kind |-> Fold(KindOf(tx, of, id), change)] : id \in ids})

-----------------------------------------------------------------------------
(* Threads.                                                                *)

(* Mutant: a merge moves the emails and leaves the hashes where they point.*)
MergeEmails(tx, losers, survivor) ==
  LET moved == {row \in tx.rows : row.thread \in losers}
      noted == Note(Note(tx, "Email", IdsOf(moved), "updated"), "Thread", losers, "destroyed")
  IN  [noted EXCEPT !.rows = (@ \ moved) \cup {[row EXCEPT !.thread = survivor] : row \in moved}]

(* The threads that lose: their emails and hashes move to the survivor.    *)
Merge(tx, losers, survivor) ==
  LET moved == {row \in tx.rows : row.thread \in losers}
      noted == Note(Note(tx, "Email", IdsOf(moved), "updated"), "Thread", losers, "destroyed")
  IN  [noted EXCEPT !.rows = (@ \ moved) \cup {[row EXCEPT !.thread = survivor] : row \in moved},
                    !.hashes = [h \in Hashes |-> IF @[h] \in losers THEN survivor ELSE @[h]]]

(* The thread of the most emails survives, the smaller id on a tie.        *)
Survivor(tx, named) ==
  CHOOSE t \in named : \A o \in named :
    LET size(x) == Cardinality(EmailsOf(tx.rows, x))
    IN  size(t) > size(o) \/ (size(t) = size(o) /\ t <= o)

(* Mutant: a thread of one email that takes in another reads as created.   *)
JoinKindLone(held, merged) == IF held <= 1 /\ merged THEN "created" ELSE "updated"

JoinKind(held, merged) == IF held = 0 /\ ~merged THEN "created" ELSE "updated"

(* The thread of a message whose header names these hashes.                *)
Join(tx, names) ==
  LET named    == {tx.hashes[h] : h \in names} \ {None}
      thread   == IF named = {} THEN FreshThread(tx) ELSE Survivor(tx, named)
      losers   == named \ {thread}
      held     == Cardinality(EmailsOf(tx.rows, thread))
      merged   == Merge(tx, losers, thread)
      noted    == Note(merged, "Thread", {thread}, JoinKind(held, losers # {}))
  IN  [tx |-> [noted EXCEPT !.hashes = [h \in Hashes |-> IF h \in names THEN thread ELSE @[h]]],
       thread |-> thread]

(* The thread a server names for a row about to be written.                *)
Claim(tx, thread) ==
  Note(tx, "Thread", {thread}, IF EmailsOf(tx.rows, thread) = {} THEN "created" ELSE "updated")

Unpointed(tx, dead) == [tx EXCEPT !.hashes = [h \in Hashes |-> IF @[h] \in dead THEN None ELSE @[h]]]

(* Emails left these threads; one that holds none anymore ends with its    *)
(* hashes.                                                                 *)
LeftBy(tx, threads) ==
  LET dead == {t \in threads : EmailsOf(tx.rows, t) = {}}
  IN  Unpointed(Note(Note(tx, "Thread", dead, "destroyed"), "Thread", threads \ dead, "updated"), dead)

-----------------------------------------------------------------------------
(* The transactions of the sync.                                           *)

Insert(tx, id, m, f, u, thread) ==
  [tx EXCEPT !.rows = @ \cup {[id |-> id, msg |-> m, folder |-> f, uid |-> u, thread |-> thread]}]

(* A message of a folder account: the waiting row of a renumbered folder   *)
(* that matches it, else a new row in the thread its header names.         *)
ArriveInFolder(tx, f, u) ==
  LET m       == box[f].at[u]
      waiting == {row \in tx.rows : row.folder = f /\ row.uid < 0 /\ row.msg = m}
      match   == CHOOSE row \in waiting : TRUE
      joined  == Join(tx, NamedIds(m))
      id      == FreshId(tx.rows)
  IN  IF waiting # {}
      THEN Note([tx EXCEPT !.rows = (@ \ {match}) \cup {[match EXCEPT !.uid = u]}],
                "Email", {match.id}, "updated")
      ELSE Note(Insert(joined.tx, id, m, f, u, joined.thread), "Email", {id}, "created")

(* A message of a Gmail account: the row of its id moved to where it lies, *)
(* unless the folder holds it under another UID.                           *)
ArriveInStore(tx, f, u) ==
  LET m      == box[f].at[u]
      found  == {row \in tx.rows : row.msg = m}
      row    == CHOOSE r \in found : TRUE
      id     == IF found = {} THEN FreshId(tx.rows) ELSE row.id
      moves  == found = {} \/ row.thread # thrid[m]
      claimed == IF moves THEN Claim(tx, thrid[m]) ELSE tx
      written == Insert([claimed EXCEPT !.rows = @ \ found], id, m, f, u, thrid[m])
      left   == IF found # {} /\ moves THEN LeftBy(written, {row.thread}) ELSE written
  IN  IF found # {} /\ row.folder = f /\ row.uid > 0 THEN tx
      ELSE Note(left, "Email", {id}, IF found = {} THEN "created" ELSE "updated")

(* The rows that leave in one statement each: the lines fold onto the      *)
(* ledger's, and every thread the write ended loses its hashes.            *)
Leave(tx, gone) ==
  LET threads == {row.thread : row \in gone}
      stay    == tx.rows \ gone
      line(t) == IF EmailsOf(stay, t) = {} THEN "destroyed"
                 ELSE IF KindOf(tx, "Thread", t) = "created" THEN "created" ELSE "updated"
      logged  == Logged(tx, {[of |-> "Thread", id |-> t, kind |-> line(t)] : t \in threads}
                              \cup [of : {"Email"}, id : IdsOf(gone), kind : {"destroyed"}])
      dead    == {n.id : n \in {e \in logged.notes : e.of = "Thread" /\ e.kind = "destroyed"}}
  IN  Unpointed([logged EXCEPT !.rows = stay], dead)

Waiting(rs, f) == {row \in rs : row.folder = f /\ row.uid < 0}

Commits(tx) == rows' = tx.rows /\ hashes' = tx.hashes /\ told' = tx.notes

Missing(f) == {u \in UidsOf(f) : ~Held(rows, f, u)}
Stands(f) == pin[f] = box[f].validity

(* One batch: the first sync of a folder newest first, which ends what     *)
(* still waits, and new mail oldest first.                                 *)
ApplyBatch(f) ==
  /\ Stands(f) /\ (Missing(f) # {} \/ ~done[f])
  /\ LET uids == IF done[f] THEN SetToSortSeq(Missing(f), <) ELSE SetToSortSeq(Missing(f), >)
         step(tx, u) == IF Gmail THEN ArriveInStore(tx, f, u) ELSE ArriveInFolder(tx, f, u)
         tx == FoldLeft(step, Begin, uids)
     IN  Commits(IF done[f] THEN tx ELSE Leave(tx, Waiting(tx.rows, f)))
  /\ done' = [done EXCEPT ![f] = TRUE]
  /\ UNCHANGED <<kind, asking, server, pin, req, seek, faults, restless>>

Gone(f) == {row \in rows : row.folder = f /\ row.uid > 0 /\ row.uid \notin UidsOf(f)}

RemoveUids(f) ==
  /\ ~Gmail /\ Stands(f) /\ done[f] /\ Gone(f) # {}
  /\ LET tx == Note([Begin EXCEPT !.rows = @ \ Gone(f)], "Email", IdsOf(Gone(f)), "destroyed")
     IN  Commits(LeftBy(tx, {row.thread : row \in Gone(f)}))
  /\ UNCHANGED <<kind, asking, server, pin, done, req, seek, faults, restless>>

(* On Gmail the rows wait for a store that holds their message.            *)
ParkUids(f) ==
  /\ Gmail /\ Stands(f) /\ done[f] /\ Gone(f) # {}
  /\ Commits([Begin EXCEPT !.rows = (@ \ Gone(f)) \cup {[row EXCEPT !.uid = -@] : row \in Gone(f)}])
  /\ UNCHANGED <<kind, asking, server, pin, done, req, seek, faults, restless>>

(* What waits once every store was read.                                   *)
SweepParked ==
  /\ Gmail /\ \A f \in Folders : Stands(f) /\ done[f] /\ Gone(f) = {} /\ Missing(f) = {}
  /\ \E row \in rows : row.uid < 0
  /\ Commits(Leave(Leave(Begin, Waiting(rows, 1)), Waiting(rows, 2)))
  /\ UNCHANGED <<kind, asking, server, pin, done, req, seek, faults, restless>>

(* The pass over the mailboxes meets another UIDVALIDITY: the rows wait,   *)
(* what an earlier renumbering left waiting leaves first.                  *)
SeeValidity(f) ==
  /\ ~Stands(f)
  /\ LET tx == IF pin[f] = NULL THEN Begin ELSE Leave(Begin, Waiting(rows, f))
     IN  Commits([tx EXCEPT !.rows = {IF row.folder = f THEN [row EXCEPT !.uid = -@] ELSE row
                                        : row \in @}])
  /\ pin' = [pin EXCEPT ![f] = box[f].validity]
  /\ done' = [done EXCEPT ![f] = FALSE]
  /\ UNCHANGED <<kind, asking, server, req, seek, faults, restless>>

-----------------------------------------------------------------------------
(* The queries over the rows.                                              *)

(* A filter, as the call reads it.                                         *)
Plain == [in_mailbox |-> None, other_than |-> {NULL}, has_keyword |-> "none", not_keyword |-> "none",
          text |-> "none", after |-> NULL, before |-> NULL, has_attachment |-> {TRUE, FALSE}]

Searches(filter) == filter.text \notin {"none", "blank"}

IsWindow(filter) ==
  /\ filter.in_mailbox # None /\ filter.other_than = {NULL}
  /\ filter.after = NULL /\ filter.before = NULL
  /\ filter.has_attachment = {TRUE, FALSE} /\ ~Searches(filter)

KeywordTest(row, filter) ==
  /\ filter.has_keyword # "none" => filter.has_keyword \in KeywordsOf(row.msg)
  /\ filter.not_keyword \notin KeywordsOf(row.msg)

Ahead(n, m, ascending) ==
  LET newer == \/ ReceivedAt(n.msg) > ReceivedAt(m.msg)
               \/ ReceivedAt(n.msg) = ReceivedAt(m.msg) /\ n.id < m.id
  IN  IF ascending THEN n # m /\ ~newer ELSE newer

Members(mailbox) == {row \in rows : mailbox \in Memberships(row)}

(* The rows of a mailbox window; collapsed, those no email of the thread   *)
(* in that mailbox that passes sorts ahead of.                             *)
QueryRows(filter, ascending, collapse) ==
  {m \in Members(filter.in_mailbox) :
     /\ KeywordTest(m, filter)
     /\ collapse => ~\E n \in Members(filter.in_mailbox) :
                       n.thread = m.thread /\ KeywordTest(n, filter) /\ Ahead(n, m, ascending)}

(* What an email of a search passes.                                       *)
Conditions(row, filter) ==
  /\ filter.in_mailbox # None => filter.in_mailbox \in Memberships(row)
  /\ filter.other_than # {NULL} => Memberships(row) \ filter.other_than # {}
  /\ filter.after # NULL => ReceivedAt(row.msg) >= filter.after
  /\ filter.before # NULL => ReceivedAt(row.msg) < filter.before
  /\ HasAttachment(row.msg) \in filter.has_attachment
  /\ KeywordTest(row, filter)

Everywhere == {[folder |-> row.folder, uid |-> row.uid] : row \in rows}

Matched(hits, filter) ==
  {row \in rows : [folder |-> row.folder, uid |-> row.uid] \in hits /\ Conditions(row, filter)}

(* The rows of a search; collapsed, the first of each thread.              *)
SearchRows(hits, filter, ascending, collapse) ==
  LET matched == Matched(hits, filter)
      rank(m) == Cardinality({n \in matched : n.thread = m.thread /\ Ahead(n, m, ascending)}) + 1
  IN  {m \in matched : collapse => rank(m) = 1}

(* A window of a result: where it starts and the ids it holds.             *)
Limit(asked) == IF asked # NULL /\ asked <= QUERY_LIMIT THEN asked ELSE QUERY_LIMIT

IndexOf(result, m, ascending) == Cardinality({n \in result : Ahead(n, m, ascending)})

AnchorOf(result, id) == {m \in result : m.id = id}

Position(result, start, ascending) ==
  LET saturating(n) == IF n < 0 THEN 0 ELSE n
  IN  IF start.anchor # None
      THEN saturating(IndexOf(result, CHOOSE m \in AnchorOf(result, start.anchor) : TRUE, ascending)
                        + start.index)
      ELSE IF start.index < 0 THEN saturating(Cardinality(result) + start.index) ELSE start.index

AnchorFound(result, start) == start.anchor # None => AnchorOf(result, start.anchor) # {}

PageIds(result, position, limit, ascending) ==
  LET page == {m \in result : IndexOf(result, m, ascending) \in position..(position + limit - 1)}
  IN  [i \in 1..Cardinality(page) |->
         (CHOOSE m \in page : IndexOf(result, m, ascending) = position + i - 1).id]

-----------------------------------------------------------------------------
(* The plan of a search: which folders and which coarse keys.              *)

Day(second) == second \div DAY
Writable(day) == day >= 0

(* The SINCE day is the day before, the BEFORE day two past the last that  *)
(* matches: a server compares the day as written.                          *)
SinceDay(second) == Day(second) - 1
BeforeDay(second) == Day(second - 1) + 2

Coarse(day) == IF Writable(day) THEN day ELSE NULL

(* The folder as a session searches it: one whose rows stand under a       *)
(* UIDVALIDITY.                                                            *)
Searched(f, label) ==
  IF pin[f] = NULL THEN {} ELSE {[id |-> f, validity |-> pin[f], label |-> label]}

FolderAccount(filter) ==
  UNION {Searched(f, FALSE) : f \in {g \in Folders :
    IF filter.in_mailbox # None THEN g = filter.in_mailbox ELSE g \notin filter.other_than}}

GmailAccount(filter) ==
  CASE filter.in_mailbox = Label   -> Searched(1, TRUE)
    [] filter.in_mailbox # None    -> Searched(filter.in_mailbox, FALSE)
    [] OTHER                       -> Searched(1, FALSE)
                                        \cup (IF 2 \in filter.other_than THEN {} ELSE Searched(2, FALSE))

PlanOf(filter) ==
  [unseen  |-> filter.not_keyword = "$seen",
   flagged |-> filter.has_keyword = "$flagged",
   since   |-> IF filter.after = NULL THEN NULL ELSE Coarse(SinceDay(filter.after)),
   before  |-> IF filter.before = NULL THEN NULL ELSE Coarse(BeforeDay(filter.before)),
   folders |-> IF Gmail THEN GmailAccount(filter) ELSE FolderAccount(filter)]

(* Trash runs last.                                                        *)
FirstOf(folders) == CHOOSE f \in folders : \A other \in folders : f.id <= other.id

(* External: what the server's SEARCH of a folder finds under the keys.    *)
Finds(plan, folder, m) ==
  LET written == Day(ReceivedAt(m) + Zone(m))
  IN  /\ HasText(m)
      /\ plan.unseen => "$seen" \notin KeywordsOf(m)
      /\ plan.flagged => "$flagged" \in KeywordsOf(m)
      /\ plan.since # NULL => written >= plan.since
      /\ plan.before # NULL => written < plan.before
      /\ folder.label => Labeled(m)

(* The hits of one folder; one the server shows under another UIDVALIDITY  *)
(* is passed over.                                                         *)
FolderHits(plan, folder) ==
  IF box[folder.id].validity # folder.validity THEN {}
  ELSE {[folder |-> folder.id, uid |-> u] :
          u \in {v \in UidsOf(folder.id) : Finds(plan, folder, box[folder.id].at[v])}}

-----------------------------------------------------------------------------
(* A request with a search.                                                *)

beside == <<kind, asking, server, store, faults, restless>>
NoPlan == [folders |-> {}]
Idle == [pc |-> "idle", filter |-> Plain, plan |-> NoPlan, left |-> {}, hits |-> {},
         forgets |-> 0, calm |-> {}, missed |-> {}, wrong |-> {}]

(* The mail that was there from the start and stands where its row says.   *)
Calm == {row.msg : row \in {r \in rows : /\ r.uid > 0 /\ Stands(r.folder) /\ r.uid \in UidsOf(r.folder)
                                         /\ r.msg \notin restless}}

(* A request that ended, with ids, with an error or unheard, is as one     *)
(* that never was.                                                         *)
Ends(r) == req' = [req EXCEPT ![r] = Idle]

(* The filters of the requests: the account and one mailbox.               *)
Asks == {[Plain EXCEPT !.text = "word"], [Plain EXCEPT !.text = "long"],
         [Plain EXCEPT !.text = "word", !.in_mailbox = IF Gmail THEN Label ELSE 1]}

(* The first pass: a term past the caps is refused, else a plan stands.    *)
(* Requests are alike: the second comes while the first is under way, with *)
(* the same filter, since others never meet.                               *)
Ask(r) ==
  /\ asking /\ req[r].pc = "idle" /\ \A other \in 1..(r - 1) : req[other].pc # "idle"
  /\ \E filter \in IF r = 1 THEN Asks ELSE {req[1].filter} :
       IF filter.text = "long" THEN Ends(r)
       ELSE req' = [req EXCEPT ![r] = [Idle EXCEPT !.pc = "planned", !.filter = filter,
                                                   !.plan = PlanOf(filter), !.calm = Calm]]
  /\ told' = {} /\ UNCHANGED <<beside, seek>>

Young(entries) == SelectSeq(entries, LAMBDA e : e.age < SEARCH_CACHE_TTL)
KeptFor(plan) == {e.hits : e \in {f \in Range(Young(kept)) : f.plan = plan}}

(* The hits of an equal plan inside the TTL; a plan without folders finds  *)
(* nothing; any other waits for the connection.                            *)
Look(r) ==
  /\ req[r].pc = "planned"
  /\ kept' = Young(kept)
  /\ LET found == KeptFor(req[r].plan)
     IN  req' = [req EXCEPT ![r].pc = IF found # {} \/ req[r].plan.folders = {} THEN "found" ELSE "waiting",
                            ![r].hits = IF found # {} THEN CHOOSE h \in found : TRUE ELSE {}]
  /\ told' = {} /\ UNCHANGED <<beside, wire, forgets>>

(* The connection is the request's: the search ahead may have read the     *)
(* same plan.                                                              *)
Take(r) ==
  /\ req[r].pc = "waiting" /\ wire = None
  /\ kept' = Young(kept)
  /\ LET found == KeptFor(req[r].plan)
     IN  IF found # {}
         THEN /\ req' = [req EXCEPT ![r].pc = "found", ![r].hits = CHOOSE h \in found : TRUE]
              /\ UNCHANGED wire
         ELSE /\ req' = [req EXCEPT ![r].pc = "reading", ![r].left = req[r].plan.folders,
                                    ![r].forgets = forgets]
              /\ wire' = r
  /\ told' = {} /\ UNCHANGED <<beside, forgets>>

ReadFolder(r) ==
  /\ req[r].pc = "reading" /\ req[r].left # {}
  /\ LET folder == FirstOf(req[r].left)
     IN  req' = [req EXCEPT ![r].left = @ \ {folder},
                            ![r].hits = @ \cup FolderHits(req[r].plan, folder)]
  /\ told' = {} /\ UNCHANGED <<beside, seek>>

(* Mutant: hits read across a forget are kept.                             *)
KeepAnyway(plan, hits, counted) ==
  LET others == SelectSeq(kept, LAMBDA e : e.plan # plan)
      room   == IF Len(others) >= SEARCH_CACHE_ENTRIES THEN Tail(others) ELSE others
  IN  Append(room, [plan |-> plan, hits |-> hits, age |-> 0])

(* The hits in place of an equal plan's, the oldest leaving; nothing when  *)
(* a forget came since the search began.                                   *)
Keep(plan, hits, counted) ==
  LET others == SelectSeq(kept, LAMBDA e : e.plan # plan)
      room   == IF Len(others) >= SEARCH_CACHE_ENTRIES THEN Tail(others) ELSE others
  IN  IF forgets # counted THEN kept ELSE Append(room, [plan |-> plan, hits |-> hits, age |-> 0])

Finish(r) ==
  /\ req[r].pc = "reading" /\ req[r].left = {}
  /\ kept' = Keep(req[r].plan, req[r].hits, req[r].forgets)
  /\ wire' = None
  /\ req' = [req EXCEPT ![r].pc = "found"]
  /\ told' = {} /\ UNCHANGED <<beside, forgets>>

(* The deadline passes, or the server refuses, cannot read UTF-8 or        *)
(* answers in a way the bridge cannot read.                                *)
SearchFails(r) ==
  /\ req[r].pc \in {"planned", "waiting", "reading"}
  /\ Ends(r)
  /\ wire' = IF wire = r THEN None ELSE wire
  /\ told' = {} /\ UNCHANGED <<beside, kept, forgets>>

(* The second pass: the SQL over the hits.  History: the mail that should  *)
(* be in the answer and is not, and what is in it without the text.        *)
Answer(r) ==
  /\ req[r].pc = "found"
  /\ LET a      == req[r]
         result == SearchRows(a.hits, a.filter, FALSE, FALSE)
         due    == {row \in rows : /\ row.msg \in a.calm \cap Calm /\ HasText(row.msg)
                                   /\ Conditions(row, a.filter)}
         same   == a.plan = PlanOf(a.filter)
     IN  req' = [req EXCEPT ![r] = [Idle EXCEPT
                   !.missed = IdsOf(due \ result),
                   !.wrong = IF same THEN {row.id : row \in {m \in result : ~HasText(m.msg)}} ELSE {}]]
  /\ told' = {} /\ UNCHANGED <<beside, seek>>

(* The request goes away, its session with it.                             *)
GoAway(r) ==
  /\ req[r].pc \in {"waiting", "reading"}
  /\ Ends(r)
  /\ wire' = IF wire = r THEN None ELSE wire
  /\ told' = {} /\ UNCHANGED <<beside, kept, forgets>>

Tick ==
  /\ kept # <<>> /\ \E e \in Range(kept) : e.age < SEARCH_CACHE_TTL
  /\ kept' = [i \in DOMAIN kept |-> [kept[i] EXCEPT !.age = IF @ < SEARCH_CACHE_TTL THEN @ + 1 ELSE @]]
  /\ told' = {} /\ UNCHANGED <<beside, req, wire, forgets>>

-----------------------------------------------------------------------------
(* The bridge moves an email: the kept hits are forgotten and the row      *)
(* stands where the message went.  A search under way owes the mail        *)
(* nothing more.                                                           *)
Move(row, g) ==
  /\ row.uid > 0 /\ row.folder # g /\ Stands(row.folder) /\ Stands(g) /\ done[g]
  /\ row.uid \in UidsOf(row.folder) /\ Fault
  /\ box' = [box EXCEPT ![row.folder].at[row.uid] = None, ![g].at = Append(@, row.msg)]
  /\ rows' = (rows \ {row}) \cup {[row EXCEPT !.folder = g, !.uid = Len(box[g].at) + 1]}
  /\ told' = {[of |-> "Email", id |-> row.id, kind |-> "updated"]}
  /\ kept' = <<>> /\ forgets' = forgets + 1
  /\ req' = [r \in Requests |-> [req[r] EXCEPT !.calm = @ \ {row.msg}]]
  /\ UNCHANGED <<kind, asking, thrid, hashes, pin, done, wire, restless>>

(* External: other clients and the server.                                 *)
world == <<kind, asking, store, req, seek>>

Deliver(m, f) ==
  /\ m \notin Lying /\ Fault
  /\ box' = [box EXCEPT ![f].at = Append(@, m)]
  /\ restless' = restless \cup {m}
  /\ told' = {} /\ UNCHANGED <<world, thrid>>

Expunge(f, u) ==
  /\ u \in UidsOf(f) /\ Fault
  /\ restless' = restless \cup {box[f].at[u]}
  /\ box' = [box EXCEPT ![f].at[u] = None]
  /\ told' = {} /\ UNCHANGED <<world, thrid>>

Renumber(f) ==
  /\ MailOf(f) # {} /\ Fault
  /\ box' = [box EXCEPT ![f] = [at |-> SetToSortSeq(MailOf(f), >),
                                validity |-> @.validity + 1]]
  /\ restless' = restless \cup MailOf(f)
  /\ told' = {} /\ UNCHANGED <<world, thrid>>

(* Gmail files a message under another thread, which no search asks for.   *)
Rethread(m) ==
  /\ Gmail /\ ~asking /\ Fault
  /\ thrid' = [thrid EXCEPT ![m] = IF @ = 11 THEN 12 ELSE 11]
  /\ told' = {} /\ UNCHANGED <<world, box, restless>>

-----------------------------------------------------------------------------
RowAt(id, m, u, thread) == [id |-> id, msg |-> m, folder |-> 1, uid |-> u, thread |-> thread]

(* While nobody searches the first sync of both folders is still to come;  *)
(* a search finds the inbox done.                                          *)
Init ==
  /\ kind \in Kinds /\ asking \in BOOLEAN
  /\ thrid = [m \in Messages |-> IF m = 2 THEN 12 ELSE 11]
  /\ pin = <<0, NULL>>
  /\ IF asking
     THEN /\ box = <<[at |-> <<1, 4>>, validity |-> 0], [at |-> <<>>, validity |-> 0]>>
          /\ rows = {RowAt(1, 4, 2, IF Gmail THEN 11 ELSE 1), RowAt(2, 1, 1, IF Gmail THEN 11 ELSE 2)}
          /\ hashes = IF Gmail THEN <<0, 0, 0>> ELSE <<2, 0, 2>>
          /\ done = <<TRUE, FALSE>>
     ELSE /\ box = <<[at |-> <<1, 2>>, validity |-> 0], [at |-> <<4, 3>>, validity |-> 0]>>
          /\ rows = {} /\ hashes = <<0, 0, 0>> /\ done = <<FALSE, FALSE>>
  /\ told = {}
  /\ req = [r \in Requests |-> Idle]
  /\ wire = None /\ kept = <<>> /\ forgets = 0
  /\ faults = 0 /\ restless = {}

Sync == \/ \E f \in Folders : ApplyBatch(f) \/ RemoveUids(f) \/ ParkUids(f) \/ SeeValidity(f)
        \/ SweepParked

Search == \E r \in Requests :
  Ask(r) \/ Look(r) \/ Take(r) \/ ReadFolder(r) \/ Finish(r) \/ SearchFails(r) \/ Answer(r) \/ GoAway(r)

Outside == \/ \E m \in Messages : (\E f \in Folders : Deliver(m, f)) \/ Rethread(m)
           \/ \E f \in Folders : Renumber(f) \/ \E u \in 1..Len(box[f].at) : Expunge(f, u)
           \/ \E row \in rows, g \in Folders : Move(row, g)

Next == Sync \/ Search \/ Tick \/ Outside

Spec == Init /\ [][Next]_vars

-----------------------------------------------------------------------------
TypeOK ==
  /\ kind \in {"folders", "gmail"}
  /\ rows \subseteq [id : Nat \ {0}, msg : Messages, folder : Folders, uid : Int \ {0}, thread : Nat \ {0}]
  /\ hashes \in [Hashes -> Nat]
  /\ wire \in {None} \cup Requests /\ forgets \in Nat /\ faults \in Nat
  /\ Len(kept) <= SEARCH_CACHE_ENTRIES
  /\ wire # None => req[wire].pc = "reading"

(* On an account without Gmail's threads two emails that name a common id  *)
(* lie in one thread, an id points at the thread of the emails that name   *)
(* it and at no thread without emails, and emails nothing links never      *)
(* share a thread: whichever order they came in, left and came back.       *)
ThreadsHold ==
  /\ \A one, other \in rows : one # other => one.id # other.id
  /\ ~Gmail =>
       /\ \A row \in rows : \A h \in NamedIds(row.msg) : hashes[h] = row.thread
       /\ \A h \in Hashes : hashes[h] # None => EmailsOf(rows, hashes[h]) # {}
       /\ \A one, other \in rows : 4 \in {one.msg, other.msg} /\ one # other
            => one.thread # other.thread
  /\ Gmail => \A one, other \in rows : one # other => one.msg # other.msg

ToldOf(of, change) == {n.id : n \in {e \in told' : e.of = of /\ e.kind = change}}
Threads(rs) == {row.thread : row \in rs}

(* What a write logs is what a client that holds the state before it has   *)
(* to learn: the threads and emails that came and ended are exactly those  *)
(* it names so, and one that changed is named.                             *)
ThreadsTold ==
  [][/\ ToldOf("Thread", "created") = Threads(rows') \ Threads(rows)
     /\ ToldOf("Thread", "destroyed") = Threads(rows) \ Threads(rows')
     /\ ToldOf("Email", "created") = IdsOf(rows') \ IdsOf(rows)
     /\ ToldOf("Email", "destroyed") = IdsOf(rows) \ IdsOf(rows')
     /\ \A t \in Threads(rows) \cap Threads(rows') :
          IdsOf(EmailsOf(rows, t)) # IdsOf(EmailsOf(rows', t)) => t \in ToldOf("Thread", "updated")
     /\ \A was \in rows, is \in rows' : was.id = is.id /\ <<was.thread, Memberships(was)>> #
          <<is.thread, Memberships(is)>> => is.id \in ToldOf("Email", "updated")]_vars

(* A write has just ended and nobody searches: what a query answers then   *)
(* it answers until the next write.                                        *)
Quiet == told # {} /\ ~asking

Wanted(filter) == {row \in rows : (Searches(filter) => HasText(row.msg)) /\ Conditions(row, filter)}

(* The result a client may expect: the emails that pass, in the order      *)
(* asked, collapsed to the first of each thread.                           *)
Expected(filter, ascending, collapse) ==
  LET all == SetToSortSeq(Wanted(filter), LAMBDA a, b : Ahead(a, b, ascending))
      first(i) == \A j \in 1..(i - 1) : all[j].thread # all[i].thread
      held == {i \in DOMAIN all : collapse => first(i)}
  IN  [i \in 1..Cardinality(held) |-> all[CHOOSE k \in held : Cardinality({j \in held : j < k}) = i - 1].id]

WindowFilters ==
  {[Plain EXCEPT !.in_mailbox = mailbox, !.text = "blank", !.has_keyword = has]
     : mailbox \in Mailboxes, has \in {"none", "$flagged"}}
  \cup {[Plain EXCEPT !.in_mailbox = mailbox, !.not_keyword = "$seen"] : mailbox \in Mailboxes}

Starts == [anchor : 0..3, index : -1..1]

PageOf(result, start, limit, ascending) ==
  IF AnchorFound(result, start)
  THEN PageIds(result, Position(result, start, ascending), Limit(limit), ascending) ELSE <<None>>

(* Where the start lies in the expected result.                            *)
Cut(ids, start, limit) ==
  LET from == CASE start.anchor # None -> (CHOOSE i \in DOMAIN ids : ids[i] = start.anchor) + start.index
                [] start.index < 0     -> Len(ids) + start.index + 1
                [] OTHER               -> start.index + 1
      low  == IF from < 1 THEN 1 ELSE from
  IN  IF start.anchor # None /\ start.anchor \notin Range(ids) THEN <<None>>
      ELSE SubSeq(ids, low, Min({low + limit - 1, Len(ids)}))

(* The window index and the search over the rows answer one query alike,   *)
(* and every page by position, from the end or around an anchor is the     *)
(* part of the expected result it names.                                   *)
WindowsAgree ==
  Quiet => \A filter \in WindowFilters, ascending, collapse \in BOOLEAN :
    LET query  == QueryRows(filter, ascending, collapse)
        ids    == Expected(filter, ascending, collapse)
    IN  /\ IsWindow(filter)
        /\ query = SearchRows(Everywhere, filter, ascending, collapse)
        /\ \A start \in Starts, limit \in {1, NULL} :
             PageOf(query, start, limit, ascending) = Cut(ids, start, Limit(limit))

Scopes == {{NULL}, {1}, {2}, {1, 2}}
SearchFilters ==
  {[Plain EXCEPT !.text = "word", !.in_mailbox = mailbox, !.other_than = others, !.has_keyword = has]
     : mailbox \in {None} \cup Mailboxes, others \in Scopes, has \in {"none", "$flagged"}}
  \cup {[Plain EXCEPT !.text = "word", !.after = after, !.before = before, !.not_keyword = without,
                      !.has_attachment = attachment]
          : after \in {NULL, 1, 3, 5}, before \in {NULL, 3, 4, 6}, without \in {"none", "$seen"},
            attachment \in {{TRUE, FALSE}, {TRUE}}}

InSync == \A f \in Folders : Stands(f) /\ done[f] /\ Missing(f) = {} /\ Gone(f) = {} /\ Waiting(rows, f) = {}

(* The folders and the coarse keys of a plan hold every email the result   *)
(* can take: where the rows are the server's mail, a search finds what a   *)
(* filter asks, whatever zone a date was written in.                       *)
PlanHoldsAll ==
  Quiet /\ InSync => \A filter \in SearchFilters :
    LET plan == PlanOf(filter)
        hits == UNION {FolderHits(plan, folder) : folder \in plan.folders}
    IN  SearchRows(hits, filter, FALSE, FALSE) = Wanted(filter)

(* A search answers every mail that lay on the server from the start and   *)
(* that only the bridge moved, and moved before the request, whichever     *)
(* kept hits answered it and whatever ran beside; and where the account's  *)
(* folders stand as the plan named them it answers no mail without the     *)
(* text.                                                                   *)
SearchAnswers == \A r \in Requests : req[r].missed = {} /\ req[r].wrong = {}

(* A search over the server loses nothing: not by its coarse keys, not by  *)
(* the hits it kept, not by what moved while it ran.                       *)
SearchesHold == PlanHoldsAll /\ SearchAnswers

(* What Email/query answers, from the window index, the rows or the        *)
(* server's search, is the mail its filter asks for (jmap/query,           *)
(* store/query.rs, runtime/search.rs).                                     *)
QueriesHold == WindowsAgree /\ SearchesHold
=============================================================================
