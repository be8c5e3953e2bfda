------------------------------ MODULE EmailSet ------------------------------
(***************************************************************************)
(* Email/set on an IMAP account.  A request takes the account's            *)
(* conversation, checks ifInState, plans its parts against the rows, sends *)
(* them as IMAP commands (the creates, then folder by folder the keywords, *)
(* labels, moves and destroys, then the labels of what moved into All      *)
(* Mail), writes every row in one transaction and answers each email.      *)
(* The conversation is held all that time.  A refresh of the rows holds it *)
(* too; a search runs on a connection of its own.                          *)
(*                                                                         *)
(* Meanwhile other clients move and expunge mail, a folder is renumbered,  *)
(* the session is refused or lost before or after a command ran, and the   *)
(* HTTP client goes away: the request is dropped where it stands, the      *)
(* conversation is free again and a transaction under way commits by       *)
(* itself.                                                                 *)
(*                                                                         *)
(* The account keeps its mail in folders or is a Gmail account, whose      *)
(* stores are All Mail (1) and Trash (2) and whose other mailboxes are     *)
(* labels.                                                                 *)
(***************************************************************************)
EXTENDS Integers, Sequences, FiniteSets, FiniteSetsExt

CONSTANTS
  FolderAlone, FolderPairs, \* bound of the model: what one request alone, or one
  GmailAlone, GmailPairs,   \* beside another, asks of a folder and a Gmail account
  FolderServers, GmailServers, \* the servers, by what they offer
  MAX_STORE_UIDS,           \* how many messages one command names
  MaxUid, MaxId,            \* bounds of the model, never reached
  MaxFaults                 \* bound of the model: what fails or others do

NULL == -1
None == 0                   \* no message, no mailbox, nobody
Folders == 1..2
Uids == 1..MaxUid
Ids == 1..MaxId
Requests == 1..2
Made(r) == r + 2            \* the message a request makes; 1 and 2 stood before
Label == 3                  \* a label of the user's
Drafts == 4                 \* the Drafts label

ASSUME EmailSetAssumption ==
  /\ FolderAlone \cup FolderPairs \cup GmailAlone \cup GmailPairs \subseteq STRING
  /\ FolderServers \cup GmailServers \subseteq SUBSET {"move", "uidplus", "replace", "rights"}
  /\ {MAX_STORE_UIDS, MaxUid, MaxId} \subseteq Nat \ {0}
  /\ MaxFaults \in Nat

VARIABLES
  kind, server,     \* the account's kind, what its server offers
  asks,             \* what each request asks
  box,              \* external: the mail on the server
  rows, pin, state, \* bridge_emails, uid_validity of bridge_mailboxes, the account's state
  wire, work,       \* who holds the conversation and the Work of that request
  req,              \* what came of every request
  late,             \* the transactions nobody awaits
  search, kept, forgets, \* the search under way and Kept
  faults,
  did, taken        \* history: what the server did for each request, what others took

store == <<rows, pin, state>>
seek  == <<search, kept, forgets>>
fixed == <<kind, server, asks>>
vars  == <<fixed, box, store, wire, work, req, late, seek, faults, did, taken>>

Empty == [msg |-> None, seen |-> FALSE, labels |-> {}]
Offers(what) == what \in server
Gmail == kind = "gmail"

(* What a request may ask.  The ids 1 and 2 are the rows that stood before; *)
(* a patch writes every mailbox of its email, {None} where it names none.   *)
Nothing == [read |-> TRUE, updates |-> {}, seen |-> FALSE, into |-> {None}, destroy |-> {},
            create |-> "none", mailbox |-> None, ifInState |-> NULL]

Ask(name) ==
  CASE name = "seen"    -> [Nothing EXCEPT !.updates = {1, 2}, !.seen = TRUE, !.ifInState = 0]
    [] name = "move"    -> [Nothing EXCEPT !.updates = {1, 2}, !.seen = TRUE, !.into = {2}]
    [] name = "away"    -> [Nothing EXCEPT !.updates = {1}, !.into = {2}, !.ifInState = 0]
    [] name = "both"    -> [Nothing EXCEPT !.updates = {1}, !.into = {1, 2}, !.destroy = {2}]
    [] name = "replace" -> [Nothing EXCEPT !.create = "draft", !.mailbox = 1, !.destroy = {1}]
    [] name = "unread"  -> [Nothing EXCEPT !.create = "draft", !.mailbox = 1, !.destroy = {1},
                                           !.read = FALSE]
    [] name = "file"    -> [Nothing EXCEPT !.create = "copy", !.mailbox = 2, !.destroy = {1}]
    [] name = "label"   -> [Nothing EXCEPT !.updates = {1, 2}, !.into = {1, Label}]
    [] name = "back"    -> [Nothing EXCEPT !.updates = {1, 2}, !.into = {Label}]
    [] name = "draft"   -> [Nothing EXCEPT !.create = "draft", !.mailbox = Drafts, !.destroy = {1}]
    [] name = "purge"   -> [Nothing EXCEPT !.destroy = {2}]
    [] OTHER            -> Nothing

-----------------------------------------------------------------------------
(* The rows of the store.                                                  *)

RowOf(rs, id)    == CHOOSE row \in rs : row.id = id
HasRow(rs, id)   == \E row \in rs : row.id = id
At(rs, c)        == \E row \in rs : row.id = c.id /\ row.folder = c.folder /\ row.uid = c.uid
Holds(rs, f, u)  == \E row \in rs : row.folder = f /\ row.uid = u
MailboxesOf(row) == {row.folder} \cup row.labels

(* The ids nothing names, which a new row may take.                        *)
Fresh == {id \in 3..MaxId : ~HasRow(rows, id)}
Nth(S, n) == CHOOSE x \in S : Cardinality({y \in S : y < x}) = n

-----------------------------------------------------------------------------
(* External: what a command does to the server's mail.                     *)

MailAt(f, u) == box[f].at[u].msg
Present(f, S) == {u \in S : MailAt(f, u) # None}

(* What came of the mail, and of what the request asked of the messages.   *)
Outcome(b, op, f, S) ==
  [box |-> b,
   did |-> did \cup {[req |-> wire, op |-> op, msg |-> MailAt(f, u), folder |-> f, uid |-> u,
                      validity |-> box[f].validity] : u \in Present(f, S)}]
NoOutcome == [box |-> box, did |-> did]

(* A STORE adds the \Seen flag, or takes labels on and off.                *)
Stored(f, S, seen, add, remove) ==
  [box EXCEPT ![f].at =
     [u \in Uids |-> IF u \in Present(f, S)
                     THEN [@[u] EXCEPT !.seen = @ \/ seen, !.labels = (@ \cup add) \ remove]
                     ELSE @[u]]]

Expunged(b, f, S) == [b EXCEPT ![f].at = [u \in Uids |-> IF u \in S THEN Empty ELSE @[u]]]

(* The pairs of COPYUID, and the mail beside its copies.                   *)
Pairs(f, S, g) ==
  [u \in Present(f, S) |-> box[g].next + Cardinality({v \in Present(f, S) : v < u})]

Copied(f, S, g) ==
  LET pairs == Pairs(f, S, g)
  IN  [box EXCEPT ![g].at = [u \in Uids |-> IF \E v \in DOMAIN pairs : pairs[v] = u
                                            THEN [box[f].at[CHOOSE v \in DOMAIN pairs : pairs[v] = u]
                                                    EXCEPT !.labels = {}]
                                            ELSE @[u]],
                  ![g].next = @ + Cardinality(DOMAIN pairs)]

(* A draft in its mailbox: on Gmail in All Mail under the label.           *)
Appended(r) ==
  LET to == IF Gmail THEN 1 ELSE asks[r].mailbox
      mail == [Empty EXCEPT !.msg = Made(r), !.labels = IF Gmail THEN {asks[r].mailbox} ELSE {}]
      b == [box EXCEPT ![to].at[box[to].next] = mail, ![to].next = @ + 1]
  IN  [box |-> b, did |-> did \cup {[req |-> r, op |-> "append", msg |-> Made(r), folder |-> to,
                                     uid |-> box[to].next, validity |-> box[to].validity]}]

-----------------------------------------------------------------------------
(* The plan of a request against the rows.                                 *)

May(mailbox) == Offers("rights") \/ mailbox # 2

Refused(error) == [error |-> error, to |-> None, add |-> {}, remove |-> {}, parts |-> {}]
Plan(parts, to, add, remove) ==
  [error |-> "none", to |-> to, add |-> add, remove |-> remove, parts |-> parts]

(* What an edit does to a row of a Gmail account.                          *)
Labels(row, entering, leaving) ==
  LET stores == entering \cap Folders
      add    == entering \ Folders
      remove == leaving \ Folders
      leaves == row.folder \in leaving
  IN CASE Cardinality(stores) > 1               -> Refused("invalidProperties")
       [] 1 \in stores                          -> Plan({"moves"}, 1, add, remove)
       [] stores # {} /\ add # {}               -> Refused("invalidProperties")
       [] stores # {}                           -> Plan({"moves"}, 2, {}, {})
       [] row.folder = 1 /\ leaves              -> Refused("invalidProperties")
       [] row.folder = 1 /\ add \cup remove = {} -> Plan({}, None, {}, {})
       [] row.folder = 1                        -> Plan({"labels"}, None, add, remove)
       [] leaves /\ add = {}                    -> Refused("invalidProperties")
       [] leaves                                -> Plan({"moves"}, 1, add, remove)
       [] add = {}                              -> Plan({}, None, {}, {})
       [] OTHER                                 -> Refused("invalidProperties")

Mailboxes(row, into) ==
  LET current == MailboxesOf(row)
  IN CASE into = {None}                 -> Plan({}, None, {}, {})
       [] Gmail                         -> Labels(row, into \ current, current \ into)
       [] into = {}                     -> Refused("invalidProperties")
       [] Cardinality(into) > 1         -> Refused("tooManyMailboxes")
       [] into = current                -> Plan({}, None, {}, {})
       [] OTHER                         -> Plan({"moves"}, CHOOSE to \in into : TRUE, {}, {})

(* Whether the rights let an update run.                                   *)
Permitted(row, seen, plan) ==
  /\ seen => May(row.folder)
  /\ plan.to # None => May(row.folder) /\ May(plan.to)
  /\ \A mailbox \in plan.add \cup plan.remove : May(mailbox)

Update(a, row) ==
  LET plan  == Mailboxes(row, a.into)
      parts == plan.parts \cup (IF a.seen THEN {"keywords"} ELSE {})
  IN CASE plan.error # "none"                            -> plan
       [] parts # {} /\ ~Permitted(row, a.seen, plan)    -> Refused("forbidden")
       [] OTHER                                          -> [plan EXCEPT !.parts = parts]

IsDraft(row) == Drafts \in row.labels

Destroy(row) ==
  CASE ~May(row.folder)                              -> Refused("forbidden")
    [] Gmail /\ row.folder # 2 /\ ~IsDraft(row)      -> Refused("forbidden")
    [] Gmail /\ row.folder # 2                       -> Plan({"trashes"}, 2, {}, {})
    [] OTHER                                         -> Plan({"destroys"}, None, {}, {})

(* The ask as its call reads: a replace whose new message never read keeps *)
(* the old one.                                                            *)
Read(a) ==
  IF a.read \/ a.create = "none" THEN a
  ELSE [a EXCEPT !.create = "none",
                 !.destroy = IF Cardinality(a.destroy) = 1 THEN {} ELSE @]

(* The destroy that waits on the one create.                               *)
Paired(a, items) ==
  /\ a.create # "none" /\ Cardinality(a.destroy) = 1
  /\ \A id \in a.destroy :
       /\ items[id].error = "none"
       /\ a.create = "copy" \/ a.mailbox \in MailboxesOf(RowOf(rows, id))

Target(a) == IF May(a.mailbox) THEN "waits" ELSE "failed"

Settle(w, S, error) ==
  [w EXCEPT !.tally = [id \in DOMAIN @ |-> IF id \in S /\ @[id].failed = "none"
                                           THEN [@[id] EXCEPT !.failed = error] ELSE @[id]]]
Done(w, S) ==
  [w EXCEPT !.tally = [id \in DOMAIN @ |-> IF id \in S THEN [@[id] EXCEPT !.left = Max({@ - 1, 0})]
                                           ELSE @[id]]]

(* Mutant: the destroy does not wait on the create.                        *)
SettlePairNever(w, error) == w

(* The destroy of a pair ends with the create that did not land.           *)
SettlePair(w, error) ==
  Settle(w, w.pair, IF error = "serverUnavailable" THEN error ELSE "serverFail")

NoCopy == [pairs |-> <<>>, validity |-> NULL]

(* The work of a request; what each email comes to before it is asked.     *)
Planned(r) ==
  LET a     == Read(asks[r])
      known == {id \in a.updates \cup a.destroy : HasRow(rows, id)}
      Item(id) == CASE id \notin known                -> Refused("notFound")
                    [] RowOf(rows, id).uid < 0        -> Refused("serverUnavailable")
                    [] id \in a.updates               -> Update(a, RowOf(rows, id))
                    [] OTHER                          -> Destroy(RowOf(rows, id))
      items == [id \in a.updates \cup a.destroy |-> Item(id)]
      going == {id \in known : items[id].parts # {}}
      draft == IF a.create = "none" THEN "none" ELSE Target(a)
      w == [plan    |-> items,
            place   |-> [id \in known |-> [folder |-> RowOf(rows, id).folder,
                                           uid |-> RowOf(rows, id).uid]],
            tally   |-> [id \in DOMAIN items |-> [left |-> Cardinality(items[id].parts),
                                                  failed |-> items[id].error]],
            pair    |-> IF Paired(a, items) THEN a.destroy ELSE {},
            draft   |-> [at |-> draft, uid |-> None, validity |-> NULL],
            folders |-> {RowOf(rows, id).folder : id \in going},
            moves   |-> \E id \in going : items[id].parts \cap {"moves", "labels", "trashes"} # {},
            stage   |-> "session", folder |-> None, tried |-> {}, copied |-> NoCopy,
            stored  |-> {}, restores |-> {}, stale |-> {}]
  IN  IF draft = "failed" THEN SettlePair(w, "serverFail") ELSE w

NoWork == [stage |-> "none"]
Standing(w, S) == {id \in S : w.tally[id].failed = "none"}

-----------------------------------------------------------------------------
(* The order of the commands.                                              *)

Order == <<"keywords", "labels", "moves", "destroys", "trashes">>

Members(w, part) ==
  {id \in DOMAIN w.place : w.place[id].folder = w.folder /\ part \in w.plan[id].parts}

UidsOf(w, S) == {w.place[id].uid : id \in S}

(* The next set one command names: members with one plan that still stand, *)
(* the lowest UIDs first.                                                  *)
Chunk(w, part, tried) ==
  LET left  == Standing(w, Members(w, part)) \ tried
      first == CHOOSE id \in left : \A other \in left : w.place[id].uid <= w.place[other].uid
      group == {id \in left : w.plan[id] = w.plan[first]}
  IN  IF left = {} THEN {}
      ELSE {id \in group : Cardinality({other \in group : w.place[other].uid < w.place[id].uid})
                             < MAX_STORE_UIDS}

Now(w) == Chunk(w, w.stage, w.tried)

(* What follows the creates and every folder.                              *)
NextFolder(w) ==
  [w EXCEPT !.stage = IF w.folders # {} THEN "select" ELSE IF w.restores # {} THEN "restore" ELSE "rows",
            !.folder = None, !.tried = {}]

(* The first part from the one at index i on that has something to send.   *)
From(w, i) ==
  LET ahead == {k \in i..Len(Order) : Chunk(w, Order[k], {}) # {}}
  IN  IF ahead = {} THEN NextFolder(w) ELSE [w EXCEPT !.stage = Order[Min(ahead)], !.tried = {}]

(* The set was asked: the rest of its part, then the parts behind it.      *)
Advance(w, S) ==
  LET on == [w EXCEPT !.tried = @ \cup S]
  IN  IF Now(on) # {} THEN on ELSE From(on, 1 + CHOOSE k \in 1..Len(Order) : Order[k] = w.stage)

(* The session is gone: what comes after stays as it was.                  *)
Lost(w) == [w EXCEPT !.stage = "rows", !.folder = None, !.tried = {}, !.copied = NoCopy]

MovesMail == Offers("move") \/ (~Gmail /\ Offers("uidplus"))

(* What a folder is never asked of this server.                            *)
FolderOpened(w) ==
  LET f  == [w EXCEPT !.folder = Min(w.folders), !.folders = @ \ {Min(w.folders)}]
      w1 == IF Offers("move") \/ Offers("uidplus") THEN f
            ELSE Settle(f, Members(f, "labels"), "forbidden")
      w2 == IF MovesMail THEN w1
            ELSE Settle(w1, Members(f, "moves") \cup Members(f, "trashes"), "forbidden")
  IN  IF Offers("uidplus") THEN w2 ELSE Settle(w2, Members(f, "destroys"), "forbidden")

AllMembers(w) == UNION {Members(w, Order[k]) : k \in 1..Len(Order)}

-----------------------------------------------------------------------------
(* What a command does when the server takes it, and what it may have done *)
(* where the answer is a refusal or never comes.                           *)

Labelled(f, S, add, remove) == Outcome(Stored(f, S, FALSE, add, remove), "label", f, S)

(* Whether the old draft goes with the command that brings the new one.    *)
Riding(w) ==
  /\ w.pair # {} /\ asks[wire].create = "draft" /\ Offers("replace") /\ ~Gmail
  /\ \A id \in w.pair : "destroys" \in w.plan[id].parts
OldDraft(w) == w.place[CHOOSE id \in w.pair : TRUE]

Replaced(w) ==
  LET old == OldDraft(w)
      new == Appended(wire)
  IN  [box |-> Expunged(new.box, old.folder, {old.uid}),
       did |-> new.did \cup Outcome(box, "gone", old.folder, {old.uid}).did]

PlanOf(w) == w.plan[CHOOSE id \in Now(w) : TRUE]
Asked(w)  == UidsOf(w, Now(w))

Moved(f, S, to, op) == Outcome(Expunged(Copied(f, S, to), f, Present(f, S)), op, f, S)
Restoring(w) == {r.newuid : r \in w.restores}

(* The command of the stage done whole.                                    *)
Whole(w) ==
  CASE w.stage = "create" /\ Riding(w) -> Replaced(w)
    [] w.stage = "create"   -> Appended(wire)
    [] w.stage = "keywords" -> Outcome(Stored(w.folder, Asked(w), TRUE, {}, {}), "seen", w.folder, Asked(w))
    [] w.stage = "labels"   -> Labelled(w.folder, Asked(w), PlanOf(w).add, PlanOf(w).remove)
    [] w.stage = "moves" /\ Offers("move") -> Moved(w.folder, Asked(w), PlanOf(w).to, "move")
    [] w.stage = "moves"    -> Outcome(Copied(w.folder, Asked(w), PlanOf(w).to), "copy",
                                       w.folder, Asked(w))
    [] w.stage = "expunge"  -> Outcome(Expunged(box, w.folder, DOMAIN w.copied.pairs), "move",
                                       w.folder, DOMAIN w.copied.pairs)
    [] w.stage = "destroys" -> Outcome(Expunged(box, w.folder, Asked(w)), "gone", w.folder, Asked(w))
    [] w.stage = "trashes"  -> Moved(w.folder, Asked(w), 2, "gone")
    [] w.stage = "restore"  ->
         LET plan == w.plan[(CHOOSE r \in w.restores : TRUE).id]
         IN  Labelled(1, Restoring(w), plan.add, plan.remove)
    [] OTHER -> NoOutcome

(* Done in part: a STORE of what is gained went ahead of one that was not. *)
Partly(w) ==
  {NoOutcome} \cup
  IF w.stage = "labels" THEN {Labelled(w.folder, Asked(w), PlanOf(w).add, {})} ELSE {}

-----------------------------------------------------------------------------
(* What an answer makes of the work.                                       *)

Change(w, id, name) ==
  [kind |-> name, id |-> id, folder |-> w.place[id].folder, uid |-> w.place[id].uid,
   to |-> None, validity |-> NULL, newuid |-> None, labels |-> {}, removed |-> {}]

(* The server took a set of keywords or labels.                            *)
Keep(w, S) ==
  [Done(w, S) EXCEPT !.stored = @ \cup {[Change(w, id, w.stage) EXCEPT
                                           !.labels = w.plan[id].add, !.removed = w.plan[id].remove]
                                          : id \in S}]

Removed(w, S) == [Done(w, S) EXCEPT !.stored = @ \cup {Change(w, id, "gone") : id \in S}]

(* A move into All Mail waits for its labels.                              *)
Then(w, id) == Gmail /\ w.plan[id].to = 1

(* The rows of a set the server moved, by the pairs of COPYUID.            *)
Landed(w, S, moved) ==
  LET pairs    == moved.pairs
      here     == {id \in S : w.place[id].uid \in DOMAIN pairs}
      lost     == S \ here
      follows  == Offers("uidplus")
      failed   == IF follows THEN lost ELSE {id \in lost : Then(w, id)}
      settled  == Settle(Done(w, (lost \ failed) \cup {id \in here : ~Then(w, id)}), failed,
                         IF follows THEN "notFound" ELSE "serverFail")
      Goes(id) == [Change(w, id, "moves") EXCEPT !.to = w.plan[id].to, !.validity = moved.validity,
                                                 !.newuid = pairs[w.place[id].uid]]
  IN  [settled EXCEPT !.stored = @ \cup {Change(w, id, "lost") : id \in lost}
                                  \cup {Goes(id) : id \in {i \in here : ~Then(w, i)}},
                      !.restores = @ \cup {Goes(id) : id \in {i \in here : Then(w, i)}}]

(* The pairs an answer names, under the UIDVALIDITY of the target.         *)
CopyUid(w) ==
  [pairs |-> IF Offers("uidplus") THEN Pairs(w.folder, Asked(w), PlanOf(w).to) ELSE <<>>,
   validity |-> box[PlanOf(w).to].validity]

(* A copy answered: the messages it copied are expunged next.              *)
CopyAnswered(w) ==
  LET moved == CopyUid(w)
      gone  == IF moved.pairs = <<>> THEN [u \in Asked(w) |-> None] ELSE moved.pairs
  IN  [w EXCEPT !.stage = "expunge", !.copied = [moved EXCEPT !.pairs = gone]]

ExpungeAnswered(w) ==
  LET back  == [w EXCEPT !.stage = "moves", !.copied = NoCopy]
      named == {u \in DOMAIN w.copied.pairs : w.copied.pairs[u] # None}
      moved == [w.copied EXCEPT !.pairs = [u \in named |-> w.copied.pairs[u]]]
  IN  Advance(Landed(back, Now(back), moved), Now(back))

(* What the server took of a create.                                       *)
Placed(w) ==
  LET to == asks[wire].mailbox
      at == IF Offers("uidplus") /\ ~Gmail
            THEN [at |-> "placed", uid |-> box[to].next, validity |-> box[to].validity]
            ELSE [at |-> "placed", uid |-> None, validity |-> NULL]
  IN  IF Riding(w)
      THEN [Removed(w, w.pair) EXCEPT !.draft = at, !.plan = [id \in DOMAIN @ |->
              IF id \in w.pair THEN [@[id] EXCEPT !.parts = {}] ELSE @[id]]]
      ELSE [w EXCEPT !.draft = at]

(* The labels of what moved into All Mail, read back.                      *)
RestoreAnswered(w) ==
  LET o == Whole(w)
  IN  [Done(w, {r.id : r \in w.restores}) EXCEPT
         !.stage = "rows", !.restores = {},
         !.stored = @ \cup {[r EXCEPT !.labels = o.box[1].at[r.newuid].labels] : r \in w.restores}]

RestoreFailed(w, error) ==
  [Settle(w, {r.id : r \in w.restores}, error) EXCEPT
     !.stage = "rows", !.restores = {}, !.stored = @ \cup w.restores]

Answered(w) ==
  CASE w.stage = "create"                -> NextFolder(Placed(w))
    [] w.stage \in {"keywords", "labels"} -> Advance(Keep(w, Now(w)), Now(w))
    [] w.stage = "moves" /\ Offers("move") -> Advance(Landed(w, Now(w), CopyUid(w)), Now(w))
    [] w.stage = "moves"                 -> CopyAnswered(w)
    [] w.stage = "expunge"               -> ExpungeAnswered(w)
    [] w.stage \in {"destroys", "trashes"} -> Advance(Removed(w, Now(w)), Now(w))
    [] w.stage = "restore"               -> RestoreAnswered(w)

CreateFailed(w, error) == [SettlePair(w, error) EXCEPT !.draft.at = "failed"]

(* A command that failed: what its set comes to, with or without session.  *)
Failed(w, fail) ==
  LET moving == IF w.stage = "expunge" THEN [w EXCEPT !.stage = "moves", !.copied = NoCopy] ELSE w
      ended  == CASE w.stage = "create"  -> NextFolder(CreateFailed(w, fail.error))
                  [] w.stage = "restore" -> RestoreFailed(w, fail.error)
                  [] OTHER -> Advance(Settle(moving, Now(moving), fail.error), Now(moving))
  IN  IF fail.stands THEN ended ELSE Lost(ended)

Failures == {[error |-> "serverFail", stands |-> TRUE], [error |-> "serverFail", stands |-> FALSE],
             [error |-> "serverUnavailable", stands |-> FALSE]}

-----------------------------------------------------------------------------
(* A request on the conversation.                                          *)

Fault == faults < MaxFaults /\ faults' = faults + 1
Idle(r) == req[r].pc = "idle"

(* The sends end: whatever came of them, a move forgets the searches kept. *)
Forgets(w) == IF w.stage = "rows" /\ w.moves
              THEN kept' = {} /\ forgets' = forgets + 1
              ELSE UNCHANGED <<kept, forgets>>

Goes(w) == work' = w /\ Forgets(w)

held == <<fixed, store, wire, req, late, search, taken>>

Matches(a) == a.ifInState \in {NULL, state}

(* The conversation taken, ifInState checked and the work planned.         *)
Begin(r) ==
  /\ Idle(r) /\ wire = None /\ asks[r] # Nothing
  /\ LET w == Planned(r)
     IN  IF ~Matches(asks[r])
         THEN /\ req' = [req EXCEPT ![r].pc = "mismatch"]
              /\ UNCHANGED <<wire, work>>
         ELSE /\ wire' = r
              /\ work' = IF w.folders = {} /\ w.draft.at # "waits" THEN [w EXCEPT !.stage = "rows"] ELSE w
              /\ req' = [req EXCEPT ![r].pc = "busy"]
  /\ UNCHANGED <<fixed, box, store, late, seek, faults, did, taken>>

(* The session the account keeps answers a NOOP, or a new one connects.    *)
Connect ==
  /\ work.stage = "session"
  /\ \/ /\ Goes(IF work.draft.at = "waits" THEN [work EXCEPT !.stage = "create"] ELSE NextFolder(work))
        /\ UNCHANGED faults
     \/ Fault /\ Goes(Lost(work))
  /\ UNCHANGED <<held, box, did>>

Takes(o) == box' = o.box /\ did' = o.did

(* A command and its answer, a refusal, or a session lost before or after  *)
(* the server ran it.                                                      *)
Command(stage) ==
  /\ work.stage = stage
  /\ \/ Takes(Whole(work)) /\ Goes(Answered(work)) /\ UNCHANGED faults
     \/ /\ Fault
        /\ \E fail \in Failures :
             /\ \E o \in Partly(work) \cup (IF fail.stands THEN {} ELSE {Whole(work)}) : Takes(o)
             /\ Goes(Failed(work, fail))
  /\ UNCHANGED held

(* UID REPLACE names a message of a folder that stands as the rows know it.*)
Replaceable(w) ==
  Riding(w) => LET old == OldDraft(w)
               IN  box[old.folder].validity = pin[old.folder] /\ MailAt(old.folder, old.uid) # None

Create == work.stage = "create" /\ Replaceable(work) /\ Command("create")

CreateRefused ==
  /\ work.stage = "create" /\ ~Replaceable(work)
  /\ LET renumbered == box[OldDraft(work).folder].validity # pin[OldDraft(work).folder]
     IN  Goes(Failed(work, [error |-> IF renumbered THEN "serverUnavailable" ELSE "serverFail",
                            stands |-> TRUE]))
  /\ UNCHANGED <<held, box, did, faults>>

(* SELECT: a renumbered folder leaves its members untouched, one opened    *)
(* read-only forbids them.                                                 *)
Select ==
  /\ work.stage = "select"
  /\ LET w == FolderOpened(work)
         all == AllMembers(w)
     IN  \/ /\ \/ Standing(w, all) = {}
               \/ box[w.folder].validity # pin[w.folder]
            /\ Goes(NextFolder(w)) /\ UNCHANGED faults
         \/ /\ Standing(w, all) # {} /\ box[w.folder].validity = pin[w.folder]
            /\ \/ Goes(From(w, 1)) /\ UNCHANGED faults
               \/ Fault /\ Goes(NextFolder(Settle(w, all, "forbidden")))
         \/ /\ Standing(w, all) # {} /\ Fault
            /\ \E fail \in Failures :
                 Goes(IF fail.stands THEN NextFolder(Settle(w, all, fail.error))
                      ELSE Lost(Settle(w, all, fail.error)))
  /\ UNCHANGED <<held, box, did>>

StoreKeywords   == Command("keywords")
StoreLabels     == Command("labels")
MoveMail        == Command("moves")
ExpungeCopied   == Command("expunge")
DestroyMail     == Command("destroys")
TrashDrafts     == Command("trashes")

RestoreLabels ==
  /\ work.stage = "restore"
  /\ \/ /\ \A r \in work.restores : r.validity = box[1].validity
        /\ Command("restore")
     \/ /\ \E r \in work.restores : r.validity # box[1].validity
        /\ Goes(RestoreFailed(work, "serverFail"))
        /\ UNCHANGED <<held, box, did, faults>>

-----------------------------------------------------------------------------
(* One transaction writes every row.                                       *)

(* Mutant: the row goes to the new UID whatever the folder stands under.   *)
PinnedAlways(f, v) == TRUE

Pinned(f, v) == pin[f] \in {NULL, v}

Enters(rs, f, v, u) == Pinned(f, v) /\ ~Holds(rs, f, u)

DraftEnters(d, r) == d.at = "placed" /\ d.uid # None /\ Enters(rows, asks[r].mailbox, d.validity, d.uid)

WithDraft(d, r) ==
  IF DraftEnters(d, r)
  THEN rows \cup {[id |-> Min(Fresh), folder |-> asks[r].mailbox, uid |-> d.uid, msg |-> Made(r),
                   seen |-> FALSE, labels |-> {}]}
  ELSE rows

On(row, c) == row.id = c.id /\ row.folder = c.folder /\ row.uid = c.uid
Of(set, kinds) == {c \in set : c.kind \in kinds}

(* Keywords and labels on the row that lies where the command found it.    *)
Reworded(rs, set) ==
  {[row EXCEPT !.seen = @ \/ \E c \in Of(set, {"keywords"}) : On(row, c),
               !.labels = (@ \cup UNION {c.labels : c \in {d \in Of(set, {"labels"}) : On(row, d)}})
                          \ UNION {c.removed : c \in {d \in Of(set, {"labels"}) : On(row, d)}}]
     : row \in rs}

(* A row lost to the write leaves, on Gmail it waits for the pass.         *)
Lose(rs, gone) == (rs \ gone) \cup (IF Gmail THEN {[row EXCEPT !.uid = -row.uid] : row \in gone} ELSE {})

Relocated(rs, set) ==
  LET moves     == Of(set, {"moves"})
      found     == {row \in rs : \E c \in moves : On(row, c)}
      Moves(row) == CHOOSE c \in moves : On(row, c)
      enters    == {row \in found : Enters(rs, Moves(row).to, Moves(row).validity, Moves(row).newuid)}
  IN  (Lose(rs, found \ enters) \ enters)
        \cup {[row EXCEPT !.folder = Moves(row).to, !.uid = Moves(row).newuid,
                          !.labels = Moves(row).labels] : row \in enters}

Departed(rs, set) ==
  LET gone == {row \in rs : \E c \in Of(set, {"gone"}) : On(row, c)}
      lost == {row \in rs : \E c \in Of(set, {"lost"}) : On(row, c)}
  IN  Lose(rs \ gone, lost \ gone)

Stale(set) ==
  {c.id : c \in {d \in Of(set, {"keywords", "labels"}) : ~At(rows, d)}}
    \cup {c.id : c \in {d \in Of(set, {"moves"}) : /\ ~At(rows, d)
                                                   /\ ~At(rows, [d EXCEPT !.folder = d.to, !.uid = d.newuid])}}

(* What a client sees of the rows.                                         *)
Visible(rs) == {[row EXCEPT !.uid = 0, !.msg = 0] : row \in rs}

PinnedBy(f, set, d, r) ==
  LET named == {c.validity : c \in {m \in Of(set, {"moves"}) : m.to = f /\ At(rows, m)}}
                 \cup (IF DraftEnters(d, r) /\ asks[r].mailbox = f THEN {d.validity} ELSE {})
  IN  IF pin[f] = NULL /\ named # {} THEN CHOOSE v \in named : TRUE ELSE pin[f]

WriteSet(set, d, r) ==
  /\ rows' = Departed(Relocated(Reworded(WithDraft(d, r), set), set), set)
  /\ pin' = [f \in Folders |-> PinnedBy(f, set, d, r)]
  /\ state' = IF Visible(rows') = Visible(rows) THEN state ELSE 1

HasWrites(w) == w.stored # {} \/ (w.draft.at = "placed" /\ w.draft.uid # None)

(* The row of a create: the one written, or one of its Message-ID, which a *)
(* copy shares with the email it waits on.                                 *)
LandedRow(rs, r) ==
  \E row \in rs : row.uid > 0 /\ row.msg \in {Made(r)} \cup (IF asks[r].create = "copy" THEN {1} ELSE {})

(* Mutant: what a session left before its turn counts as done.             *)
EndedUnasked(w) == {id \in DOMAIN w.tally : w.tally[id].failed = "none"}

(* How every update and destroy ended: without a failure and nothing left. *)
Ended(w) == {id \in DOMAIN w.tally : w.tally[id].failed = "none" /\ w.tally[id].left = 0}

Answer(w, stale, landed, wrote) ==
  /\ req' = [req EXCEPT ![wire] = [pc |-> "answered", done |-> Ended(w) \ stale, wrote |-> wrote,
                                   created |-> w.draft.at = "placed" /\ landed]]
  /\ wire' = None /\ work' = NoWork

WriteRows ==
  /\ work.stage = "rows"
  /\ IF HasWrites(work) THEN WriteSet(work.stored, work.draft, wire) ELSE UNCHANGED store
  /\ LET stale == Stale(work.stored)
         wrote == Visible(rows') # Visible(rows)
     IN  IF work.draft.at = "placed" /\ ~DraftEnters(work.draft, wire)
         THEN /\ work' = [work EXCEPT !.stage = "pass", !.stale = stale]
              /\ req' = [req EXCEPT ![wire].wrote = wrote]
              /\ UNCHANGED wire
         ELSE Answer(work, stale, TRUE, wrote)
  /\ UNCHANGED <<fixed, box, late, seek, faults, did, taken>>

-----------------------------------------------------------------------------
(* The refresh of a folder's rows, as the model of the folder sync has it. *)

Renumbered(f) == pin[f] \notin {NULL, box[f].validity}

(* The rows of the folder where their messages lie now; a message takes    *)
(* the id of one row of a folder that was renumbered.                      *)
Rematched(f) ==
  LET here    == {row \in rows : row.folder = f /\ row.uid > 0}
      Copies(m) == {u \in Uids : MailAt(f, u) = m}
      Rank(row) == Cardinality({other \in here : other.msg = row.msg /\ other.id < row.id})
  IN  IF Renumbered(f)
      THEN {[row EXCEPT !.uid = Nth(Copies(row.msg), Rank(row))]
              : row \in {r \in here : Rank(r) < Cardinality(Copies(r.msg))}}
      ELSE {row \in here : MailAt(f, row.uid) # None}

ReadAt(row, f, u) == [row EXCEPT !.folder = f, !.uid = u, !.seen = box[f].at[u].seen,
                                 !.labels = box[f].at[u].labels]

Refreshed(f) ==
  LET here    == {row \in rows : row.folder = f /\ row.uid > 0}
      stays   == Rematched(f)
      ids     == {row.id : row \in stays}
      parked  == IF Gmail THEN {[row EXCEPT !.uid = -row.uid] : row \in {r \in here : r.id \notin ids}}
                 ELSE {}
      rest    == (rows \ here) \cup parked
      new     == {u \in Uids : MailAt(f, u) # None /\ ~\E row \in stays : row.uid = u}
      Claims(u) == {row \in rest : Gmail /\ row.msg = MailAt(f, u)}
      claimed == UNION {Claims(u) : u \in new}
      fresh   == {u \in new : Claims(u) = {}}
      Row(u)  == [id |-> Nth(Fresh, Cardinality({v \in fresh : v < u})), folder |-> f, uid |-> u,
                  msg |-> MailAt(f, u), seen |-> FALSE, labels |-> {}]
  IN  (rest \ claimed)
        \cup {ReadAt(row, f, row.uid) : row \in stays}
        \cup {ReadAt(CHOOSE row \in Claims(u) : TRUE, f, u) : u \in new \ fresh}
        \cup {ReadAt(Row(u), f, u) : u \in fresh}

RefreshFolder(f) ==
  /\ rows' = Refreshed(f)
  /\ pin' = [pin EXCEPT ![f] = box[f].validity]
  /\ state' = IF Visible(rows') = Visible(rows) THEN state ELSE 1

(* A refresh of the account's reader holds the conversation for a folder.  *)
Refresh(f) ==
  /\ wire = None
  /\ RefreshFolder(f)
  /\ UNCHANGED <<fixed, box, wire, work, req, late, seek, faults, did, taken>>

(* A row nothing claimed leaves once every store was read.                 *)
Sweep ==
  /\ wire = None /\ \E row \in rows : row.uid < 0
  /\ \A f \in Folders : rows = Refreshed(f) /\ ~Renumbered(f)
  /\ rows' = {row \in rows : row.uid > 0} /\ state' = 1
  /\ UNCHANGED <<fixed, box, pin, wire, work, req, late, seek, faults, did, taken>>

(* A create without its row: one pass reads the folder, as far as it comes.*)
PassForDraft ==
  /\ work.stage = "pass"
  /\ \/ /\ RefreshFolder(IF Gmail THEN 1 ELSE asks[wire].mailbox)
        /\ UNCHANGED faults
     \/ Fault /\ UNCHANGED store
  /\ Answer(work, work.stale, LandedRow(rows', wire), req[wire].wrote)
  /\ UNCHANGED <<fixed, box, late, seek, did, taken>>

-----------------------------------------------------------------------------
(* The HTTP client goes away.                                              *)

(* The request is dropped where it waits: a command it sent may still run, *)
(* a transaction it waits for commits by itself.                           *)
Drop ==
  /\ wire # None /\ Fault
  /\ \E o \in Partly(work) \cup {Whole(work)} :
       /\ work.stage = "create" /\ ~Replaceable(work) => o = NoOutcome
       /\ Takes(o)
  /\ late' = IF work.stage = "rows" /\ HasWrites(work)
             THEN late \cup {[req |-> wire, stored |-> work.stored, draft |-> work.draft]} ELSE late
  /\ req' = [req EXCEPT ![wire].pc = "gone"]
  /\ wire' = None /\ work' = NoWork
  /\ UNCHANGED <<fixed, store, seek, taken>>

LateWrite(l) ==
  /\ WriteSet(l.stored, l.draft, l.req)
  /\ late' = late \ {l}
  /\ req' = [req EXCEPT ![l.req].wrote = Visible(rows') # Visible(rows)]
  /\ UNCHANGED <<fixed, box, wire, work, seek, faults, did, taken>>

-----------------------------------------------------------------------------
(* A search of the account on its own connection.                          *)

beside == <<fixed, box, store, wire, work, req, late, faults, did, taken>>

SearchBegin ==
  /\ search.pc = "idle"
  /\ search' = [search EXCEPT !.pc = "reading", !.left = Folders, !.forgets = forgets]
  /\ UNCHANGED <<beside, kept, forgets>>

(* One folder read; one renumbered since its rows were is passed over.     *)
SearchRead ==
  /\ search.pc = "reading" /\ search.left # {}
  /\ LET f == Min(search.left)
         hits == IF Renumbered(f) THEN {}
                 ELSE {[folder |-> f, uid |-> u, validity |-> box[f].validity, msg |-> MailAt(f, u)]
                         : u \in Present(f, Uids)}
     IN  search' = [search EXCEPT !.left = @ \ {f}, !.hits = @ \cup hits]
  /\ UNCHANGED <<beside, kept, forgets>>

SearchEnd ==
  /\ search.pc = "reading" /\ search.left = {}
  /\ kept' = IF forgets = search.forgets THEN search.hits ELSE kept
  /\ search' = [search EXCEPT !.pc = "done"]
  /\ UNCHANGED <<beside, forgets>>

-----------------------------------------------------------------------------
(* External: other clients of the account and the server itself.           *)

world == <<fixed, store, wire, work, req, late, seek, did>>

OtherMove(f, u) ==
  /\ MailAt(f, u) # None /\ Fault
  /\ LET g == 3 - f IN box' = Expunged(Copied(f, {u}, g), f, {u})
  /\ taken' = taken \cup {MailAt(f, u)}
  /\ UNCHANGED world

OtherExpunge(f, u) ==
  /\ MailAt(f, u) # None /\ Fault
  /\ box' = Expunged(box, f, {u})
  /\ taken' = taken \cup {MailAt(f, u)}
  /\ UNCHANGED world

Selected(f) == wire # None /\ work.stage # "pass" /\ work.stage # "rows" /\ work.folder = f

(* The folder is made anew: its messages stand in another order.           *)
Renumber(f) ==
  /\ ~Selected(f) /\ Present(f, Uids) # {} /\ Fault
  /\ LET n == Cardinality(Present(f, Uids))
     IN  box' = [box EXCEPT ![f] = [at |-> [u \in Uids |-> IF u <= n
                                              THEN box[f].at[Nth(Present(f, Uids), n - u)] ELSE Empty],
                                    next |-> n + 1, validity |-> @.validity + 1]]
  /\ UNCHANGED <<world, taken>>

-----------------------------------------------------------------------------
Box(mails) == [at |-> [u \in Uids |-> IF u \in DOMAIN mails THEN mails[u] ELSE Empty],
               next |-> Len(mails) + 1, validity |-> 0]
RowAt(id, f, u, labels) == [id |-> id, folder |-> f, uid |-> u, msg |-> id, seen |-> FALSE,
                            labels |-> labels]
MailOf(m, labels) == [Empty EXCEPT !.msg = m, !.labels = labels]

Asks(alone, pairs, other) ==
  \/ \E one \in alone : asks = <<Ask(one), Nothing>>
  \/ \E one \in pairs : asks = <<Ask(one), Ask(other)>>

Init ==
  /\ \/ /\ kind = "folders" /\ server \in FolderServers
        /\ Asks(FolderAlone, FolderPairs, "away")
        /\ box = <<Box(<<MailOf(1, {}), MailOf(2, {})>>), Box(<<>>)>>
        /\ rows = {RowAt(1, 1, 1, {}), RowAt(2, 1, 2, {})}
        /\ pin \in {<<0, 0>>, <<0, NULL>>}
     \/ /\ kind = "gmail" /\ server \in GmailServers
        /\ Asks(GmailAlone, GmailPairs, "label")
        /\ box = <<Box(<<MailOf(1, {Drafts})>>), Box(<<MailOf(2, {})>>)>>
        /\ rows = {RowAt(1, 1, 1, {Drafts}), RowAt(2, 2, 1, {})}
        /\ pin = <<0, 0>>
  /\ state = 0
  /\ wire = None /\ work = NoWork
  /\ req = [r \in Requests |-> [pc |-> "idle", done |-> {}, created |-> FALSE, wrote |-> FALSE]]
  /\ late = {}
  /\ search = [pc |-> IF asks[2] = Nothing /\ asks[1].into # {None} THEN "idle" ELSE "done",
             left |-> {}, hits |-> {}, forgets |-> 0]
  /\ kept = {} /\ forgets = 0
  /\ faults = 0 /\ did = {} /\ taken = {}

Proceed ==
  \/ Connect \/ Create \/ CreateRefused \/ Select \/ StoreKeywords \/ StoreLabels \/ MoveMail
  \/ ExpungeCopied \/ DestroyMail \/ TrashDrafts \/ RestoreLabels \/ WriteRows \/ PassForDraft

Next ==
  \/ \E r \in Requests : Begin(r)
  \/ Proceed
  \/ Drop
  \/ \E l \in late : LateWrite(l)
  \/ \E f \in Folders : Refresh(f) \/ Renumber(f)
  \/ Sweep
  \/ SearchBegin \/ SearchRead \/ SearchEnd
  \/ \E f \in Folders, u \in Uids : OtherMove(f, u) \/ OtherExpunge(f, u)

Spec == Init /\ [][Next]_vars

-----------------------------------------------------------------------------
Changes == [kind : {"keywords", "labels", "moves", "gone", "lost"}, id : Ids, folder : Folders,
            uid : Uids, to : 0..2, validity : Int, newuid : 0..MaxUid, labels : SUBSET {Label, Drafts},
            removed : SUBSET {Label, Drafts}]

TypeOK ==
  /\ \A row \in rows : /\ row.id \in Ids /\ row.folder \in Folders /\ row.msg \in 1..4
                       /\ row.uid \in -MaxUid..MaxUid \ {0} /\ (row.uid < 0 => Gmail)
                       /\ row.labels \subseteq {Label, Drafts} /\ (row.labels # {} => Gmail)
  /\ pin \in [Folders -> NULL..MaxFaults] /\ state \in 0..1
  /\ wire \in {None} \cup Requests /\ (wire = None <=> work = NoWork)
  /\ work # NoWork => work.stored \subseteq Changes /\ work.restores \subseteq Changes
  /\ \A f \in Folders : box[f].next \in 1..(MaxUid + 1)
  /\ \A l \in late : l.stored \subseteq Changes
  /\ kept \subseteq [folder : Folders, uid : Uids, validity : Nat, msg : 1..4]
  /\ forgets \in 0..2 /\ faults \in 0..MaxFaults

(* No two rows share a place, and a row of a folder that stands names the  *)
(* message under its UID or none: whatever others moved, whichever answer  *)
(* was lost and however late a transaction committed.                      *)
RowsNameTheirMail ==
  /\ \A one, other \in rows : one # other =>
       /\ one.id # other.id
       /\ one.uid > 0 => <<one.folder, one.uid>> # <<other.folder, other.uid>>
  /\ \A row \in rows :
       row.uid > 0 /\ pin[row.folder] = box[row.folder].validity
         => MailAt(row.folder, row.uid) \in {None, row.msg}

DidFor(r, op, m) == \E d \in did : d.req = r /\ d.op = op /\ d.msg = m
AnyDid(op, m) == \E d \in did : d.op = op /\ d.msg = m

TakenFrom(r) == taken \cup {d.msg : d \in {e \in did : e.req # r /\ e.op \in {"move", "gone"}}}

(* An email a request answers as done had every part of it done by the     *)
(* server, unless another client or request took the message from where it *)
(* lay; one answered as destroyed is no row any more.                      *)
DoneIsDone ==
  \A r \in Requests : req[r].pc = "answered" =>
    \A id \in req[r].done \ TakenFrom(r) :
      /\ id \in asks[r].updates /\ asks[r].seen => DidFor(r, "seen", id)
      /\ id \in asks[r].updates /\ asks[r].into = {2} => AnyDid("move", id)
      /\ id \in asks[r].updates /\ Label \in asks[r].into => AnyDid("label", id)
      /\ id \in asks[r].destroy => AnyDid("gone", id) /\ ~HasRow(rows, id)

Names(r, s) == asks[r].ifInState = s /\ req[r].wrote

(* Two requests that were answered never both changed the rows on one      *)
(* state their ifInState named.                                            *)
OneWritePerState ==
  \A one, other \in Requests :
    one # other /\ Names(one, 0) /\ Names(other, 0) => "gone" \in {req[one].pc, req[other].pc}

(* What an answer says holds: its emails are done, on the state it named.  *)
AnswersHold == DoneIsDone /\ OneWritePerState

(* The message a draft or a filed copy stands for is never destroyed       *)
(* before the new one stands on the server.                                *)
NeverBothLost ==
  \A r \in Requests : asks[r].create # "none" =>
    \A d \in {e \in did : e.req = r /\ e.op = "gone"} :
      asks[r].create = "copy" \/ d.folder = asks[r].mailbox \/ (Gmail /\ d.folder = 1)
        => DidFor(r, "append", Made(r))

(* A kept search names no place a request that was answered moved the      *)
(* message from, however the search ran across the move.                   *)
KeptHitsStand ==
  \A hit \in kept : \A d \in {e \in did : e.op = "move" /\ req[e.req].pc = "answered"} :
    <<d.folder, d.uid, d.validity>> # <<hit.folder, hit.uid, hit.validity>>

(* Every place the bridge names is the place of the mail it names there:   *)
(* in the rows and in the searches it keeps.                               *)
PlacesStand == RowsNameTheirMail /\ KeptHitsStand
=============================================================================
