---------------------------- MODULE MailboxTree ----------------------------
(***************************************************************************)
(* The mailboxes of an IMAP account: the pass that lists them and          *)
(* Mailbox/set, which creates, renames, moves, subscribes and destroys     *)
(* them.  A call checks every object against the rows, sends CREATE,       *)
(* RENAME, SUBSCRIBE, UNSUBSCRIBE and DELETE in the order of its objects,  *)
(* each naming what the ones before it made or moved, and writes what the  *)
(* server took as one state.  After a failed CREATE, RENAME or DELETE a    *)
(* pass on a fresh connection shows what stands.                           *)
(*                                                                         *)
(* Meanwhile other clients make, move and delete folders, a command is     *)
(* refused or its answer never comes, the deadline passes, the HTTP client *)
(* goes away and the process starts anew.  The searches a rename forgets   *)
(* are in EmailSet, the rights of an ACL are left out.                     *)
(*                                                                         *)
(* A wire name is the sequence of its leaves.  One message lies in the     *)
(* folder "a"; on a Gmail account in the store "all" under the label "a".  *)
(***************************************************************************)
EXTENDS Integers, Sequences, FiniteSets, SequencesExt, TLC

CONSTANTS
  FolderCalls, GmailCalls, \* bound of the model: the calls an account gets
  MaxId, MaxBox,           \* bounds of the model, never reached
  MaxFaults                \* bound of the model: what fails or others do

NULL == -1
None == 0
Cut == "cut"               \* a leaf that holds the delimiter
Named == [t |-> "trash"]   \* NAMED_ROLES: the leaves that claim a role

ASSUME MailboxTreeAssumption ==
  /\ FolderCalls \cup GmailCalls \subseteq STRING
  /\ {MaxId, MaxBox} \subseteq Nat \ {0} /\ MaxFaults \in Nat

VARIABLES
  kind, call,             \* the account's kind, what its call asks
  tree, subs, next, mail, \* external: the folders, the subscribed names, where the message lies
  rows, emails, done,     \* bridge_mailboxes, bridge_emails with memberships, bridge_sync
  seq, log,               \* the account's state and bridge_changes
  recorded,               \* whether this process recorded the server's commands
  wire, work, listing,    \* who holds the conversation, its Work, the listing a pass read
  answer,                 \* what came of the call
  late,                   \* the transaction nobody awaits
  faults,
  unsure, snap, did       \* history: whether the rows may lag, the first rows, what the server did

server == <<tree, subs, next, mail>>
store  == <<rows, emails, done, seq, log>>
fixed  == <<kind, call, snap>>
vars   == <<fixed, server, store, recorded, wire, work, listing, answer, late, faults, unsure, did>>

Gmail == kind = "gmail"

-----------------------------------------------------------------------------
(* What a call may ask: an object names a mailbox by id or by the place of *)
(* a create of the call, "#k".  "-" leaves a property as it is.            *)

Top == None
Ref(k) == 100 + k          \* "#k"
NewId(k) == 10 + k         \* the id a create takes

Creates(name, parent, sub) ==
  [op |-> "create", id |-> None, name |-> name, parent |-> parent, role |-> "-", sub |-> sub]
Updates(id) ==
  [op |-> "update", id |-> id, name |-> "-", parent |-> NULL, role |-> "-", sub |-> "-"]
Destroys(id) ==
  [op |-> "destroy", id |-> id, name |-> "-", parent |-> NULL, role |-> "-", sub |-> "-"]
Call(objects, remove, ifInState) ==
  [objects |-> objects, remove |-> remove, ifInState |-> ifInState]

Ask(name) ==
  CASE name = "grow"   -> Call(<<Creates("y", Ref(2), "no"), Creates("x", Top, "yes"),
                                 [Updates(3) EXCEPT !.sub = "no"]>>, FALSE, 0)
    [] name = "late"   -> Call(<<Creates("x", Top, "yes"),
                                 [Updates(2) EXCEPT !.parent = Ref(1)]>>, FALSE, NULL)
    [] name = "move"   -> Call(<<[Updates(2) EXCEPT !.name = "x"],
                                 [Updates(3) EXCEPT !.name = "z", !.sub = "no"]>>, FALSE, 0)
    [] name = "pass"   -> Call(<<[Updates(2) EXCEPT !.name = "x"], [Updates(4) EXCEPT !.name = "a"]>>,
                               FALSE, NULL)
    [] name = "round"  -> Call(<<[Updates(2) EXCEPT !.parent = 4], [Updates(4) EXCEPT !.parent = 2]>>,
                               FALSE, NULL)
    [] name = "hand"   -> Call(<<[Creates("x", Top, "yes") EXCEPT !.role = "junk"],
                                 [Updates(4) EXCEPT !.role = "none"],
                                 [Updates(2) EXCEPT !.role = "trash"]>>, FALSE, NULL)
    [] name = "refuse" -> Call(<<[Updates(4) EXCEPT !.role = "none", !.parent = MaxId],
                                 [Updates(2) EXCEPT !.role = "trash"],
                                 [Updates(3) EXCEPT !.role = "junk"]>>, FALSE, NULL)
    [] name = "freed"  -> Call(<<[Updates(4) EXCEPT !.role = "none", !.name = Cut],
                                 [Updates(2) EXCEPT !.role = "trash"]>>, FALSE, NULL)
    [] name = "clear"  -> Call(<<Updates(3), Destroys(3), Destroys(2)>>, TRUE, NULL)
    [] name = "spare"  -> Call(<<Destroys(3), Destroys(2), Destroys(4)>>, FALSE, NULL)
    [] name = "label"  -> Call(<<Creates("y", 2, "no"), [Updates(2) EXCEPT !.name = "x"]>>, FALSE, 0)
    [] name = "unlabel" -> Call(<<Destroys(2)>>, TRUE, NULL)

-----------------------------------------------------------------------------
(* Rows, paths and the server's folders.                                   *)

Paths(entries) == {e.path : e \in entries}
EntryAt(entries, path) == CHOOSE e \in entries : e.path = path
Leaf(path) == Last(path)
Above(path) == IF Len(path) > 1 THEN Front(path) ELSE <<>>
Below(path, from) == IsPrefix(from, path)

(* The name a RENAME of from to to gives a name at or under it.            *)
Moved(path, from, to) ==
  IF Below(path, from) THEN to \o SubSeq(path, Len(from) + 1, Len(path)) ELSE path

RowOf(rs, id) == CHOOSE row \in rs : row.id = id
HasRow(rs, id) == \E row \in rs : row.id = id
IsInbox(row) == row.path = <<"inbox">>
IsGmailOwn(row) == Gmail /\ row.path \in {<<"all">>, <<"inbox">>}

(* The rights that hold whatever an ACL says.                              *)
MayRename(row) == ~IsInbox(row) /\ ~IsGmailOwn(row)
MayDelete(row) == MayRename(row) /\ row.role = "none"
MayCreateChild(row) == ~IsGmailOwn(row)

(* The emails as Mailbox/get counts them.                                  *)
Emails(row) == IF row.id \in done \/ (Gmail /\ done # {}) THEN Cardinality({e \in emails : row.id \in e.members})
               ELSE row.total

-----------------------------------------------------------------------------
(* The plan: every object against the rows, seeing what the ones before it *)
(* did.  The rows of the plan gain the creates; a rename changes the names *)
(* and the children alone.                                                 *)

Planning(roles) ==
  [rows |-> rows, names |-> {<<row.parent, Leaf(row.path)>> : row \in rows},
   parents |-> [id \in {row.id : row \in rows} |-> RowOf(rows, id).parent],
   roles |-> roles, steps |-> <<>>, refused |-> {}]

(* The id an object names: as written, or the one a create takes.          *)
Resolved(id) == IF id > 100 THEN NewId(id - 100) ELSE id

Children(p, id) == {child \in DOMAIN p.parents : p.parents[child] = id}

(* Whether a mailbox is another or lies anywhere under it, by the rows.    *)
LiesUnder(rs, id, ancestor) ==
  LET parent[i \in 0..MaxId, n \in 0..Cardinality(rs)] ==
        i = ancestor \/ (n > 0 /\ HasRow(rs, i) /\ parent[RowOf(rs, i).parent, n - 1])
  IN  parent[id, Cardinality(rs)]

Fine  == "none"
Under(p, parent) ==
  CASE parent = Top            -> Fine
    [] ~HasRow(p.rows, parent) -> "invalidParent"
    [] ~MayCreateChild(RowOf(p.rows, parent)) -> "forbidden"
    [] OTHER                   -> Fine

(* The name free under its parent, as far as it reads without a delimiter. *)
Name(p, name, parent) ==
  IF (parent = Top /\ name = "inbox") \/ <<parent, name>> \in p.names THEN "invalidName" ELSE Fine

(* Whether another mailbox holds the role once every role of the call is   *)
(* in place; nothing is held while no role is contested.                   *)
HeldElsewhere(p, role, own) ==
  /\ p.roles # <<>>
  /\ \E other \in p.rows : /\ other.id # own
                           /\ role = IF other.id \in DOMAIN p.roles[1] THEN p.roles[1][other.id]
                                     ELSE other.role

Role(p, role, own) ==
  CASE role = "-"                                             -> Fine
    [] Gmail \/ own = 1 \/ role = "inbox"                     -> "forbidden"
    [] role # "none" /\ HeldElsewhere(p, role, own)           -> "invalidRole"
    [] OTHER                                                  -> Fine

FirstError(errors) ==
  LET bad == {k \in 1..Len(errors) : errors[k] # Fine}
  IN  IF bad = {} THEN Fine ELSE errors[CHOOSE k \in bad : \A j \in bad : k <= j]

(* The row of the mailbox a create makes.                                  *)
RowMade(step, path) ==
  [id |-> step.id, path |-> path, parent |-> step.parent,
   role |-> IF step.role = "-" THEN "none" ELSE step.role, override |-> step.role,
   sub |-> step.sub = "yes", validity |-> NULL, total |-> 0]

(* A refused object is noted by its place, one that passed is a step.      *)
Refuses(p, k, error) == [p EXCEPT !.refused = @ \cup {<<k, error>>}]

PlanCreate(p, k, object) ==
  LET parent == Resolved(object.parent)
      error  == FirstError(<<Under(p, parent), Name(p, object.name, parent),
                             Role(p, object.role, NULL)>>)
      step   == [op |-> "create", k |-> k, id |-> NewId(k), name |-> object.name, parent |-> parent,
                 role |-> object.role, sub |-> object.sub, renames |-> FALSE, followers |-> {}]
      row    == RowMade(step, <<object.name>>)
  IN  IF error # Fine THEN Refuses(p, k, error)
      ELSE [p EXCEPT !.rows = @ \cup {row}, !.names = @ \cup {<<parent, object.name>>},
                     !.parents = (row.id :> parent) @@ @,
                     !.steps = Append(@, step)]

(* The subscribed mailboxes a rename carries.                              *)
Followers(p, row) == {r.id : r \in {q \in p.rows : q.sub /\ LiesUnder(p.rows, q.id, row.id)}}

Destroying == {Resolved(call.objects[k].id) : k \in {j \in DOMAIN call.objects :
                                                       call.objects[j].op = "destroy"}}

PlanUpdate(p, k, object) ==
  LET id      == Resolved(object.id)
      row     == RowOf(p.rows, id)
      name    == IF object.name = "-" THEN Leaf(row.path) ELSE object.name
      parent  == IF object.parent = NULL THEN row.parent ELSE Resolved(object.parent)
      renames == <<parent, name>> # <<row.parent, Leaf(row.path)>>
      role    == IF object.role = "-" THEN row.role ELSE object.role
      freed   == [p EXCEPT !.names = @ \ {<<row.parent, Leaf(row.path)>>}]
      error   == FirstError(<<IF id \in Destroying THEN "willDestroy" ELSE Fine,
                              Role(p, object.role, id),
                              IF object.sub = "no" /\ (role # "none" \/ IsInbox(row))
                                THEN "forbidden" ELSE Fine,
                              IF renames /\ ~MayRename(row) THEN "forbidden" ELSE Fine,
                              IF renames THEN Under(p, parent) ELSE Fine,
                              IF renames /\ parent # Top /\ LiesUnder(p.rows, parent, id)
                                THEN "invalidParent" ELSE Fine,
                              IF renames THEN Name(freed, name, parent) ELSE Fine>>)
      step    == [op |-> "update", k |-> k, id |-> id, name |-> name, parent |-> parent,
                  role |-> object.role, renames |-> renames,
                  sub |-> IF (object.sub = "yes") = row.sub THEN "-" ELSE object.sub,
                  followers |-> IF renames THEN Followers(p, row) ELSE {}]
  IN CASE ~HasRow(p.rows, id) -> Refuses(p, k, "notFound")
       [] error # Fine        -> Refuses(p, k, error)
       [] ~renames            -> [p EXCEPT !.steps = Append(@, step)]
       [] OTHER -> [freed EXCEPT !.names = @ \cup {<<parent, name>>},
                                 !.parents[id] = parent,
                                 !.steps = Append(@, step)]

PlanDestroy(p, k, object) ==
  LET id   == Resolved(object.id)
      row  == RowOf(p.rows, id)
      step == [op |-> "destroy", k |-> k, id |-> id, name |-> "-", parent |-> Top, role |-> "-",
               renames |-> FALSE, sub |-> IF row.sub THEN "no" ELSE "-", followers |-> {}]
  IN CASE ~HasRow(p.rows, id)              -> Refuses(p, k, "notFound")
       [] ~MayDelete(row)                  -> Refuses(p, k, "forbidden")
       [] Children(p, id) # {}             -> Refuses(p, k, "mailboxHasChild")
       [] ~call.remove /\ Emails(row) > 0  -> Refuses(p, k, "mailboxHasEmail")
       [] OTHER -> [p EXCEPT !.parents[id] = Top, !.steps = Append(@, step)]

PlanObject(p, k) ==
  LET object == call.objects[k]
  IN CASE object.op = "create"  -> PlanCreate(p, k, object)
       [] object.op = "update"  -> PlanUpdate(p, k, object)
       [] object.op = "destroy" -> PlanDestroy(p, k, object)

(* A create comes after the one its parent names; one whose reference      *)
(* never resolves comes last.                                              *)
CreationOrder ==
  LET creates == SelectSeq([k \in DOMAIN call.objects |-> k],
                           LAMBDA k : call.objects[k].op = "create")
      Placed(order, k) ==
        LET waits == Ref(0) < call.objects[k].parent /\ call.objects[k].parent - 100 \notin Range(order)
        IN  IF k \in Range(order) \/ waits THEN order ELSE Append(order, k)
      Pass(order, k) == FoldLeft(Placed, order, creates)
      order == FoldLeft(Pass, <<>>, creates)
  IN  order \o SelectSeq(creates, LAMBDA k : k \notin Range(order))

(* The creates, then the updates, then the destroys.                       *)
Run(p) ==
  LET rest(op) == SelectSeq([k \in DOMAIN call.objects |-> k], LAMBDA k : call.objects[k].op = op)
  IN  FoldLeft(PlanObject, p, CreationOrder \o rest("update") \o rest("destroy"))

(* The role each update that lands sets, by a run with no role contested.  *)
OfLandingUpdates ==
  LET run   == Run(Planning(<<>>))
      lands == {step \in Range(run.steps) : step.op = "update" /\ step.role # "-"}
  IN  <<[id \in {step.id : step \in lands} |-> (CHOOSE step \in lands : step.id = id).role]>>

Planned == Run(Planning(OfLandingUpdates))

-----------------------------------------------------------------------------
(* The pass: what LIST, STATUS and LSUB say, written as one state.         *)

Found ==
  {[path |-> e.path, box |-> e.box, sub |-> e.path \in subs,
    total |-> IF mail.box = e.box \/ e.box \in mail.labels THEN 1 ELSE 0]
     : e \in {f \in tree : f.shown}}

(* The overrides a pass reads ahead of the listing.                        *)
PassInputs == {row \in rows : row.override # "-"}

Listing == [found |-> Found, set |-> PassInputs]
Unread == [found |-> {}, set |-> {}]

(* One mailbox per role: first the roles the user set, in the order listed,*)
(* then what the names claim, the smaller depth first.                     *)
AssignRoles(found, inputs) ==
  LET set     == {row \in inputs : row.path \in Paths(found)}
      Set(r)  == {row.path : row \in {q \in set : q.override = r}}
      Claim(r) == {path \in Paths(found) \ Paths(set) :
                     \/ r = "inbox" /\ path = <<"inbox">>
                     \/ r = "archive" /\ Gmail /\ path = <<"all">>
                     \/ Leaf(path) \in DOMAIN Named /\ Named[Leaf(path)] = r}
      Shortest(ps) == CHOOSE path \in ps : \A other \in ps : Len(path) <= Len(other)
      Holder(r) == IF Set(r) # {} THEN {CHOOSE path \in Set(r) : TRUE}
                   ELSE IF Claim(r) # {} THEN {Shortest(Claim(r))} ELSE {}
  IN  [path \in Paths(found) |->
         IF \E r \in {"inbox", "archive", "junk", "trash"} : path \in Holder(r)
         THEN CHOOSE r \in {"inbox", "archive", "junk", "trash"} : path \in Holder(r) ELSE "none"]

(* An id no mailbox of the account ever had.                               *)
FreshId == 1 + Max({20} \cup {row.id : row \in rows} \cup {line.id : line \in log})

(* The row of every listed name: the id of the row that held the name, or  *)
(* a new one.                                                              *)
PassRows(found, inputs) ==
  LET roles  == AssignRoles(found, inputs)
      new    == Paths(found) \ Paths(rows)
      order  == SetToSeq(new)
      IdOf(path) == IF path \in Paths(rows) THEN EntryAt(rows, path).id
                    ELSE FreshId + CHOOSE k \in DOMAIN order : order[k] = path
      Held(path) == IF path \in Paths(rows) THEN EntryAt(rows, path).override ELSE "-"
  IN  {[id |-> IdOf(f.path), path |-> f.path,
        parent |-> IF Above(f.path) \in Paths(found) THEN IdOf(Above(f.path)) ELSE Top,
        role |-> roles[f.path], override |-> Held(f.path), sub |-> f.sub,
        validity |-> f.box, total |-> f.total] : f \in found}

(* The emails of a folder that vanished leave, a label loses its members;  *)
(* a folder that was renumbered keeps its rows waiting for its sync.       *)
LeaveWith(es, ids) ==
  {[e EXCEPT !.members = @ \ ids] : e \in {f \in es : f.folder \notin ids}}

Renumbered(new) ==
  {row.id : row \in {r \in new : HasRow(rows, r.id) /\ RowOf(rows, r.id).validity \notin {NULL, r.validity}}}

(* The lines the leaving rows log, and the ones the pass logs itself.      *)
LeavingLines(vanished) ==
  UNION {e.members \ {e.folder} : e \in {f \in emails : f.folder \in vanished}}

Logged(ids, old, new) ==
  {[seq |-> seq + 1, id |-> id, kind |-> IF ~HasRow(old, id) THEN "created"
                                         ELSE IF ~HasRow(new, id) THEN "destroyed" ELSE "updated"]
     : id \in ids}

Ids(rs) == {row.id : row \in rs}

(* A pass written as one state; a line logged twice under it undoes it     *)
(* whole.                                                                  *)
Apply(read) ==
  LET new      == PassRows(read.found, read.set)
      vanished == Ids(rows) \ Ids(new)
      changed  == {row.id : row \in (rows \ new) \cup (new \ rows)}
                    \cup IF recorded THEN {} ELSE Ids(new)
      leaving  == LeavingLines(vanished)
      stale    == Renumbered(new)
  IN  IF leaving \cap changed # {} THEN UNCHANGED <<store, recorded>>
      ELSE /\ rows' = new
           /\ emails' = LeaveWith(emails, vanished)
           /\ done' = done \ (vanished \cup stale)
           /\ seq' = IF changed = {} THEN seq ELSE seq + 1
           /\ log' = log \cup Logged(changed \cup leaving, rows, new)
           /\ recorded' = TRUE

Applies(read) ==
  LET new == PassRows(read.found, read.set)
  IN  LeavingLines(Ids(rows) \ Ids(new)) \cap
        ({row.id : row \in (rows \ new) \cup (new \ rows)} \cup IF recorded THEN {} ELSE Ids(new)) = {}

-----------------------------------------------------------------------------
(* What a command does to the folders of the server, and when it says NO.  *)

BoxAt(path) == EntryAt(tree, path).box
Effects == [tree |-> tree, subs |-> subs, next |-> next, mail |-> mail, did |-> did]

Target(w, step) ==
  (IF step.parent = Top THEN <<>> ELSE w.names[step.parent]) \o <<step.name>>

Takes(w) ==
  LET step == Head(w.steps)
      from == IF step.op = "create" THEN <<>> ELSE w.names[step.id]
      to   == Target(w, step)
  IN CASE w.stage = "create" -> to \notin Paths(tree) /\ Above(to) \in Paths(tree) \cup {<<>>}
       [] w.stage = "rename" -> /\ from \in Paths(tree) /\ to \notin Paths(tree) /\ ~Below(to, from)
                                /\ Above(to) \in Paths(tree) \cup {<<>>}
       [] w.stage = "delete" -> /\ from \in Paths(tree)
                                /\ ~\E path \in Paths(tree) : Above(path) = from
       [] w.stage = "enter"  -> to \in Paths(tree)
       [] w.stage = "follow" -> w.names[Head(w.queue).id] \in Paths(tree)
       [] w.stage = "sub"    -> step.sub = "no" \/ from \in Paths(tree)
       [] OTHER              -> TRUE

Whole(w) ==
  LET step == Head(w.steps)
      from == IF step.op = "create" THEN <<>> ELSE w.names[step.id]
      to   == Target(w, step)
      Did(what) == did \cup {<<step.k, what>>}
  IN CASE w.stage = "create" -> [Effects EXCEPT !.tree = @ \cup {[path |-> to, box |-> next, shown |-> TRUE]},
                                                !.next = @ + 1, !.did = Did("create")]
       [] w.stage = "rename" -> [Effects EXCEPT !.tree = {[e EXCEPT !.path = Moved(@, from, to)] : e \in tree},
                                                !.did = Did("rename")]
       [] w.stage = "delete" -> [Effects EXCEPT !.tree = @ \ {EntryAt(tree, from)},
                                                !.mail = [box |-> IF @.box = BoxAt(from) THEN None ELSE @.box,
                                                          labels |-> @.labels \ {BoxAt(from)}],
                                                !.did = Did("delete")]
       [] w.stage = "enter"  -> [Effects EXCEPT !.subs = @ \cup {to}]
       [] w.stage = "follow" -> [Effects EXCEPT !.subs = @ \cup {w.names[Head(w.queue).id]}]
       [] w.stage = "tidy"   -> [Effects EXCEPT !.subs = @ \ {Head(w.queue).from}]
       [] w.stage = "sub"    -> [Effects EXCEPT !.subs = IF step.sub = "yes" THEN @ \cup {from} ELSE @ \ {from},
                                                !.did = Did("sub")]
       [] w.stage = "unsub"  -> [Effects EXCEPT !.subs = @ \ {from}]

-----------------------------------------------------------------------------
(* A call on the conversation.                                             *)

NoWork == [stage |-> "none"]

(* Mutant: an update that only changes a subscription sends nothing.       *)
IsLocalUnnamed(step) == step.op = "update" /\ ~step.renames

IsLocal(step) == step.op = "update" /\ ~step.renames /\ step.sub = "-"

Work(planned) ==
  [stage |-> "session", planned |-> planned.steps,
   steps |-> SelectSeq(planned.steps, LAMBDA step : ~IsLocal(step)),
   names |-> [id \in Ids(rows) |-> RowOf(rows, id).path],
   results |-> [k \in DOMAIN call.objects |->
                  IF \E r \in planned.refused : r[1] = k
                  THEN (CHOOSE r \in planned.refused : r[1] = k)[2] ELSE "waits"],
   changes |-> <<>>, refused |-> 0, contested |-> {}, queue |-> <<>>, ready |-> {}, over |-> FALSE]

Change(what, id, path, parent, flag) ==
  [what |-> what, id |-> id, path |-> path, parent |-> parent, flag |-> flag]
Notes(w, change) == [w EXCEPT !.changes = Append(@, change)]

Ends(w, error) == [w EXCEPT !.results[Head(w.steps).k] = error]

(* The stage the step at the front begins with.                            *)
Entry(w) ==
  LET step == Head(w.steps)
      Stops(error) == [w EXCEPT !.results[step.k] = error, !.steps = Tail(@), !.stage = "next"]
  IN CASE w.steps = <<>> -> [w EXCEPT !.stage = "rows"]
       [] step.op # "create" /\ step.id \notin DOMAIN w.names -> Stops("notFound")
       [] (step.op = "create" \/ step.renames) /\ step.parent \notin {Top} \cup DOMAIN w.names
            -> Stops("invalidParent")
       [] (step.op = "create" \/ step.renames) /\ step.name = Cut -> Stops("invalidName")
       [] step.op = "create"  -> [w EXCEPT !.stage = "create"]
       [] step.op = "destroy" -> [w EXCEPT !.stage = "delete"]
       [] step.renames        -> [w EXCEPT !.stage = "rename"]
       [] OTHER               -> [w EXCEPT !.stage = "sub"]

NextStep(w) ==
  LET once(v, k) == IF v.stage = "next" THEN Entry(v) ELSE v
  IN  FoldLeft(once, [w EXCEPT !.stage = "next"], w.steps \o <<1>>)

Finish(w) == NextStep([w EXCEPT !.steps = Tail(@), !.queue = <<>>])
Lost(w) == [w EXCEPT !.stage = "rows", !.queue = <<>>]

(* Mutant: the row says subscribed whatever came of the SUBSCRIBE.         *)
MadeSubscribed(w, subscribed) ==
  LET step == Head(w.steps)
      row  == RowMade([step EXCEPT !.sub = "yes"], Target(w, step))
  IN  Notes([Ends(w, "done") EXCEPT !.names = (step.id :> row.path) @@ @],
            Change("created", step.id, row.path, step.parent, row))

MadeBy(w, subscribed) ==
  LET step == Head(w.steps)
      row  == RowMade([step EXCEPT !.sub = IF subscribed THEN "yes" ELSE "no"], Target(w, step))
  IN  Notes([Ends(w, "done") EXCEPT !.names = (step.id :> row.path) @@ @],
            Change("created", step.id, row.path, step.parent, row))

(* What is left of an update behind its rename.                            *)
AfterRename(w) ==
  LET step == Head(w.steps)
      role == IF step.role = "-" THEN w ELSE Notes(w, Change("role", step.id, <<>>, Top, step.role))
  IN  IF w.stage # "sub" /\ step.sub # "-" THEN [w EXCEPT !.stage = "sub", !.queue = <<>>]
      ELSE Finish(Ends(role, "done"))

FollowNext(w) == IF w.queue = <<>> THEN AfterRename(w) ELSE [w EXCEPT !.stage = "follow"]

(* Every name a RENAME moved, the mailbox itself first.                    *)
RenamedNames(w) ==
  LET step == Head(w.steps)
      from == w.names[step.id]
      to   == Target(w, step)
      ids  == {id \in DOMAIN w.names : Below(w.names[id], from)} \cap step.followers
      order == SetToSortSeq(ids, LAMBDA a, b : Len(w.names[a]) < Len(w.names[b])
                                               \/ (Len(w.names[a]) = Len(w.names[b]) /\ a < b))
  IN  Notes([w EXCEPT !.names = [id \in DOMAIN @ |-> Moved(@[id], from, to)],
                      !.queue = [k \in DOMAIN order |-> [id |-> order[k], from |-> w.names[order[k]]]]],
            Change("renamed", step.id, to, step.parent, NULL))

(* The command of the stage was taken.                                     *)
Answered(w) ==
  LET step == Head(w.steps)
  IN CASE w.stage = "create" -> IF step.sub = "yes" THEN [w EXCEPT !.stage = "enter"]
                                ELSE Finish(MadeBy(w, FALSE))
       [] w.stage = "enter"  -> Finish(MadeBy(w, TRUE))
       [] w.stage = "rename" -> FollowNext(RenamedNames(w))
       [] w.stage = "follow" -> [w EXCEPT !.stage = "tidy"]
       [] w.stage = "tidy"   -> FollowNext([w EXCEPT !.queue = Tail(@)])
       [] w.stage = "sub"    -> AfterRename(Notes(w, Change("subscribed", step.id, <<>>, Top, step.sub = "yes")))
       [] w.stage = "delete" -> LET gone == Notes(w, Change("destroyed", step.id, <<>>, Top, NULL))
                                IN  IF step.sub = "no" THEN [gone EXCEPT !.stage = "unsub"]
                                    ELSE Finish(Ends(gone, "done"))
       [] w.stage = "unsub"  -> Finish(Ends(w, "done"))

Contested(w) == [k |-> Head(w.steps).k, place |-> <<Head(w.steps).parent, Head(w.steps).name>>,
                 moving |-> IF w.stage = "rename" THEN Head(w.steps).id ELSE None]

(* The command failed: how its object ends, whether the session stands.    *)
Failed(w, fail) ==
  LET Goes(v)  == IF fail.stands THEN Finish(v) ELSE Lost(v)
      Marks(n) == [Ends(w, fail.error) EXCEPT !.refused = IF @ > n THEN @ ELSE n]
      step     == Head(w.steps)
  IN CASE w.stage \in {"create", "rename"} -> Goes([Marks(2) EXCEPT !.contested = @ \cup {Contested(w)}])
       [] w.stage = "delete"  -> Goes(Marks(2))
       [] w.stage = "enter"   -> Goes([MadeBy(w, FALSE) EXCEPT !.refused = IF @ > 1 THEN @ ELSE 1])
       [] w.stage = "sub"     -> Goes(Marks(1))
       [] w.stage = "follow" /\ fail.stands ->
            [Notes(w, Change("subscribed", Head(w.queue).id, <<>>, Top, FALSE)) EXCEPT !.stage = "tidy"]
       [] w.stage \in {"tidy", "unsub"} /\ fail.stands -> Answered(w)
       [] OTHER               -> Lost(Ends(w, fail.error))

No == [error |-> "serverFail", stands |-> TRUE]
Losses == {[error |-> "serverFail", stands |-> FALSE], [error |-> "serverUnavailable", stands |-> FALSE]}

Fault == faults < MaxFaults /\ faults' = faults + 1
beside == <<fixed, store, recorded, wire, listing, answer, late>>
Becomes(e) == tree' = e.tree /\ subs' = e.subs /\ next' = e.next /\ mail' = e.mail /\ did' = e.did

Setting == wire = "set"
Sends == Setting /\ work.stage \in {"create", "enter", "rename", "follow", "tidy", "sub", "delete", "unsub"}

(* What a command needs before it goes: the delimiters of a listing, INBOX *)
(* open in place of the mailbox that goes.                                 *)
Needs(stage) == CASE stage = "create" -> {"list"}
                  [] stage = "rename" -> {"list", "inbox"}
                  [] stage = "delete" -> {"inbox"}
                  [] OTHER            -> {}
Readied(w) == [w EXCEPT !.ready = @ \cup Needs(w.stage)]

Begin ==
  /\ wire = "free" /\ answer.state = "unasked"
  /\ IF call.ifInState \notin {NULL, seq}
     THEN answer' = [state |-> "mismatch", results |-> <<>>] /\ UNCHANGED <<wire, work>>
     ELSE LET w == Work(Planned)
          IN  /\ work' = IF w.steps = <<>> THEN [w EXCEPT !.stage = "rows"] ELSE w
              /\ wire' = "set"
              /\ answer' = [state |-> "asked", results |-> <<>>]
  /\ UNCHANGED <<fixed, server, store, recorded, listing, late, faults, unsure, did>>

(* The conversation's session, signed in when none stands.                 *)
Connect ==
  /\ Setting /\ work.stage = "session"
  /\ \/ work' = NextStep(work) /\ UNCHANGED faults
     \/ work' = Lost(work) /\ Fault
  /\ UNCHANGED <<beside, server, unsure, did>>

(* The listing or the EXAMINE ahead of a command fails: nothing was sent.  *)
Unasked ==
  /\ Sends /\ Needs(work.stage) \ work.ready # {} /\ Fault
  /\ \/ \E fail \in Losses : work' = Lost(Ends(work, fail.error))
     \/ "list" \in Needs(work.stage) \ work.ready /\ work' = Finish(Ends(work, No.error))
  /\ UNCHANGED <<beside, server, unsure, did>>

Taken ==
  /\ Sends /\ Takes(work)
  /\ Becomes(Whole(work))
  /\ work' = Answered(Readied(work))
  /\ UNCHANGED <<beside, faults, unsure>>

(* The server's own NO, and one it gives for a reason of its own.          *)
Refuse ==
  /\ Sends
  /\ IF Takes(work) THEN Fault ELSE UNCHANGED faults
  /\ work' = Failed(Readied(work), No)
  /\ UNCHANGED <<beside, server, unsure, did>>

(* The answer is lost or cannot be read; the command was done or was not.  *)
Break ==
  /\ Sends /\ Fault
  /\ \E fail \in Losses : work' = Failed(Readied(work), fail)
  /\ \/ Takes(work) /\ Becomes(Whole(work))
     \/ UNCHANGED <<server, did>>
  /\ unsure' = TRUE
  /\ UNCHANGED beside

(* The deadline of the round: the object on the session is left waiting.   *)
Timeout ==
  /\ Sends /\ Fault
  /\ work' = [Lost(work) EXCEPT !.over = TRUE]
  /\ \/ Takes(work) /\ Becomes(Whole(work))
     \/ UNCHANGED <<server, did>>
  /\ unsure' = TRUE
  /\ UNCHANGED beside

-----------------------------------------------------------------------------
(* The rows of a call, written in its order as one state.                  *)

Local(w) ==
  LET End(v, step) ==
        IF ~IsLocal(step) THEN v
        ELSE IF step.id \notin DOMAIN v.names THEN [v EXCEPT !.results[step.k] = "notFound"]
        ELSE [v EXCEPT !.results[step.k] = "done",
                       !.changes = IF step.role = "-" THEN @
                                   ELSE Append(@, Change("role", step.id, <<>>, Top, step.role))]
  IN  FoldLeft(End, w, w.planned)

(* Mutant: a role set on a mailbox is not noted.                           *)
NotesNoRole(rs, change) == IF change.what = "role" THEN {} ELSE {change.id}

(* The mailboxes a change is noted for: a rename moves the ones under it.  *)
NotedBy(rs, change) ==
  {change.id} \cup IF change.what = "renamed" /\ HasRow(rs, change.id)
                   THEN {row.id : row \in {r \in rs : LiesUnder(rs, r.id, change.id)}} ELSE {}

Written(rs, change) ==
  LET own  == {row \in rs : row.id = change.id}
      tree_ == {row \in rs : own # {} /\ LiesUnder(rs, row.id, change.id)}
      Old  == (CHOOSE row \in own : TRUE).path
  IN CASE change.what = "created"    -> (rs \ own) \cup {change.flag}
       [] change.what = "destroyed"  -> rs \ own
       [] change.what = "subscribed" -> (rs \ own) \cup {[row EXCEPT !.sub = change.flag] : row \in own}
       [] change.what = "role"       -> (rs \ own) \cup {[row EXCEPT !.role = change.flag, !.override = change.flag]
                                                           : row \in own}
       [] change.what = "renamed"    ->
            (rs \ tree_) \cup {[row EXCEPT !.path = Moved(@, Old, change.path),
                                           !.parent = IF row.id = change.id THEN change.parent ELSE @]
                                 : row \in tree_}

Unique(rs) == \A one, other \in rs : one.path = other.path => one = other

(* Every state of the rows on the way, the first one first.                *)
Steps(changes) == FoldLeft(LAMBDA so, change : Append(so, Written(Last(so), change)), <<rows>>, changes)

WriteMailboxes(changes) ==
  LET so    == Steps(changes)
      new   == Last(so)
      noted == UNION {NotedBy(so[k], changes[k]) : k \in DOMAIN changes}
      gone  == {changes[k].id : k \in {j \in DOMAIN changes : changes[j].what = "destroyed"}}
  IN  IF noted = {} THEN UNCHANGED store
      ELSE /\ rows' = new
           /\ seq' = seq + 1
           /\ log' = log \cup Logged(noted \cup LeavingLines(gone), rows, new)
           /\ emails' = LeaveWith(emails, gone)
           /\ done' = done \ gone

Fits(changes) == \A k \in DOMAIN Steps(changes) : Unique(Steps(changes)[k])

Answers(w) ==
  [state |-> "answered",
   results |-> [k \in DOMAIN w.results |-> IF w.results[k] = "waits" THEN "serverUnavailable" ELSE w.results[k]]]
Fails == [state |-> "fails", results |-> <<>>]

Closes(a) == wire' = "free" /\ work' = NoWork /\ answer' = a

WriteRows ==
  /\ Setting /\ work.stage = "rows"
  /\ LET w == Local(work)
     IN  IF ~Fits(w.changes)
         THEN UNCHANGED store /\ Closes(Fails)
         ELSE /\ WriteMailboxes(w.changes)
              /\ IF w.refused = 2 THEN work' = [w EXCEPT !.stage = "settle"] /\ UNCHANGED <<wire, answer>>
                 ELSE Closes(Answers(w))
  /\ UNCHANGED <<fixed, server, recorded, listing, late, faults, unsure, did>>

(* Whether another mailbox stands at the place a failed command asked for. *)
HeldByAnother(asked, rs) ==
  /\ asked.moving = None \/ HasRow(rs, asked.moving)
  /\ \E row \in rs : <<row.parent, Leaf(row.path)>> = asked.place /\ row.id # asked.moving

Passed(w, rs) ==
  LET taken == {asked \in w.contested : HeldByAnother(asked, rs)}
  IN  [w EXCEPT !.results = [k \in DOMAIN @ |-> IF \E asked \in taken : asked.k = k THEN "invalidName" ELSE @[k]]]

(* One pass on a fresh connection within what is left of the deadline.     *)
SettleRead ==
  /\ Setting /\ work.stage = "settle" /\ ~work.over
  /\ listing' = Listing /\ work' = [work EXCEPT !.stage = "settled"]
  /\ UNCHANGED <<fixed, server, store, recorded, wire, answer, late, faults, unsure, did>>

SettleWrite ==
  /\ Setting /\ work.stage = "settled"
  /\ Apply(listing)
  /\ unsure' = (~Applies(listing) \/ Found # listing.found)
  /\ Closes(IF Applies(listing) THEN Answers(Passed(work, rows')) ELSE Fails)
  /\ listing' = Unread
  /\ UNCHANGED <<fixed, server, late, faults, did>>

NoPass ==
  /\ Setting /\ work.stage = "settle"
  /\ IF work.over THEN UNCHANGED faults ELSE Fault
  /\ Closes(Answers(work))
  /\ UNCHANGED <<fixed, server, store, recorded, listing, late, unsure, did>>

-----------------------------------------------------------------------------
(* The HTTP client goes away: the call ends where it stands, a transaction *)
(* under way runs on.                                                      *)

Drop ==
  /\ Setting /\ Fault
  /\ \/ late' = <<>>
     \/ work.stage = "rows" /\ late' = Local(work).changes
  /\ wire' = "free" /\ work' = NoWork /\ listing' = Unread
  /\ answer' = [state |-> "gone", results |-> <<>>]
  /\ unsure' = TRUE
  /\ UNCHANGED <<fixed, server, store, recorded, did>>

LateWrite ==
  /\ late # <<>>
  /\ IF Fits(late) THEN WriteMailboxes(late) ELSE UNCHANGED store
  /\ late' = <<>>
  /\ unsure' = TRUE
  /\ UNCHANGED <<fixed, server, recorded, wire, work, listing, answer, faults, did>>

(* The pass a refresh runs on the conversation.                            *)
PassRead ==
  /\ wire = "free"
  /\ wire' = "pass" /\ listing' = Listing
  /\ UNCHANGED <<fixed, server, store, recorded, work, answer, late, faults, unsure, did>>

PassWrite ==
  /\ wire = "pass"
  /\ Apply(listing)
  /\ unsure' = (~Applies(listing) \/ Found # listing.found \/ late # <<>>)
  /\ wire' = "free" /\ listing' = Unread
  /\ UNCHANGED <<fixed, server, work, answer, late, faults, did>>

Restart ==
  /\ Fault
  /\ recorded' = FALSE /\ late' = <<>> /\ wire' = "free" /\ work' = NoWork /\ listing' = Unread
  /\ answer' = IF Setting THEN [state |-> "gone", results |-> <<>>] ELSE answer
  /\ unsure' = TRUE
  /\ UNCHANGED <<fixed, server, store, did>>

-----------------------------------------------------------------------------
(* Another client of the mail server.                                      *)

Bystander == unsure' = TRUE /\ Fault
             /\ UNCHANGED <<fixed, store, recorded, wire, work, listing, answer, late, did>>
Leaves == {path \in Paths(tree) : ~\E other \in Paths(tree) : Above(other) = path}
              \ {<<"inbox">>, <<"all">>}

OtherCreate ==
  /\ <<"x">> \notin Paths(tree)
  /\ tree' = tree \cup {[path |-> <<"x">>, box |-> next, shown |-> TRUE]} /\ next' = next + 1
  /\ UNCHANGED <<subs, mail>> /\ Bystander

OtherDelete ==
  /\ \E path \in Leaves :
       /\ tree' = tree \ {EntryAt(tree, path)}
       /\ mail' = [box |-> IF mail.box = BoxAt(path) THEN None ELSE mail.box,
                   labels |-> mail.labels \ {BoxAt(path)}]
  /\ UNCHANGED <<subs, next>> /\ Bystander

OtherRename ==
  /\ <<"a">> \in Paths(tree) /\ <<"w">> \notin Paths(tree)
  /\ tree' = {[e EXCEPT !.path = Moved(@, <<"a">>, <<"w">>)] : e \in tree}
  /\ UNCHANGED <<subs, next, mail>> /\ Bystander

(* The user hides a Gmail store from IMAP.                                 *)
HideStore ==
  /\ Gmail
  /\ \E e \in tree : /\ e.path = <<"all">> /\ e.shown
                     /\ tree' = (tree \ {e}) \cup {[e EXCEPT !.shown = FALSE]}
  /\ UNCHANGED <<subs, next, mail>> /\ Bystander

-----------------------------------------------------------------------------
(* INBOX, a folder "a" that holds the message, "b" under it and "t", the   *)
(* trash; on Gmail INBOX, the label "a" and the store "all".               *)

FirstFolders ==
  IF Gmail THEN <<<<<<"inbox">>, "inbox">>, <<<<"a">>, "none">>, <<<<"all">>, "archive">>>>
  ELSE <<<<<<"inbox">>, "inbox">>, <<<<"a">>, "none">>, <<<<"a", "b">>, "none">>, <<<<"t">>, "trash">>>>

Init ==
  /\ kind \in {"folders", "gmail"}
  /\ \E name \in IF Gmail THEN GmailCalls ELSE FolderCalls : call = Ask(name)
  /\ tree = {[path |-> FirstFolders[k][1], box |-> k, shown |-> TRUE] : k \in DOMAIN FirstFolders}
  /\ subs = {FirstFolders[k][1] : k \in DOMAIN FirstFolders}
  /\ next = 10
  /\ mail = IF Gmail THEN [box |-> 3, labels |-> {2}] ELSE [box |-> 2, labels |-> {}]
  /\ rows = {[id |-> k, path |-> FirstFolders[k][1], role |-> FirstFolders[k][2], override |-> "-",
              parent |-> IF Len(FirstFolders[k][1]) > 1 THEN 2 ELSE Top,
              sub |-> TRUE, validity |-> k,
              total |-> IF k = mail.box \/ k \in mail.labels THEN 1 ELSE 0] : k \in DOMAIN FirstFolders}
  /\ emails = {[folder |-> mail.box, members |-> {mail.box} \cup mail.labels]}
  /\ done = {mail.box}
  /\ seq = 0 /\ log = {}
  /\ recorded \in BOOLEAN
  /\ wire = "free" /\ work = NoWork /\ listing = Unread
  /\ answer = [state |-> "unasked", results |-> <<>>]
  /\ late = <<>> /\ faults = 0
  /\ unsure = FALSE /\ snap = rows /\ did = {}

Next ==
  \/ Begin \/ Connect \/ Unasked \/ Taken \/ Refuse \/ Break \/ Timeout
  \/ WriteRows \/ SettleRead \/ SettleWrite \/ NoPass
  \/ Drop \/ LateWrite \/ PassRead \/ PassWrite \/ Restart
  \/ OtherCreate \/ OtherDelete \/ OtherRename \/ HideStore

Spec == Init /\ [][Next]_vars

-----------------------------------------------------------------------------
(* Type invariant: also that no two rows share an id or a wire name, the   *)
(* table's keys.                                                           *)
TypeOK ==
  /\ wire \in {"free", "set", "pass"} /\ (wire = "set") <=> (work # NoWork)
  /\ answer.state \in {"unasked", "asked", "mismatch", "answered", "fails", "gone"}
  /\ Unique(rows) /\ \A one, other \in rows : one.id = other.id => one = other
  /\ \A row \in rows : row.id \in 1..MaxId /\ row.validity \in {NULL} \cup 1..MaxBox /\ row.sub \in BOOLEAN
  /\ \A e \in emails : e.folder \in Ids(rows) /\ e.members \subseteq Ids(rows) \cup {e.folder}
  /\ done \subseteq Ids(rows)
  /\ faults \in 0..MaxFaults /\ unsure \in BOOLEAN

AtRest == wire = "free" /\ late = <<>>

(* With nothing lost, dropped or done by another client since the rows     *)
(* were last in step, they show the folders of the server: the same names, *)
(* each under the row of the name above it, subscribed only if the server  *)
(* has it so, under the UIDVALIDITY of its folder, whatever creates, moves *)
(* and destroys the call ran and whichever of them were refused (send.rs   *)
(* Work::remote, set.rs write_mailboxes).  A subscription left behind on a *)
(* name nobody holds may be found by a folder that takes the name later.   *)
Mirror ==
  (AtRest /\ ~unsure) =>
    /\ Paths(rows) = {e.path : e \in {f \in tree : f.shown}}
    /\ \A row \in rows :
         /\ row.parent = IF Above(row.path) \in Paths(rows) THEN EntryAt(rows, Above(row.path)).id ELSE Top
         /\ row.sub => row.path \in subs
         /\ row.validity \in {NULL, BoxAt(row.path)}

(* What a client sees of a mailbox.                                        *)
Shown(rs) == {[id |-> row.id, name |-> Leaf(row.path), parent |-> row.parent, role |-> row.role, sub |-> row.sub]
                : row \in rs}

(* Every mailbox that reads otherwise than at the first state is in the    *)
(* log behind it, a new one as created and a gone one as destroyed, so     *)
(* Mailbox/changes tells a client of it (set.rs written, mailboxes.rs      *)
(* apply).                                                                 *)
ChangesTell ==
  \A row \in (Shown(rows) \ Shown(snap)) \cup (Shown(snap) \ Shown(rows)) :
    \E line \in log : /\ line.id = row.id /\ line.seq <= seq
                      /\ ~HasRow(rows, row.id) => line.kind = "destroyed"
                      /\ ~HasRow(snap, row.id) => line.kind = "created"

(* An object the call answers as done was done by the server, and all of   *)
(* it: the folder made, moved, deleted, its subscription set; a local      *)
(* update needs nothing of the server.                                     *)
DoneOnServer ==
  answer.state = "answered" =>
    \A k \in DOMAIN answer.results :
      (answer.results[k] = "done") =>
        LET object == call.objects[k]
        IN CASE object.op = "create"  -> <<k, "create">> \in did
             [] object.op = "destroy" -> <<k, "delete">> \in did
             [] OTHER -> /\ object.name # "-" \/ object.parent # NULL => <<k, "rename">> \in did
                         /\ object.sub = "no" => <<k, "sub">> \in did

(* No two mailboxes hold one role once a call or a pass is done.           *)
OneRole ==
  AtRest => \A one, other \in rows : (one.role = other.role /\ one.role # "none") => one = other

(* The rows are the folders of the server, each role held once.            *)
RowsFit == Mirror /\ OneRole
=============================================================================
