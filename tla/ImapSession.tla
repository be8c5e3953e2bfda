----------------------------- MODULE ImapSession -----------------------------
(***************************************************************************)
(* The IMAP session under the bridge (session/): one connection, the      *)
(* tagged commands it sends, the lines it reads up to each tagged answer, *)
(* the message count it keeps of the selected mailbox, and the            *)
(* conversation (runtime/mod.rs, `Wire`) that keeps one session from one  *)
(* turn to the next.                                                       *)
(*                                                                         *)
(* The two directions of the connection are FIFO sequences: `out` of what *)
(* the bridge wrote, `wire` of the lines the server wrote.  The server    *)
(* (srv, external) answers, refuses, stays silent, chatters, or           *)
(* volunteers EXISTS, EXPUNGE and FETCH lines for what other clients do;  *)
(* a turn may be given up in the middle of a command because the request  *)
(* it serves was dropped, which leaves the rest of an answer unread.      *)
(*                                                                         *)
(* A message is its UID; the UIDs of the two mailboxes are kept apart, so  *)
(* that an answer meant for another mailbox shows.  Flags are a version    *)
(* per message.                                                            *)
(***************************************************************************)
EXTENDS Integers, Sequences, FiniteSets, SequencesExt

CONSTANTS
  SEARCH_WINDOW,    \* sequence numbers one UID SEARCH names
  MAX_FOLDER_UIDS,  \* UIDs one folder may hold
  MAX_FETCHED,      \* messages one FETCH may answer (500 headers, 10,000 flags)
  MAX_MAILBOXES,    \* mailboxes one LIST may name
  SPARE_LINES,      \* volunteered lines one answer has room for
  SELECTED_SPARE_LINES,  \* the same once a mailbox is selected
  Servers,          \* how a server takes literals: "sync", "minus", "plus"
  MaxVer,           \* bound: flag changes of one message
  MaxChanges,       \* bound: changes to the mailboxes, by whomever
  MaxWire,          \* bound: unread lines when the server volunteers another
  ChattyOps,        \* bound: the commands the server chatters during
  DroppedOps        \* bound: the commands a request is dropped during

ASSUME WindowAssumption == SEARCH_WINDOW \in Nat \ {0}
ASSUME LimitAssumption ==
  /\ {MAX_FOLDER_UIDS, MAX_FETCHED, MAX_MAILBOXES} \subseteq Nat
  /\ {SPARE_LINES, SELECTED_SPARE_LINES} \subseteq Nat
  /\ {MaxVer, MaxChanges, MaxWire} \subseteq Nat
ASSUME ServersAssumption == Servers \subseteq {"sync", "minus", "plus"}

VARIABLES
  srv,    \* the server: mailboxes and its side of the connection (external)
  out,    \* what the bridge wrote and the server has not read
  wire,   \* what the server wrote and the bridge has not read
  cl,     \* the ImapSession
  cur,    \* the command whose answer is being read
  turn,   \* the caller's turn on the conversation
  last    \* what the command that has just ended came to

vars == <<srv, out, wire, cl, cur, turn, last>>

\* UIDs ever handed out: the three there, one per change, one on its way.
MaxUid == 4 + MaxChanges

Boxes == {1, 2}
None == 0
TAGS == 6
NoCount == -1
Ways == {"login", "xoauth2"}

(* The operations of the session seam (trait Session and Appends).        *)
Opens == {"examine", "select"}
Walks == {"uid_list", "uid_search"}
Fetches == {"uid_fetch", "uid_flags"}
Transfers == {"uid_move", "uid_copy"}
Writes == Transfers \cup {"uid_store", "uid_expunge", "replace"}
Appends == {"append", "replace"}
Ops == Opens \cup Walks \cup Fetches \cup Writes \cup Appends \cup
       {"uid_part", "list", "status"}

NoCmd == [op |-> "none", tag |-> 0, box |-> None, uid |-> 0, low |-> 0, high |-> 0,
          lit |-> "none", size |-> "small"]
NoSnap == [stood |-> {}, ver |-> <<>>]
NoLast == [cmd |-> NoCmd, got |-> {}, how |-> "none", snap |-> NoSnap]
NoCur == [cmd |-> NoCmd, wait |-> 0, lines |-> 0, max |-> 0, got |-> {}, snap |-> NoSnap]
Idle == cur.cmd.op = "none"
Past == last' = NoLast

SeqSet(s) == {s[i] : i \in DOMAIN s}
\* A mailbox without one of its messages, the later ones moved up.
Without(s, u) == RemoveAt(s, CHOOSE i \in DOMAIN s : s[i] = u)
\* UIDs in the order of their sequence numbers.
InOrder(uids) ==
  [i \in 1..Cardinality(uids) |-> CHOOSE u \in uids : Cardinality({v \in uids : v < u}) = i - 1]
Standing(box) == SeqSet(srv.mail[box])

(***************************************************************************)
(* The connection: connect, STARTTLS, sign-in.                             *)
(***************************************************************************)

\* The connection is gone on both sides; what was on its way is lost.
Cut ==
  /\ out' = <<>> /\ wire' = <<>>
  /\ srv' = [srv EXCEPT !.sel = None, !.rw = FALSE, !.view = <<>>, !.mode = "idle",
                        !.held = NoCmd, !.busy = NoCmd, !.owed = {}, !.tls = FALSE,
                        !.torn = FALSE, !.offers = {}]

Gone == [state |-> "gone", offered |-> {}, count |-> NoCount, writable |-> FALSE]

\* The addresses in order until one takes the connection, then the greeting:
\* an OK goes on, BYE and PREAUTH do not.
Reached(state) == [cl EXCEPT !.state = state]

\* An implicit target has its TLS before the greeting, a STARTTLS target is
\* still plain after it.
Connect ==
  /\ cl.state = "gone" /\ Idle
  /\ \E tls \in BOOLEAN, offers \in SUBSET Ways :
       /\ cl' = Reached(IF tls THEN "secured" ELSE "plain")
       /\ srv' = [srv EXCEPT !.tls = tls, !.offers = offers]
  /\ UNCHANGED <<out, wire, cur, turn>>
  /\ Past

\* STARTTLS where it is offered; refused or absent, the connection goes.
\* What the server offers may be another set behind TLS.
Starttls ==
  /\ cl.state = "plain"
  /\ \/ /\ cl' = [cl EXCEPT !.state = "secured"]
        /\ \E offers \in SUBSET Ways : srv' = [srv EXCEPT !.tls = TRUE, !.offers = offers]
        /\ UNCHANGED <<out, wire>>
     \/ /\ cl' = Gone /\ Cut
  /\ UNCHANGED <<cur, turn>>
  /\ Past

\* The answer to CAPABILITY: the names it lists.
CapabilitiesOf == srv.offers

\* CAPABILITY behind TLS: the names the sign-in goes by.  An answer without
\* data, past its limits or none in time ends the connect.
Offers ==
  /\ cl.state = "secured"
  /\ \/ /\ cl' = [cl EXCEPT !.state = "fresh", !.offered = CapabilitiesOf]
        /\ UNCHANGED <<out, wire, srv>>
     \/ /\ cl' = Gone /\ Cut
  /\ UNCHANGED <<cur, turn>>
  /\ Past

\* A tag no command on its way carries: the library counts, which is fresh.
NextTag ==
  LET used == {srv.busy.tag, srv.held.tag} \cup {out[i].tag : i \in DOMAIN out}
                \cup {wire[i].tag : i \in {i \in DOMAIN wire : wire[i].k = "done"}}
  IN CHOOSE n \in 1..TAGS : n \notin used /\ \A m \in 1..n - 1 : m \in used

\* The client is taken out for the sign-in: until the answer the session is
\* gone, so a sign-in that never ends leaves it so.
TakeFresh ==
  /\ cl.state = "fresh"
  /\ cl' = [cl EXCEPT !.state = "gone"]

\* LOGIN goes only where LOGINDISABLED is not advertised, XOAUTH2 only where
\* it is.
SignIn ==
  /\ TakeFresh /\ Idle
  /\ \E way \in Ways \cap cl.offered :
       out' = Append(out, [NoCmd EXCEPT !.op = way, !.tag = NextTag])
  /\ cur' = [NoCur EXCEPT !.cmd = [NoCmd EXCEPT !.op = "sign_in", !.tag = NextTag],
                          !.max = SPARE_LINES]
  /\ UNCHANGED <<srv, wire, turn>>
  /\ Past

\* No way to sign in, or the caller is done with a session: it goes.
LogOut ==
  /\ cl.state \in {"fresh", "signed"} /\ Idle /\ ~turn.on
  /\ cl' = Gone /\ Cut
  /\ UNCHANGED <<cur, turn>>
  /\ Past

(***************************************************************************)
(* The count of the selected mailbox and the windows of a walk.            *)
(***************************************************************************)

\* Mutant: a count that follows EXISTS alone.
NotedExists(count, l) == IF l.k = "exists" /\ count # NoCount THEN l.n ELSE count

\* Count::note: EXISTS sets the count, an EXPUNGE takes one off.
Noted(count, l) ==
  IF count = NoCount THEN NoCount
  ELSE CASE l.k = "exists" -> l.n
         [] l.k = "expunge" -> IF count > 0 THEN count - 1 ELSE 0
         [] OTHER -> count

Low(n, m) == IF n < m THEN n ELSE m
High(n, m) == IF n > m THEN n ELSE m

\* A walk starts at the count, which may not pass the UID limit.
Starts(count) == count <= MAX_FOLDER_UIDS

\* The window below `top`, never above the count; low 0 once none is left.
Window(top, count) ==
  LET high == Low(top, count)
  IN IF high > 0 THEN [low |-> High(high - SEARCH_WINDOW + 1, 1), high |-> high]
                 ELSE [low |-> 0, high |-> 0]

(***************************************************************************)
(* What goes out.                                                          *)
(***************************************************************************)

\* Only a signed-in session runs the commands.
Selection == cl.state = "signed"

\* Whether a literal goes without the server's continuation request.
Unsynchronized(literals, size) ==
  \/ literals = "plus"
  \/ literals = "minus" /\ size = "small"

\* How the command carries its string: as no literal, one that waits or one
\* that goes along.
LiteralOf(op, size) ==
  IF op \notin Appends \cup {"uid_search"} THEN "none"
  ELSE IF Unsynchronized(srv.literals, size) THEN "plus" ELSE "sync"

\* The lines of its own an answer may carry.
OwnLines(op) ==
  CASE op \in Opens -> 2
    [] op \in Walks \cup {"uid_part"} -> 1
    [] op \in Fetches -> MAX_FETCHED
    [] op \in {"uid_store", "uid_expunge", "status"} -> 1
    [] op \in Transfers -> 2
    [] op \in Appends -> 3
    [] op = "list" -> MAX_MAILBOXES
    [] OTHER -> 0

\* The room a session grants its volunteered lines.
Room(session) == IF session.count = NoCount THEN SPARE_LINES ELSE SELECTED_SPARE_LINES

Bounds(op, session) == OwnLines(op) + Room(session)

\* Every line before the tagged one takes room.
Counted(lines, l) == lines + 1

\* Whether the op may go out at all: the reads need a selected mailbox, the
\* writes one a SELECT opened without [READ-ONLY].
MayGo(op) ==
  /\ op \in Walks \cup Fetches \cup {"uid_part"} => cl.count # NoCount
  /\ op \in Writes => cl.writable /\ cl.count # NoCount

\* What the properties measure an answer against: the messages the session
\* had read of and the flags they had when the command went out.
Snapped == [stood |-> {srv.view[i] : i \in {i \in DOMAIN srv.view : i <= cl.count}},
            ver |-> srv.ver]

\* Whether the literal is a write of its own.
Apart(cmd) == cmd.lit = "sync" \/ (cmd.lit = "plus" /\ cmd.op \in Appends)

\* One command under a fresh tag.  A literal that goes along with its command
\* is one write of a search; an append writes it behind the opening.
Send(cmd, session) ==
  /\ out' = Append(out, cmd)
  /\ cl' = session
  /\ cur' = [cmd |-> cmd,
             wait |-> IF Apart(cmd) THEN 1 ELSE 0,
             lines |-> 0, max |-> Bounds(cmd.op, session), got |-> {}, snap |-> Snapped]

\* `open` forgets the mailbox before it asks for another: the room grows and
\* no write goes until a SELECT succeeds.
Forgetting(op) ==
  IF op \in Opens THEN [cl EXCEPT !.count = 0, !.writable = FALSE] ELSE cl

\* Bounds: the message a write or a part names is the mailbox's first, and an
\* append goes to the first mailbox.
Named == IF srv.view = <<>> THEN {} ELSE {Head(srv.view)}

\* A turn's next command.  The caller names a mailbox to open, one of its
\* messages, and for an append the mailbox and the size; it reads and writes
\* messages only in a mailbox its own turn opened.
Begin(op) ==
  /\ Selection /\ Idle /\ turn.on /\ MayGo(op)
  /\ op \notin Opens \cup {"append", "list", "status"} => turn.box # None
  /\ \E box \in CASE op \in Opens \cup {"status"} -> Boxes [] op = "append" -> {1} [] OTHER -> {turn.box},
        uid \in IF op \in Writes \cup {"uid_part"} THEN Named ELSE {0},
        size \in IF op \in Appends /\ srv.literals = "minus" THEN {"small", "big"}
                                                         ELSE {"small"},
        at \in IF op = "uid_part" THEN {0, 1} ELSE {0} :
       /\ op \in Writes \cup Appends => srv.changes < MaxChanges
       /\ op = "uid_store" => srv.ver[uid] < MaxVer
       /\ LET w == IF op \in Walks THEN Window(cl.count, cl.count)
                                   ELSE [low |-> at, high |-> 0]
              cmd == [op |-> op, tag |-> NextTag, box |-> box, uid |-> uid,
                      low |-> w.low, high |-> w.high, lit |-> LiteralOf(op, size),
                      size |-> size]
          IN IF op \in Walks /\ (~Starts(cl.count) \/ w.high = 0)
               THEN /\ last' = [cmd |-> cmd, got |-> {}, snap |-> Snapped,
                                how |-> IF w.high = 0 THEN "ok" ELSE "protocol"]
                    /\ IF w.high = 0 THEN UNCHANGED <<cl, turn, srv, out, wire>>
                       ELSE cl' = Gone /\ Cut /\ turn' = [on |-> FALSE, box |-> None]
                    /\ UNCHANGED cur
               ELSE /\ Send(cmd, Forgetting(op))
                    /\ last' = NoLast
                    /\ turn' = IF op \in Opens THEN [turn EXCEPT !.box = None]
                                               ELSE turn
                    /\ UNCHANGED <<srv, wire>>

\* A kept session answers NOOP before a turn uses it.
UseKept ==
  /\ Selection /\ Idle /\ ~turn.on
  /\ Send([NoCmd EXCEPT !.op = "check", !.tag = NextTag], cl)
  /\ UNCHANGED <<srv, wire, turn>>
  /\ Past

\* The literal of an append goes behind its opening where the server reads it
\* so, else when the continuation request is in (Continue).
WriteLiteral ==
  /\ cur.wait = 1 /\ cur.cmd.lit = "plus"
  /\ out' = Append(out, [NoCmd EXCEPT !.op = "literal", !.tag = cur.cmd.tag])
  /\ cur' = [cur EXCEPT !.wait = 0]
  /\ UNCHANGED <<srv, wire, cl, turn>>
  /\ Past

(***************************************************************************)
(* What comes back.                                                        *)
(***************************************************************************)

\* The UIDs of a SEARCH line, under the window that found them.
HoldFound(got, l) == got \cup {<<u, cur.cmd.low>> : u \in l.found}

\* A FETCH line without the items asked for is another client's flag change.
Whole(l) == l.full

FirstWhole(got, l) ==
  IF Whole(l) /\ \A p \in got : p[1] # l.uid THEN got \cup {<<l.uid, l.ver>>} ELSE got

\* The last line about a message counts.
LastFlags(got, l) == {p \in got : p[1] # l.uid} \cup {<<l.uid, l.ver>>}

PartOf(got, l) == IF got = {} /\ l.uid = cur.cmd.uid THEN {<<l.uid, l.at>>} ELSE got

KeepListed(got, l) == got \cup {<<l.box, 0>>}

LastStatus(l) == {<<l.box, 0>>}

\* The UIDs an APPENDUID or a COPYUID pairs.
NotePair(got, l) == got \cup {<<l.uid, l.to>>}

\* What one line adds to the answer, by the command that reads it.
Visit(got, l) ==
  LET op == cur.cmd.op IN
  CASE op \in Walks /\ l.k = "search" -> HoldFound(got, l)
    [] op = "uid_fetch" /\ l.k = "fetch" -> FirstWhole(got, l)
    [] op = "uid_flags" /\ l.k = "fetch" -> LastFlags(got, l)
    [] op = "uid_part" /\ l.k = "part" -> PartOf(got, l)
    [] op = "list" /\ l.k = "list" -> KeepListed(got, l)
    [] op = "status" /\ l.k = "status" -> LastStatus(l)
    [] op \in Appends \cup Transfers /\ l.k = "uids" -> NotePair(got, l)
    [] OTHER -> got

\* Mutant: a line without an origin octet answers any window.
SameWindowAny(l) == l.origin = -1 \/ l.origin = cur.cmd.low

\* A line without an origin octet answers the first window alone.
SameWindow(l) == cur.cmd.low = IF l.origin = -1 THEN 0 ELSE l.origin

\* The answer fails rather than be cut: more than the limit of its kind, or a
\* window of a part that is not the one asked.
Passes(got, l) ==
  LET op == cur.cmd.op
      more == Cardinality(Visit(got, l)) IN
  /\ op \in Walks => more <= MAX_FOLDER_UIDS
  /\ op \in Fetches => more <= MAX_FETCHED
  /\ op = "list" => more <= MAX_MAILBOXES
  /\ (op = "uid_part" /\ l.k = "part" /\ got = {} /\ l.uid = cur.cmd.uid)
       => SameWindow(l)

\* `refusal`: what a tagged answer that ends the command early comes to.
Refusal(status) ==
  CASE status = "no" -> "refused"
    [] status = "badcharset" -> "badcharset"
    [] OTHER -> "protocol"

NoTurn == [on |-> FALSE, box |-> None]

\* Whether the caller keeps the session after an outcome; a kept session that
\* does not answer its NOOP with an OK goes.
Stands(op, how) ==
  \/ how = "ok"
  \/ how \in {"refused", "badcharset"} /\ op # "check"

\* A refused sign-in hands the client back.
FinishSignIn(how, session) ==
  [session EXCEPT !.state = IF how = "ok" THEN "signed" ELSE "fresh",
                  !.offered = IF how = "ok" THEN {} ELSE @]

\* [READ-ONLY] on the tagged OK of an open.
ReadOnly(l) == l.ro

\* After a failed open no mailbox is selected; only a SELECT opens one for
\* writing.
AfterOpen(op, how, session, l) ==
  IF how = "ok" THEN [session EXCEPT !.writable = op = "select" /\ ~ReadOnly(l)]
                ELSE [session EXCEPT !.count = NoCount]

\* The session after the answer.
SessionAfter(cmd, how, session, l) ==
  CASE cmd.op = "sign_in" -> FinishSignIn(how, session)
    [] cmd.op \in Opens -> AfterOpen(cmd.op, how, session, l)
    [] OTHER -> session

\* The turn after it: the mailbox the caller works in, the turn itself once
\* the session is there.
TurnAfter(cmd, how) ==
  CASE cmd.op \in {"sign_in", "check"} -> [turn EXCEPT !.on = how = "ok"]
    [] cmd.op \in Opens /\ how = "ok" ->
         [turn EXCEPT !.box = cmd.box]
    [] OTHER -> turn

Ends(how, session, l) ==
  /\ cur' = NoCur
  /\ last' = [cmd |-> cur.cmd, got |-> IF how = "ok" THEN Visit(cur.got, l) ELSE {},
              how |-> how, snap |-> cur.snap]
  /\ IF Stands(cur.cmd.op, how)
       THEN LET after == SessionAfter(cur.cmd, how, session, l)
            IN /\ cl' = after
               /\ turn' = TurnAfter(cur.cmd, how)
               /\ wire' = Tail(wire)
               /\ UNCHANGED <<srv, out>>
       ELSE cl' = Gone /\ turn' = NoTurn /\ Cut

\* The count follows every line, ahead of the command's own reader.
Followed(l) == [cl EXCEPT !.count = Noted(@, l)]

\* A line on the way to the continuation request: the request itself sends
\* the literal, the command's own tagged answer ends it, the count follows
\* any other.
Continuation(l) ==
  /\ cur.wait = 1 /\ cur.cmd.lit = "sync"
  /\ \/ /\ l.k = "continue"
        /\ out' = Append(out, [NoCmd EXCEPT !.op = "literal", !.tag = cur.cmd.tag])
        /\ cur' = [cur EXCEPT !.wait = 0, !.lines = 0]
        /\ wire' = Tail(wire)
        /\ UNCHANGED <<srv, cl, turn>> /\ Past
     \/ /\ l.k = "done" /\ l.tag = cur.cmd.tag
        /\ Ends(Refusal(l.status), cl, l)
     \/ /\ l.k # "continue" /\ ~(l.k = "done" /\ l.tag = cur.cmd.tag)
        /\ cur.lines < cur.max
        /\ cur' = [cur EXCEPT !.lines = Counted(@, l)]
        /\ cl' = Followed(l)
        /\ wire' = Tail(wire)
        /\ UNCHANGED <<srv, out, turn>> /\ Past
     \/ /\ l.k # "continue" /\ ~(l.k = "done" /\ l.tag = cur.cmd.tag)
        /\ cur.lines = cur.max
        /\ Ends("protocol", cl, l)

\* A STATUS that answered without data.
Lacking == cur.cmd.op = "status" /\ cur.got = {}

\* The next window of a walk: none once the count leaves nothing below.
NextWindow ==
  LET w == Window(cur.cmd.low - 1, cl.count)
  IN IF cur.cmd.op \in Walks /\ w.high > 0
       THEN {[cur.cmd EXCEPT !.low = w.low, !.high = w.high]} ELSE {}

\* An expunge marks the messages \Deleted, then expunges them.
ExpungeNext ==
  IF cur.cmd.op = "uid_expunge" /\ cur.cmd.low = 0 THEN {[cur.cmd EXCEPT !.low = 1]}
                                                   ELSE {}

\* The tagged OK: the next command of the same call, or the end of it.
TaggedOk(l) ==
  IF NextWindow \cup ExpungeNext = {}
    THEN Ends(IF Lacking THEN "protocol" ELSE "ok", cl, l)
    ELSE \E cmd \in NextWindow \cup ExpungeNext :
           /\ out' = Append(out, [cmd EXCEPT !.tag = NextTag])
           /\ cur' = [cur EXCEPT !.cmd = [cmd EXCEPT !.tag = NextTag], !.lines = 0,
                                 !.wait = IF cmd.lit = "sync" THEN 1 ELSE 0]
           /\ wire' = Tail(wire)
           /\ UNCHANGED <<srv, cl, turn>> /\ Past

\* A line of the answer, as `answer` and `Selection::answer` read it: the
\* command's own tagged line ends it, the tagged line of another command is
\* passed over, any other line goes to the count and to the reader of the
\* command; past the room the answer fails.
Answer(l) ==
  LET own == l.k = "done" /\ l.tag = cur.cmd.tag
      noted == Followed(l)
  IN
  /\ cur.wait = 0
  /\ \/ own /\ l.status = "ok" /\ TaggedOk(l)
     \/ own /\ l.status # "ok" /\ Ends(Refusal(l.status), cl, l)
     \/ ~own /\ cur.lines = cur.max /\ Ends("protocol", cl, l)
     \/ /\ ~own /\ cur.lines < cur.max /\ (l.k = "done" \/ Passes(cur.got, l))
        /\ cur' = [cur EXCEPT !.lines = Counted(@, l),
                              !.got = IF l.k = "done" THEN @ ELSE Visit(@, l)]
        /\ cl' = noted
        /\ wire' = Tail(wire)
        /\ UNCHANGED <<srv, out, turn>> /\ Past
     \/ ~own /\ cur.lines < cur.max /\ l.k # "done" /\ ~Passes(cur.got, l)
        /\ Ends("protocol", noted, l)

\* A response that passes a bound of the guard never reaches the parser, and
\* every later read fails the same way.
Guarded(l) == l.k = "oversized"

Read ==
  /\ ~Idle /\ wire # <<>>
  /\ LET l == Head(wire)
     IN \/ Guarded(l) /\ Ends("protocol", cl, l)
        \/ ~Guarded(l) /\ Continuation(l)
        \/ ~Guarded(l) /\ Answer(l)

\* No line within the step: the server is silent, slow or gone.
Timeout ==
  /\ ~Idle /\ wire = <<>>
  /\ cur.wait = 0 \/ cur.cmd.lit = "sync"
  /\ Ends("timeout", cl, [k |-> "none"])

\* The request the turn serves is dropped in the middle of a command.  A
\* search, a sign-in and the NOOP of a kept session hold the session in their
\* own future, which drops it; any other turn leaves it with the rest of the
\* answer unread.
Abandon ==
  /\ cur.cmd.op \in DroppedOps
  /\ cur' = NoCur /\ turn' = NoTurn
  /\ last' = NoLast
  /\ IF cur.cmd.op \in {"uid_search", "sign_in", "check"}
       THEN cl' = Gone /\ Cut
       ELSE /\ srv' = [srv EXCEPT !.torn = @ \/ cur.wait = 1]
            /\ UNCHANGED <<cl, out, wire>>

EndTurn ==
  /\ Idle /\ turn.on
  /\ turn' = NoTurn
  /\ UNCHANGED <<srv, out, wire, cl, cur>>
  /\ Past

(***************************************************************************)
(* The server and the other clients (external).                            *)
(***************************************************************************)

Done(cmd, status, ro) == [k |-> "done", tag |-> cmd.tag, status |-> status, ro |-> ro]
Exists(n) == [k |-> "exists", n |-> n]
Expunged == [k |-> "expunge"]

\* The messages of the selected mailbox that stand and that the session knows
\* of, and those it was not told of yet, in their order.
Shown == SeqSet(srv.view) \cap Standing(srv.sel)
Untold == InOrder(Standing(srv.sel) \ SeqSet(srv.view))

Fresh == srv.fresh + 1

\* One command done: the mailboxes, the session's view and the lines.
Effect(cmd, s, lines) ==
  /\ srv' = [s EXCEPT !.busy = cmd, !.mode = "idle", !.held = NoCmd,
                      !.changes = IF s.mail = srv.mail /\ s.ver = srv.ver THEN @ ELSE @ + 1]
  /\ wire' = wire \o lines

Search(cmd) ==
  {srv.view[i] : i \in {i \in cmd.low..cmd.high : i \in DOMAIN srv.view}} \cap
    {u \in Standing(srv.sel) : cmd.op = "uid_search" => u % 2 = 1}

Perform(cmd) ==
  LET there == srv.sel # None /\ cmd.uid \in Shown
      gone == [srv EXCEPT !.mail[srv.sel] = Without(@, cmd.uid),
                          !.view = Without(@, cmd.uid)]
      taken(box) == [srv EXCEPT !.mail[box] = Append(@, Fresh), !.fresh = Fresh,
                                !.home[Fresh] = box]
      pair == [k |-> "uids", uid |-> cmd.uid, to |-> Fresh]
      told == srv.view \o Untold
  IN
  CASE cmd.op \in Opens ->
         \E rw \in IF cmd.op = "examine" THEN {FALSE} ELSE {TRUE, cmd.box = 1} :
           Effect(cmd, [srv EXCEPT !.sel = cmd.box, !.rw = rw, !.owed = {},
                                   !.view = srv.mail[cmd.box]],
                  <<Exists(Len(srv.mail[cmd.box]))>>)
    [] cmd.op \in Walks -> Effect(cmd, srv, <<[k |-> "search", found |-> Search(cmd)]>>)
    [] cmd.op \in Fetches ->
         Effect(cmd, srv, [i \in 1..Cardinality(Shown) |->
                  [k |-> "fetch", uid |-> InOrder(Shown)[i], ver |-> srv.ver[InOrder(Shown)[i]],
                   full |-> TRUE]])
    [] cmd.op = "uid_part" ->
         \E origin \in {cmd.low, -1} :
           Effect(cmd, srv,
             IF there THEN <<[k |-> "part", uid |-> cmd.uid, origin |-> origin,
                              at |-> IF origin = -1 THEN 0 ELSE cmd.low]>> ELSE <<>>)
    [] cmd.op = "uid_store" /\ there ->
         Effect(cmd, [srv EXCEPT !.ver[cmd.uid] = @ + 1], <<>>)
    [] cmd.op = "uid_expunge" /\ cmd.low = 1 /\ there -> Effect(cmd, gone, <<Expunged>>)
    [] cmd.op = "uid_move" /\ there ->
         LET to == 3 - srv.sel IN
         Effect(cmd, [gone EXCEPT !.mail[to] = Append(@, Fresh), !.fresh = Fresh,
                                  !.home[Fresh] = to], <<pair, Expunged>>)
    [] cmd.op = "uid_copy" /\ there -> Effect(cmd, taken(3 - srv.sel), <<pair>>)
    [] cmd.op = "append" -> Effect(cmd, taken(cmd.box), <<pair>>)
    [] cmd.op = "replace" /\ there ->
         Effect(cmd, [gone EXCEPT !.mail[srv.sel] = Append(@, Fresh),
                                  !.fresh = Fresh, !.home[Fresh] = srv.sel,
                                  !.view = Append(Without(told, cmd.uid), Fresh)],
                <<pair, Exists(Len(told) + 1), Expunged>>)
    [] cmd.op = "list" ->
         Effect(cmd, srv, [b \in 1..2 |-> [k |-> "list", box |-> b]])
    [] cmd.op = "status" ->
         \E lines \in {<<>>, <<[k |-> "status", box |-> cmd.box]>>} : Effect(cmd, srv, lines)
    [] OTHER -> Effect(cmd, srv, <<>>)

\* A tagged NO; a refused open leaves no mailbox selected.
Refuse(cmd) ==
  /\ \E status \in IF cmd.op = "uid_search" THEN {"no", "badcharset"} ELSE {"no"} :
       wire' = Append(wire, Done(cmd, status, FALSE))
  /\ srv' = IF cmd.op \in Opens
              THEN [srv EXCEPT !.sel = None, !.rw = FALSE, !.view = <<>>, !.owed = {},
                               !.mode = "idle", !.held = NoCmd]
              ELSE [srv EXCEPT !.mode = "idle", !.held = NoCmd]

\* The server reads what the bridge wrote: the literal it waits for, bytes
\* that fill a literal nobody finishes, or a command, which it performs,
\* refuses or asks the literal of.
Serve ==
  /\ out # <<>> /\ srv.busy = NoCmd
  /\ LET m == Head(out) IN
     \/ /\ m.op = "literal" /\ srv.mode = "literal"
        /\ Perform(srv.held) \/ Refuse(srv.held)
     \/ /\ (m.op = "literal") # (srv.mode = "literal")
        /\ UNCHANGED <<srv, wire>>
     \/ /\ srv.mode = "idle" /\ m.op \in Ways
        /\ \E status \in {"ok", "no"} : wire' = Append(wire, Done(m, status, FALSE))
        /\ srv' = [srv EXCEPT !.offers = IF wire'[Len(wire')].status = "ok" THEN {} ELSE @]
     \/ /\ srv.mode = "idle" /\ m.lit = "sync"
        /\ \/ /\ wire' = Append(wire, [k |-> "continue"])
              /\ srv' = [srv EXCEPT !.mode = "literal", !.held = m]
           \/ Refuse(m)
     \/ /\ srv.mode = "idle" /\ m.lit = "plus" /\ m.op \in Appends
        /\ srv' = [srv EXCEPT !.mode = "literal", !.held = m]
        /\ UNCHANGED wire
     \/ /\ srv.mode = "idle" /\ m.op \notin Ways \cup {"literal"}
        /\ ~Apart(m)
        /\ Perform(m) \/ Refuse(m)
  /\ out' = Tail(out)
  /\ UNCHANGED <<cl, cur, turn>>
  /\ Past

\* The tagged OK of the command performed.
Complete ==
  /\ srv.busy # NoCmd
  /\ wire' = Append(wire, Done(srv.busy, "ok", ~srv.rw))
  /\ srv' = [srv EXCEPT !.busy = NoCmd]
  /\ UNCHANGED <<out, cl, cur, turn>>
  /\ Past

\* Lines nobody asked for: new mail and flag changes at any time, an EXPUNGE
\* only while a command is in progress, an alert, a response past a bound.
Tell ==
  /\ srv.sel # None /\ Len(wire) < MaxWire
  /\ LET left == {u \in SeqSet(srv.view) : u \notin Standing(srv.sel)}
     IN \/ /\ Untold # <<>>
           /\ srv' = [srv EXCEPT !.view = @ \o Untold]
           /\ wire' = Append(wire, Exists(Len(srv.view) + Len(Untold)))
        \/ \E u \in left :
             /\ srv.busy # NoCmd
             /\ srv' = [srv EXCEPT !.view = Without(@, u)]
             /\ wire' = Append(wire, Expunged)
        \/ \E u \in srv.owed \cap Shown :
             /\ srv' = [srv EXCEPT !.owed = @ \ {u}]
             /\ wire' = Append(wire, [k |-> "fetch", uid |-> u, ver |-> srv.ver[u],
                                      full |-> FALSE])
  /\ UNCHANGED <<out, cl, cur, turn>>
  /\ Past

Chatter ==
  /\ cur.cmd.op \in ChattyOps /\ Len(wire) < MaxWire
  /\ \E k \in {"alert", "oversized"} : wire' = Append(wire, [k |-> k])
  /\ UNCHANGED <<srv, out, cl, cur, turn>>
  /\ Past

\* Other clients: in the selected mailbox mail arrives, leaves, changes flags.
Others ==
  /\ srv.sel # None /\ srv.changes < MaxChanges
  /\ \/ srv' = [srv EXCEPT !.mail[srv.sel] = Append(@, Fresh), !.fresh = Fresh,
                           !.home[Fresh] = srv.sel, !.changes = @ + 1]
     \/ \E u \in Standing(srv.sel) :
          srv' = [srv EXCEPT !.mail[srv.sel] = Without(@, u), !.changes = @ + 1]
     \/ \E u \in Standing(srv.sel) :
          /\ srv.ver[u] < MaxVer
          /\ srv' = [srv EXCEPT !.ver[u] = @ + 1, !.changes = @ + 1, !.owed = @ \cup {u}]
  /\ UNCHANGED <<out, wire, cl, cur, turn>>
  /\ Past

(***************************************************************************)
(* The specification.                                                      *)
(***************************************************************************)

Init ==
  /\ \E literals \in Servers :
       srv = [mail |-> <<<<1, 2>>, <<3>>>>, home |-> [u \in 1..MaxUid |->
                CASE u \in 1..2 -> 1 [] u = 3 -> 2 [] OTHER -> None],
              fresh |-> 3, ver |-> [u \in 1..MaxUid |-> 0], sel |-> None, rw |-> FALSE,
              view |-> <<>>, mode |-> "idle", held |-> NoCmd, busy |-> NoCmd,
              owed |-> {}, torn |-> FALSE, tls |-> FALSE, offers |-> {},
              literals |-> literals, changes |-> 0]
  /\ out = <<>> /\ wire = <<>>
  /\ cl = [state |-> "gone", offered |-> {}, count |-> NoCount, writable |-> FALSE]
  /\ cur = NoCur /\ turn = NoTurn
  /\ last = NoLast

Next ==
  \/ Connect \/ Starttls \/ Offers \/ SignIn \/ LogOut
  \/ UseKept \/ (\E op \in Ops : Begin(op)) \/ WriteLiteral
  \/ Read \/ Timeout \/ Abandon \/ EndTurn
  \/ Serve \/ Complete \/ Tell \/ Chatter \/ Others

Spec == Init /\ [][Next]_vars

(***************************************************************************)
(* Properties.                                                             *)
(***************************************************************************)

TypeOK ==
  /\ cl.state \in {"gone", "plain", "secured", "fresh", "signed"}
  /\ cl.offered \subseteq Ways /\ cl.count \in {NoCount} \cup 0..MaxUid
  /\ cl.writable \in BOOLEAN
  /\ cur.lines \in 0..cur.max /\ cur.wait \in 0..1
  /\ turn.box \in {None} \cup Boxes /\ turn.on \in BOOLEAN
  /\ SeqSet(srv.view) \subseteq 1..srv.fresh

\* Credentials go over TLS alone and only in a way the server offers there
\* (imap.rs, login and authenticate_xoauth2 after connect).
SignsInSafely ==
  \A i \in DOMAIN out : out[i].op \in Ways => srv.tls /\ out[i].op \in srv.offers

\* The bytes of a literal reach a server that reads a literal, and no command
\* reaches one, but for the message whose request was dropped half written.
LiteralsLand ==
  \A i \in DOMAIN out :
    IF out[i].op = "literal"
      THEN \/ i = 1 /\ srv.mode = "literal"
           \/ i > 1 /\ out[i - 1].lit = "plus" /\ out[i - 1].tag = out[i].tag
                    /\ Unsynchronized(srv.literals, out[i - 1].size)
           \/ srv.torn
      ELSE i = 1 /\ srv.mode = "literal" => srv.torn

\* No SEARCH names a sequence number above what the server counts, which would
\* earn a BAD; the count the session keeps is the server's once the unread
\* lines are noted.
CountHolds ==
  \A i \in DOMAIN out :
    out[i].op \in Walks =>
      out[i].low >= 1 /\ out[i].high <= Len(srv.view) /\ out[i].low <= out[i].high

\* A write reaches the mailbox its turn opened, open for writing.
WritesLand ==
  \A i \in DOMAIN out :
    out[i].op \in Writes => srv.sel = out[i].box /\ srv.rw

\* Everything the session writes fits where the server stands when it reads it
\* (session/imap.rs, read/search.rs, append.rs, write.rs).
SendsFit == SignsInSafely /\ LiteralsLand /\ CountHolds /\ WritesLand

FirstOf(got) == {p[1] : p \in got}
Ours(got, box) == \A u \in FirstOf(got) : srv.home[u] = box

\* An answer taken for done is whole and is the answer to that command: a UID
\* list and a search hold every message that stood throughout, however the
\* sequence numbers moved, a fetch answers each of them with flags no older
\* than the ask, a listing names every mailbox, a part is the window asked, a
\* write is done (read.rs, `answer`; read/search.rs, `walk`).
AnswersFit ==
  last.how = "ok" =>
    LET op == last.cmd.op
        box == last.cmd.box
        got == last.got
        snap == last.snap
        stayed == snap.stood \cap SeqSet(srv.mail[box])
    IN
    /\ op = "uid_list" => stayed \subseteq FirstOf(got) /\ Ours(got, box)
    /\ op = "uid_search" =>
         {u \in stayed : u % 2 = 1} \subseteq FirstOf(got) /\ Ours(got, box)
    /\ op \in Fetches =>
         /\ stayed \subseteq FirstOf(got) /\ Ours(got, box)
         /\ \A p \in got : p[2] >= snap.ver[p[1]]
    /\ op = "uid_part" => got \subseteq {<<last.cmd.uid, last.cmd.low>>}
    /\ op = "list" => FirstOf(got) = Boxes
    /\ op = "status" => FirstOf(got) = {box}
    /\ op = "uid_store" /\ last.cmd.uid \in stayed =>
         srv.ver[last.cmd.uid] > snap.ver[last.cmd.uid]
    /\ op \in {"uid_expunge", "uid_move"} => last.cmd.uid \notin Standing(box)
    /\ op \in Appends => \A p \in got : srv.home[p[2]] = box
    /\ op \in Transfers => \A p \in got : srv.home[p[2]] = 3 - box

=============================================================================
