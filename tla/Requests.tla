------------------------------ MODULE Requests ------------------------------
(***************************************************************************)
(* One JMAP Request object run against an account of the bridge, and the   *)
(* sends of EmailSubmission/set.  A request runs its calls in order, in at *)
(* most MAX_PASSES passes; between two passes it brings what the calls     *)
(* left: the writes that stand in a row from the first call with a need,   *)
(* the bodies, the searches.  A submission is sent by a task of its own,   *)
(* one send of the account at a time, which goes on when its request is    *)
(* dropped.                                                                *)
(*                                                                         *)
(* A call is its kind:                                                     *)
(*   changes   answers from the rows alone, which are refreshed first      *)
(*   fetch     an Email/get that wants bodies                              *)
(*   followed  the same, its ids a reference into the answer before it     *)
(*   query     an Email/query the server is searched for                   *)
(*   set       an Email/set or Mailbox/set                                 *)
(*   after     the same, with a reference into the answer before it        *)
(*   submit    an EmailSubmission/set of one create, pair one of two       *)
(* What a write does to the rows is the module EmailSet; here it is that   *)
(* it was done.  How bodies and previews are fetched is the module         *)
(* BodyFill, whose steps are steps of the request.                         *)
(***************************************************************************)
EXTENDS BodyFill

CONSTANTS
  MAX_PASSES,
  RECENT_SUBMISSIONS,
  Alone,                  \* longest list of calls of a request on its own
  MaxFaults,              \* bounds of the model: what goes wrong in a request
  MaxFillFaults           \* and in one that fetches several messages

ASSUME RequestsAssumption ==
  /\ MAX_PASSES \in Nat \ {0} /\ RECENT_SUBMISSIONS \in Nat \ {0}
  /\ Alone \in Nat /\ MaxFaults \in Nat /\ MaxFillFaults \in Nat

VARIABLES
  calls,      \* the method calls of each request
  asks,       \* the emails each of them names
  req,        \* where each request stands
  resp,       \* its responses so far
  needs,      \* the calls that left a need on the last pass
  brought,    \* what was brought for each call
  task,       \* the sending task of each request
  turn,       \* Sends.one: whose task sends
  record,     \* Submissions: the recent ones, oldest first
  sends,      \* Kept.counter, which the state is made of
  done,       \* history: the writes each request did, with how often
  out,        \* external: what the submission server took
  unheard,    \* history: what it took although its answer was lost
  filed,      \* the messages whose Sent copy landed
  left        \* the messages whose email left after its send

passes  == <<calls, asks, req, resp, needs, brought>>
sending == <<task, turn, record, sends>>
history == <<done, out, unheard, filed, left>>
vars == <<passes, sending, history, fills, faults>>

Kinds  == {"changes", "fetch", "followed", "query", "set", "after", "submit", "pair"}
Writes == {"set", "after", "submit", "pair"}
Bodied == {"fetch", "followed"}
Submits == {"submit", "pair"}
Refers == {"followed", "after"}

Indices(r) == 1..Len(calls[r])
Kind(r, i) == calls[r][i]
Creates(r, i) == IF Kind(r, i) = "pair" THEN {1, 2} ELSE {1}

NoAnswer == [st |-> "none", saw |-> {}, found |-> {}]
NoGift   == [what |-> "none", saw |-> {}, ids |-> {}]
NoTask   == [pc |-> "idle", call |-> 0, create |-> 0, got |-> <<>>, wentOut |-> FALSE]

Steps  ==
  {"start", "pass", "bring", "send", "previews", "bodies", "fill", "search", "done", "failed"}
States == {"none", "ok", "unavailable", "error"}
Gifts  == {"none", "rows", "bodies", "written", "hits", "nohits", "submitted"}
Sent   == {"created", "refused", "unavailable", "serverFail"}
Places ==
  {"idle", "turn", "row", "fetch", "connect", "mail", "data", "record", "file", "leave", "ended"}

Messages == {<<r, i, c>> : r \in Owners, i \in 1..(Alone + 1), c \in {1, 2}}

TypeOK ==
  /\ \A r \in Owners :
       /\ \A i \in Indices(r) : Kind(r, i) \in Kinds
       /\ req[r] \in [pc: Steps, pass: 1..MAX_PASSES, row: 0..(Alone + 2),
                      first: 0..(Alone + 1), gone: BOOLEAN]
       /\ DOMAIN resp[r] = Indices(r) /\ DOMAIN brought[r] = Indices(r)
       /\ \A i \in Indices(r) :
            /\ resp[r][i] \in [st: States, saw: SUBSET Indices(r), found: SUBSET Indices(r)]
            /\ brought[r][i] \in [what: Gifts, saw: SUBSET Indices(r), ids: SUBSET DOMAIN mail]
       /\ needs[r] \subseteq Indices(r)
       /\ task[r].pc \in Places /\ task[r].call \in 0..Len(calls[r])
       /\ task[r].create \in 0..3 /\ task[r].wentOut \in BOOLEAN
       /\ \A c \in DOMAIN task[r].got : task[r].got[c] \in Sent
       /\ done[r] \in [Indices(r) -> Nat]
  /\ turn \in {None} \cup Owners
  /\ sends \in Nat /\ faults \in Nat /\ FillTypeOK
  /\ \A m \in Range(record) : m \in Messages
  /\ Len(record) <= RECENT_SUBMISSIONS
  /\ out \subseteq Messages /\ unheard \subseteq Messages /\ filed \subseteq Messages
  /\ left \subseteq Messages

(***************************************************************************)
(* One pass over the calls.                                                *)
(***************************************************************************)
DoneBy(r) == {i \in Indices(r) : done[r][i] > 0}

\* A reference finds the answer of the call before it in what this pass
\* answered so far.
Resolves(r, i, before) == Kind(r, i) \in Refers => before.st = "ok"

\* The rows a call reads by name: one without its body fails the call.
Named(r, i) == Range(asks[r][i]) \cap rowed

\* What a call answers with what was brought for it: a write what its
\* outcome said then, every other call what the rows hold now.
StateOf(r, i) ==
  LET had == brought[r][i].what IN
  CASE Kind(r, i) = "changes"     -> "ok"
    [] Kind(r, i) \in Bodied   ->
         IF Named(r, i) \subseteq brought[r][i].ids THEN "ok" ELSE "unavailable"
    [] Kind(r, i) = "query"    -> IF had = "hits" THEN "ok" ELSE "unavailable"
    [] Kind(r, i) \in Submits  -> IF had = "submitted" THEN "ok" ELSE "unavailable"
    [] OTHER                   -> IF had = "written" THEN "ok" ELSE "unavailable"

\* ifInState, which the second request names: judged until its outcome is
\* at hand, since the state moves with the sends of the call.
NamesState(r, i) == r = 2 /\ Kind(r, i) \in Submits
InState(r, i) == NamesState(r, i) /\ brought[r][i].what = "none" => sends = 0

\* An answer, with the writes of its request the rows it was read from had
\* and, for a query, those the server had when its search ran: the hits may
\* be of a round before the one that did the rest.
AnswerOf(r, i, before) ==
  LET found == IF Kind(r, i) = "query" THEN brought[r][i].saw ELSE {} IN
  IF Resolves(r, i, before) /\ InState(r, i)
  THEN [st |-> StateOf(r, i), found |-> found,
        saw |-> IF Kind(r, i) \in Writes THEN brought[r][i].saw ELSE DoneBy(r)]
  ELSE [st |-> "error", found |-> found, saw |-> DoneBy(r)]

\* The responses of the pass: those before the first call to run again
\* stand.
Answers(r) ==
  LET answer[i \in 0..Len(calls[r])] ==
        IF i = 0 THEN NoAnswer
        ELSE IF i < req[r].first THEN resp[r][i] ELSE AnswerOf(r, i, answer[i - 1])
  IN  [i \in Indices(r) |-> answer[i]]

\* A call something was brought for asks no more.
Asks(r, i, answers) == answers[i].st = "unavailable" /\ brought[r][i].what = "none"

Left(r, answers) == {i \in Indices(r) : i >= req[r].first /\ Asks(r, i, answers)}

\* A request that does not read or passes a limit is refused; a /changes
\* call has the account refreshed first, where the session's failure leaves
\* the cache to answer as it stands and the store's ends the request.
Begin(r) ==
  /\ req[r].pc = "start" /\ ~req[r].gone
  /\ \/ req' = [req EXCEPT ![r].pc = "pass"] /\ NoFault
     \/ req' = [req EXCEPT ![r].pc = "failed"] /\ Fault
  /\ UNCHANGED <<calls, asks, resp, needs, brought, sending, history, fills>>

Pass(r) ==
  LET answers == Answers(r)
      open == Left(r, answers)
      more == open # {} /\ req[r].pass < MAX_PASSES
  IN  /\ req[r].pc = "pass" /\ ~req[r].gone
      /\ resp' = [resp EXCEPT ![r] = answers]
      /\ needs' = [needs EXCEPT ![r] = IF more THEN open ELSE {}]
      /\ req' = [req EXCEPT ![r].pc = IF more THEN "bring" ELSE "done",
                            ![r].row = IF more THEN Min(open) ELSE 0,
                            ![r].first = IF more THEN Min(open) ELSE 0]
      /\ UNCHANGED <<calls, asks, brought, sending, faults, history, fills>>

(***************************************************************************)
(* What is brought between two passes.                                     *)
(***************************************************************************)
\* Mutant: what a write brought is not kept for the next pass.
GiftLost(r, i, what) == UNCHANGED brought

\* The outcome of a write, with what had been done when it was brought.
Gift(r, i, what) ==
  brought' = [brought EXCEPT ![r][i] = [what |-> what, saw |-> DoneBy(r), ids |-> {}]]

\* The writes in a row from the first call with a need, one after another.
InRow(r) ==
  IF req[r].row \in needs[r] /\ Kind(r, req[r].row) \in Writes THEN req[r].row ELSE 0

AfterRow(r) == [req EXCEPT ![r].row = InRow(r) + 1]

\* write::apply and folders::apply: done, not done for want of a session, or
\* a failure of the store that ends the request.
BringWrite(r) ==
  LET i == InRow(r) IN
  /\ req[r].pc = "bring" /\ ~req[r].gone
  /\ i # 0 /\ Kind(r, i) \notin Submits
  /\ \/ /\ done' = [done EXCEPT ![r][i] = @ + 1]
        /\ Gift(r, i, "written")
        /\ needs' = [needs EXCEPT ![r] = @ \ {i}]
        /\ req' = AfterRow(r)
        /\ NoFault
     \/ /\ Fault
        /\ Gift(r, i, "rows")
        /\ needs' = [needs EXCEPT ![r] = @ \ {i}]
        /\ req' = AfterRow(r)
        /\ UNCHANGED done
     \/ /\ Fault
        /\ req' = [req EXCEPT ![r].pc = "failed"]
        /\ UNCHANGED <<done, brought, needs>>
  /\ UNCHANGED <<calls, asks, resp, sending, out, unheard, filed, left, fills>>

\* A submission goes to a task of its own, which the request awaits.
BringSubmit(r) ==
  LET i == InRow(r) IN
  /\ req[r].pc = "bring" /\ ~req[r].gone
  /\ i # 0 /\ Kind(r, i) \in Submits
  /\ req' = [req EXCEPT ![r].pc = "send"]
  /\ task' = [task EXCEPT ![r] = [pc |-> "turn", call |-> i, create |-> 1,
                                  got |-> <<>>, wentOut |-> FALSE]]
  /\ UNCHANGED <<calls, asks, resp, needs, brought, turn, record, sends, faults, history, fills>>

\* Writes behind another call wait for the pass after; bodies come next.
EndRow(r) ==
  /\ req[r].pc = "bring" /\ ~req[r].gone /\ InRow(r) = 0
  /\ needs' = [needs EXCEPT ![r] = {i \in @ : Kind(r, i) \notin Writes}]
  /\ req' = [req EXCEPT ![r].pc = "previews"]
  /\ UNCHANGED <<calls, asks, resp, brought, sending, history, fills, faults>>

Bodies(r) == {i \in needs[r] : Kind(r, i) \in Bodied}
Plans(r)  == {i \in needs[r] : Kind(r, i) = "query"}

\* The emails the calls of the round name, in their order.
Jobs(r) ==
  FoldLeft(LAMBDA jobs, i :
             IF i \in Bodies(r)
             THEN jobs \o [k \in DOMAIN asks[r][i] |-> Job(i, asks[r][i][k])] ELSE jobs,
           <<>>, [i \in Indices(r) |-> i])

\* Each once, and a batch at most.
Lacking(r) ==
  FoldLeft(LAMBDA jobs, j :
             IF /\ kept[j.id] = "none" /\ Len(jobs) < PREVIEW_BATCH
                /\ \A k \in Range(jobs) : k.id # j.id
             THEN Append(jobs, j) ELSE jobs,
           <<>>, Jobs(r))

FillFor(r, stage, jobs) ==
  /\ Put(r, [NoFill EXCEPT !.at = "locate", !.stage = stage, !.jobs = jobs])
  /\ UNCHANGED <<server, rows, kept, windows, crossed, faults>>

\* previews::fill where a row lacks one, then bodies::fill where a call of
\* the round asks for bodies.
BringPreviews(r) ==
  /\ req[r].pc = "previews" /\ ~req[r].gone
  /\ IF Lacking(r) = <<>>
       THEN req' = [req EXCEPT ![r].pc = "bodies"] /\ UNCHANGED <<fills, faults>>
       ELSE req' = [req EXCEPT ![r].pc = "fill"] /\ FillFor(r, "previews", Lacking(r))
  /\ UNCHANGED <<calls, asks, resp, needs, brought, sending, history>>

BringBodies(r) ==
  /\ req[r].pc = "bodies" /\ ~req[r].gone
  /\ IF Bodies(r) = {}
       THEN req' = [req EXCEPT ![r].pc = "search"] /\ UNCHANGED <<fills, faults>>
       ELSE req' = [req EXCEPT ![r].pc = "fill"] /\ FillFor(r, "bodies", Jobs(r))
  /\ UNCHANGED <<calls, asks, resp, needs, brought, sending, history>>

\* A failure of the store or of a task ends the request.
Fills(r) ==
  /\ req[r].pc = "fill" /\ (~req[r].gone \/ FillAt(r, "save"))
  /\ \/ FillStep(r) /\ UNCHANGED req
     \/ /\ Fault
        /\ \/ FillAt(r, "locate") \/ FillAt(r, "rows")
           \/ FillAt(r, "save") /\ fill[r].res # {}
           \/ FillAt(r, "end") /\ fill[r].stage = "bodies"
        /\ Put(r, NoFill)
        /\ req' = [req EXCEPT ![r].pc = "failed"]
        /\ UNCHANGED <<server, rows, kept, windows, crossed>>
  /\ UNCHANGED <<calls, asks, resp, needs, brought, sending, history>>

\* The lock is given back; each call has the bodies found for it.  A body
\* is of its message for good, so it does not tell when it was read.
EndFill(r) ==
  LET found(i) == {x.id : x \in {y \in fill[r].res : y.ask = i}}
      previews == fill[r].stage = "previews"
  IN  /\ req[r].pc = "fill" /\ ~req[r].gone /\ FillAt(r, "end")
      /\ Put(r, NoFill)
      /\ req' = [req EXCEPT ![r].pc = IF previews THEN "bodies" ELSE "search"]
      /\ brought' = IF previews THEN brought ELSE
           [brought EXCEPT ![r] = [i \in Indices(r) |->
              IF i \in Bodies(r) THEN [what |-> "bodies", saw |-> {}, ids |-> found(i)]
              ELSE brought[r][i]]]
      /\ UNCHANGED <<calls, asks, resp, needs, sending, history>>
      /\ UNCHANGED <<server, rows, kept, windows, crossed, faults>>

\* The searches of the round, whatever stands before their calls: a write
\* behind another call, or one whose reference is not answered yet, is done
\* in a later round and the hits stay.
BringSearch(r) ==
  /\ req[r].pc = "search" /\ ~req[r].gone
  /\ \E got \in {"hits", "nohits"} :
       /\ IF got = "hits" THEN NoFault ELSE Fault /\ Plans(r) # {}
       /\ brought' = [brought EXCEPT ![r] = [i \in Indices(r) |->
            IF i \in Plans(r) THEN [what |-> got, saw |-> DoneBy(r), ids |-> {}]
            ELSE brought[r][i]]]
  /\ needs' = [needs EXCEPT ![r] = {}]
  /\ req' = [req EXCEPT ![r].pc = "pass", ![r].pass = @ + 1]
  /\ UNCHANGED <<calls, asks, resp, sending, history, fills>>

\* The client goes away where the request awaits: a fill is dropped with the
\* lock it holds; a task it started, and a write of previews, go on.
GoAway(r) ==
  /\ req[r].pc \notin {"done", "failed"} /\ ~req[r].gone
  /\ Fault
  /\ req' = [req EXCEPT ![r].gone = TRUE]
  /\ IF FillAt(r, "save") THEN UNCHANGED fill ELSE Put(r, NoFill)
  /\ UNCHANGED <<calls, asks, resp, needs, brought, sending, history>>
  /\ UNCHANGED <<server, rows, kept, windows, crossed>>

(***************************************************************************)
(* The task that sends.                                                    *)
(***************************************************************************)
Message(r) == <<r, task[r].call, task[r].create>>

At(r, pc) == task[r].pc = pc
Goes(r, pc) == task' = [task EXCEPT ![r].pc = pc] /\ UNCHANGED turn

\* The account's turn to send, in the order the sends came.
TakeTurn(r) ==
  /\ At(r, "turn") /\ turn = None
  /\ turn' = r
  /\ task' = [task EXCEPT ![r].pc = "row"]
  /\ UNCHANGED <<passes, record, sends, faults, history, fills>>

\* The task once a create has its outcome: the next create of the ask waits
\* for a turn of its own.
AfterCreate(r, outcome) ==
  LET create == task[r].create + 1 IN
  [pc |-> IF create \in Creates(r, task[r].call) THEN "turn" ELSE "ended",
   call |-> task[r].call, create |-> create, got |-> Append(task[r].got, outcome),
   wentOut |-> (task[r].wentOut \/ outcome = "created")]

\* Mutant: a refused create keeps the turn.
EndsHolding(r, outcome) ==
  /\ turn' = IF outcome = "refused" THEN turn ELSE None
  /\ task' = [task EXCEPT ![r] = AfterCreate(r, outcome)]

\* A create ends with its outcome and the turn is given back.
Ends(r, outcome) ==
  /\ turn' = None
  /\ task' = [task EXCEPT ![r] = AfterCreate(r, outcome)]

\* A failure of the store or of a task is the request's before any message
\* went out and the create's own after one did.
JudgedAlways(r) ==
  turn' = None /\ task' = [task EXCEPT ![r].pc = "ended", ![r].got = <<>>]

Judged(r) ==
  IF task[r].wentOut THEN Ends(r, "serverFail") ELSE JudgedAlways(r)

\* A create may name the draft the write before its call makes.
Held(r) ==
  LET i == task[r].call IN
  i > 1 /\ Kind(r, i - 1) = "set" => done[r][i - 1] > 0

\* The email's row: held, gone since the call was read, or unreadable.
ReadRow(r) ==
  /\ At(r, "row")
  /\ \/ Held(r) /\ Goes(r, "fetch") /\ NoFault
     \/ ~Held(r) /\ Ends(r, "refused") /\ NoFault
     \/ Fault /\ Ends(r, "refused")
     \/ Fault /\ Judged(r)
  /\ UNCHANGED <<passes, record, sends, history, fills>>

\* What blob::whole stops with, and what the create is told.
Unread(stop) ==
  CASE stop \in {"NotFound", "TooLarge"} -> "refused"
    [] stop \in {"NoSession", "Unavailable", "elapsed"} -> "unavailable"
    [] OTHER -> "serverFail"

Stops == {"NotFound", "TooLarge", "NoSession", "Unavailable", "elapsed", "Undecodable", "Store"}

\* The message whole on the account's conversation within its deadline, then
\* its sender and recipients read off the runtime: a task ended early, or a
\* message that cannot be sent as it is.
FetchMessage(r) ==
  /\ At(r, "fetch")
  /\ \/ Goes(r, "connect") /\ NoFault
     \/ Fault /\ \E stop \in Stops : Ends(r, Unread(stop))
     \/ Fault /\ Ends(r, "refused")
     \/ Fault /\ Judged(r)
  /\ UNCHANGED <<passes, record, sends, history, fills>>

\* What each step of opening the connection may fail with.
ClientErrors   == {"Io", "Tls", "Timeout", "ServerName", "AuthUnavailable", "Protocol"}
ConnectFails   == {"NoAddress", "Connect"} \cup ClientErrors
GreetingFails  == {"Timeout", "Closed", "Protocol"} \cup ClientErrors
EhloFails      == {"Protocol"} \cup ClientErrors
OpenedFails    ==
  ConnectFails \cup GreetingFails \cup EhloFails \cup {"StarttlsAbsent", "StarttlsRefused"}
SignInFails    == {"CredentialRejected", "AuthUnavailable"} \cup ClientErrors
SubmissionFails == OpenedFails \cup SignInFails \cup {"Held"}

\* The credential refused, since a send waiting for it would wait for good;
\* what a later round may reach; any other failure is the server's.
Unconnected(error) ==
  CASE error = "CredentialRejected" -> "refused"
    [] error \in {"Held", "NoAddress", "Connect", "Timeout", "Closed", "Io"} -> "unavailable"
    [] OTHER -> "serverFail"

ConnectSubmission(r) ==
  /\ At(r, "connect")
  /\ \/ Goes(r, "mail") /\ NoFault
     \/ Fault /\ \E error \in SubmissionFails : Ends(r, Unconnected(error))
  /\ UNCHANGED <<passes, record, sends, history, fills>>

\* A reply, or none; a permanent one may be about the size.
Replies == {"ok", "permanent", "tooBig", "tooMany", "later", "lost"}

\* The replies to one RCPT TO an address in their order: a permanent refusal
\* is kept while the rest still go, any other ends the transaction.
Recipients(replies) ==
  LET stops == {k \in DOMAIN replies : replies[k] \in {"tooMany", "later", "lost"}} IN
  IF stops # {}
  THEN IF replies[Min(stops)] = "tooMany" THEN "refused" ELSE "unavailable"
  ELSE IF \E k \in DOMAIN replies : replies[k] # "ok" THEN "refused" ELSE "passed"

\* MAIL FROM and the recipients; no DATA goes out after a refusal of either.
MailAndRecipients(r) ==
  /\ At(r, "mail")
  /\ \/ \E replies \in [1..2 -> Replies] :
          IF Recipients(replies) = "passed" THEN Goes(r, "data") /\ NoFault
          ELSE Ends(r, Recipients(replies)) /\ Fault
     \/ Fault /\ \E reply \in Replies \ {"ok"} :
          Ends(r, IF reply \in {"tooBig", "permanent"} THEN "refused" ELSE "unavailable")
  /\ UNCHANGED <<passes, record, sends, history, fills>>

\* Mutant: a connection lost at DATA is a refusal for good.
UndeliveredLost(reply) ==
  CASE reply = "tooBig" -> "refused" [] reply \in {"permanent", "lost"} -> "serverFail"
    [] OTHER -> "unavailable"

\* What a DATA that is not taken is told as: too large, refused for good, or
\* unavailable, the connection lost among them.
Undelivered(reply) ==
  CASE reply = "tooBig" -> "refused" [] reply = "permanent" -> "serverFail"
    [] OTHER -> "unavailable"

\* DATA: taken, not taken, or the answer never came and the server may have
\* taken the message.
Data(r) ==
  /\ At(r, "data")
  /\ \/ /\ out' = out \cup {Message(r)}
        /\ Goes(r, "record") /\ NoFault
        /\ UNCHANGED unheard
     \/ /\ Fault /\ \E reply \in Replies \ {"ok"} : Ends(r, Undelivered(reply))
        /\ UNCHANGED <<out, unheard>>
     \/ /\ Fault /\ Ends(r, Undelivered("lost"))
        /\ out' = out \cup {Message(r)} /\ unheard' = unheard \cup {Message(r)}
  /\ UNCHANGED <<passes, record, sends, done, filed, left, fills>>

\* The oldest submission leaves past the bound; every send moves the state.
Kept(list) ==
  SubSeq(list, IF Len(list) > RECENT_SUBMISSIONS THEN Len(list) - RECENT_SUBMISSIONS + 1 ELSE 1,
         Len(list))

RecordSubmission(r) ==
  /\ At(r, "record")
  /\ record' = Kept(Append(record, Message(r)))
  /\ sends' = sends + 1
  /\ Goes(r, "file")
  /\ UNCHANGED <<passes, faults, history, fills>>

\* What the call named for a create on success: the email of a submission
\* of one create is filed, the first of a pair destroyed.
OnSuccess(r) ==
  IF Kind(r, task[r].call) = "pair" /\ task[r].create = 1 THEN "destroy" ELSE "file"

\* The implicit Email/set; a failure answers for the email alone, since the
\* message is with the submission server by then.  A filing puts the Sent
\* form into the new mailbox and the email leaves once the copy landed.
ImplicitSet(r) ==
  /\ At(r, "file")
  /\ \/ OnSuccess(r) = "destroy" /\ Goes(r, "leave") /\ NoFault /\ UNCHANGED filed
     \/ OnSuccess(r) = "file" /\ Goes(r, "leave") /\ NoFault
        /\ filed' = filed \cup {Message(r)}
     \/ Fault /\ UNCHANGED filed /\ Ends(r, "created")
  /\ UNCHANGED <<passes, record, sends, done, out, unheard, left, fills>>

\* The email goes, or stays beside its copy.
LeaveDraft(r) ==
  /\ At(r, "leave")
  /\ \/ left' = left \cup {Message(r)} /\ NoFault
     \/ UNCHANGED left /\ Fault
  /\ Ends(r, "created")
  /\ UNCHANGED <<passes, record, sends, done, out, unheard, filed, fills>>

\* The request takes the outcome of its task; one that is gone does not.
Failed(r) == task[r].got = <<>>

TakeOutcome(r) ==
  LET i == task[r].call IN
  /\ At(r, "ended") /\ ~req[r].gone
  /\ task' = [task EXCEPT ![r] = NoTask]
  /\ IF Failed(r)
       THEN /\ req' = [req EXCEPT ![r].pc = "failed"]
            /\ UNCHANGED <<needs, brought, done>>
       ELSE /\ Gift(r, i, "submitted")
            /\ done' = [done EXCEPT ![r][i] = @ + 1]
            /\ needs' = [needs EXCEPT ![r] = @ \ {i}]
            /\ req' = [req EXCEPT ![r].pc = "bring", ![r].row = i + 1]
  /\ UNCHANGED <<calls, asks, resp, turn, record, sends, faults, out, unheard, filed, left, fills>>

TaskEnds(r) ==
  /\ At(r, "ended") /\ req[r].gone
  /\ task' = [task EXCEPT ![r] = NoTask]
  /\ UNCHANGED <<passes, turn, record, sends, faults, history, fills>>

(***************************************************************************)
(* The specification.                                                      *)
(***************************************************************************)
Lists(n) == UNION {[1..k -> Kinds] : k \in 0..n}

Mail(folder, part, claims, holds) ==
  [folder |-> folder, part |-> part, claims |-> claims, holds |-> holds]

\* A long request on its own over one email, or two that send beside each
\* other.
InitCalls ==
  /\ calls \in {<<a, <<>> >> : a \in Lists(Alone)}
              \cup {<<a, <<"pair">> >> : a \in {<<"pair">>, <<"set", "submit">>}}
  /\ asks = [r \in Owners |-> [i \in Indices(r) |-> <<1>>]]
  /\ FillInit(<<Mail(1, 1, 1, 1)>>)
  /\ kept = <<"own">>
  /\ faults = MaxFaults

\* A request that fetches several messages of two folders; one claims more
\* than it holds, one more than its value may be.
InitFill ==
  /\ calls = << <<"fetch", "followed">>, <<>> >>
  /\ asks = [r \in Owners |-> [i \in Indices(r) |-> IF i = 1 THEN <<1, 2, 3>> ELSE <<2>>]]
  /\ FillInit(<<Mail(1, 1, Window + 1, Window + 1), Mail(2, 1, 2 * Window, 2 * Window - 1),
               Mail(1, 2, MAX_BODY_VALUE_BYTES + 1, MAX_BODY_VALUE_BYTES + 1)>>)
  /\ kept = <<"none", "none", "own">>
  /\ faults = MaxFillFaults

Init ==
  /\ InitCalls \/ InitFill
  /\ req = [r \in Owners |-> [pc |-> "start", pass |-> 1, row |-> 0, first |-> 0, gone |-> FALSE]]
  /\ resp = [r \in Owners |-> [i \in Indices(r) |-> NoAnswer]]
  /\ needs = [r \in Owners |-> {}]
  /\ brought = [r \in Owners |-> [i \in Indices(r) |-> NoGift]]
  /\ task = [r \in Owners |-> NoTask]
  /\ turn = None /\ record = <<>> /\ sends = 0
  /\ done = [r \in Owners |-> [i \in Indices(r) |-> 0]]
  /\ out = {} /\ unheard = {} /\ filed = {} /\ left = {}

Brings(r) ==
  \/ BringWrite(r) \/ BringSubmit(r) \/ EndRow(r) \/ BringPreviews(r) \/ BringBodies(r)
  \/ Fills(r) \/ EndFill(r) \/ BringSearch(r)

SendStep(r) ==
  \/ TakeTurn(r) \/ ReadRow(r) \/ FetchMessage(r) \/ ConnectSubmission(r)
  \/ MailAndRecipients(r) \/ Data(r) \/ RecordSubmission(r) \/ ImplicitSet(r) \/ LeaveDraft(r)
  \/ TakeOutcome(r) \/ TaskEnds(r)

Step(r) == Begin(r) \/ Pass(r) \/ Brings(r) \/ SendStep(r)

\* Others change the folders only where several messages are fetched.
Around == Len(mail) > 1 /\ Beside /\ UNCHANGED <<passes, sending, history>>

Next ==
  \/ \E r \in Owners : Step(r) \/ GoAway(r)
  \/ Around

Spec == Init /\ [][Next]_vars

\* A request and its task go on; every wait on a server has a deadline, and
\* the turn goes to the next sender in line.
FairSpec == Spec /\ \A r \in Owners : WF_vars(Step(r))

(***************************************************************************)
(* Properties.                                                             *)
(***************************************************************************)
Ended(r) == req[r].pc = "done"

\* Each answer is read from rows that hold the request's writes that stand
\* before its call, and no other write of the request.
RowsInOrder ==
  \A r \in Owners : Ended(r) =>
    \A i \in Indices(r) : resp[r][i].st = "ok" =>
      resp[r][i].saw \ {i} = {j \in DoneBy(r) : j < i}

\* The writes a request opens with, behind calls that ask for nothing: they
\* stand in one row that the first round does.
Plain(r, k) == Kind(r, k) \in Writes \ Refers /\ ~NamesState(r, k)
AtHead(r, j) ==
  \E n \in 1..j : /\ \A k \in 1..(n - 1) : Kind(r, k) = "changes"
                  /\ \A k \in n..j : Plain(r, k)

\* The search of a query ran on a server without the writes behind the query
\* and with those of the row the request opens with before it.
HitsInOrder ==
  \A r \in Owners : Ended(r) =>
    \A i \in Indices(r) : Kind(r, i) = "query" /\ resp[r][i].st = "ok" =>
      /\ resp[r][i].found \subseteq {j \in DoneBy(r) : j < i}
      /\ \A j \in DoneBy(r) : j < i /\ AtHead(r, j) => j \in resp[r][i].found

\* A call answers what the calls before it left (jmap/request.rs:183): the
\* search of a query ran on a server with all of the writes before it.  Stated
\* as the comment has it and no invariant: the README shows how it fails.
QueriesInOrder ==
  \A r \in Owners : Ended(r) =>
    \A i \in Indices(r) : Kind(r, i) = "query" /\ resp[r][i].st = "ok" =>
      {j \in DoneBy(r) : j < i} \subseteq resp[r][i].found

\* Nothing is stored twice however often its call runs again, and a write
\* that answers unavailable once the passes are spent stored nothing.
StoredOnce ==
  \A r \in Owners :
    /\ \A i \in Indices(r) : done[r][i] <= 1
    /\ Ended(r) => \A i \in Indices(r) :
         Kind(r, i) \in Writes /\ resp[r][i].st # "ok" => done[r][i] = 0

\* Once one message of a call went out the call has a verdict on each of
\* its creates, so no client queues it again.
VerdictAfterSend ==
  \A r \in Owners : At(r, "ended") /\ Failed(r) =>
    \A c \in Creates(r, task[r].call) : <<r, task[r].call, c>> \notin out \ unheard

\* What a create is told is what happened: created went out, a refusal did
\* not, and unavailable went out only where the server's answer was lost.
ToldAsSent ==
  /\ \A r \in Owners : \A c \in DOMAIN task[r].got :
       LET m == <<r, task[r].call, c>> IN
       /\ task[r].got[c] = "created" => m \in out
       /\ task[r].got[c] \in {"refused", "serverFail"} => m \notin out
       /\ task[r].got[c] = "unavailable" => m \notin out \ unheard
  /\ VerdictAfterSend

\* The email of a filing leaves only once its copy stands in the mailbox it
\* was filed into.
CopyBeforeLeave ==
  \A m \in left : ~(Kind(m[1], m[2]) = "pair" /\ m[3] = 1) => m \in filed

\* Every message the server took and said so is recorded and moves the
\* state, its request gone or not; only such a one is filed, its copy first.
SendsRecorded ==
  /\ sends + Cardinality({r \in Owners : At(r, "record")}) = Cardinality(out \ unheard)
  /\ Range(record) \cup filed \cup left \subseteq out \ unheard
  /\ Len(record) = IF sends < RECENT_SUBMISSIONS THEN sends ELSE RECENT_SUBMISSIONS
  /\ CopyBeforeLeave

\* Every request ends, every task too, and the turn comes back.
EverythingEnds ==
  <>[](/\ turn = None
       /\ \A r \in Owners : At(r, "idle") /\ (req[r].gone \/ req[r].pc \in {"done", "failed"}))

\* A call runs where it stands in its request, once, however many passes the
\* request takes; of the writes before a query its search has those the
\* request opens with (jmap/request.rs).
CallsStand == RowsInOrder /\ HitsInOrder /\ StoredOnce

\* What a submission says and what it leaves behind are what the submission
\* server took (jmap/submission/sending.rs).
SendsStand == ToldAsSent /\ SendsRecorded
=============================================================================
