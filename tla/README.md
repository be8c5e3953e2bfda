# Verification of huliho

TLA+ modules that model the parts of huliho whose correctness depends on the
order things happen in, TLC runs that check them on small instances, and
theorems that TLAPS proves for every value of the constants.  `PROJECT.json`
holds the same material for tools: the components, the runs, the map from
definitions to source lines, the hazards and the theorems.

## The system

huliho is a self-hosted web mail service in three parts.

- **The bridge** (`src/crates/imap-bridge`) keeps a cache of an IMAP account in
  SQLite and answers JMAP from it.
- **The server** (`src/crates/server`) owns users, accounts and credentials,
  runs the bridge for IMAP accounts and forwards requests for JMAP accounts.
- **The client cache** (`src/packages/core/src/cache`,
  `src/apps/web/src/cache`) keeps mail in the browser, follows the change log
  and sends the user's changes.

### Components

| Component | State | Operations | Module |
|---|---|---|---|
| Folder sync | UIDs left, narrowed slices, budget; `bridge_sync` progress | open, batch, narrow, write, resume | FolderSync |
| Refresh | kept walks, scanned folders | pass, new mail, flags, expunged, advance | FolderSync |
| Account task | failures of a folder, the round | round, turn, give up, wait | FolderSync |
| Conversation, IMAP session | one connection, tags, the message count | sign in, commands, literals, keep, give up | ImapSession |
| Mailbox pass, Mailbox/set | mailbox rows, roles, subscriptions | observe, apply, plan, send, settle | MailboxTree |
| Change log | state counter, rows, horizon | note, log, prune, changes_since, fold, cut | ChangeLog |
| Email/set, drafts, Gmail stores | the plan of one request; parked rows, labels | IMAP commands, rows, park, sweep | EmailSet |
| Threads, Email/query, search cache | threads, message ids, kept hits | join, merge, destroy; query, plan, search, keep, forget | EmailQuery |
| JMAP requests, submission | calls, answers, needs; the recent sends | pass, bring, send, record, file | Requests |
| Bodies and previews | the jobs of a fill, its sessions, the windows left | locate, examine, read, reconnect, save | BodyFill |
| Uploads, downloads, streams | parts, files, sidecars, channels | begin, append, complete, evict, sweep, forget, stream | Blobs, BlobStore |
| Connection gate, OAuth | runs of failures, locks, the stop and tokens on the row, consents | attempt, observe, probe, refresh, claim, settle | AccountGate |
| Sessions, passwords, limiter | session rows, one-time passwords, delays | open, touch, rotate, revoke, prune | SignIn |
| Change follower | objects and states per type | hydrate, round, land | ChangeLog |
| Pending log | optimistic rows, held destroys, leases | mutate, flush, settle, take back, release | PendingLog |
| Jobs, windows | claims, list windows | claim, run, read window, refresh | none |

How they meet: one *conversation* per account is a mutex over one IMAP session;
the task, a refresh, Email/set, Mailbox/set and the bodies of a request take
turns on it, searches and sends have connections of their own.  Every write of
the bridge is one SQLite transaction in a blocking task that outlives the
request that started it.  The server's gate takes outcomes from everyone who
connects upstream, some of whom hold the account's lock.

What is hard here: the IMAP server moves under every reader; a deadline or a
client that goes away drops a request at any await while its blocking task goes
on; a crash keeps the store and loses what memory held; UIDs and sequence
numbers are given out anew; two reads of one round see different states; a
command is done and its answer lost.  The list, with a line for each, is
`hazards` in `PROJECT.json`.

## Modules

Each module models one component, or a few that share their state, from the
source named in `PROJECT.json`'s map.  Requests is composed with BodyFill, and
Blobs instantiates BlobStore; the others do not import each other's state, and
where one relies on what another checks it says so.

### FolderSync

One IMAP folder, the rows the bridge caches of it, the account's task and the
refresh.

| In the model | In the code |
|---|---|
| `uidValidity`, `uidNext`, `highestModseq`, `box` | the IMAP server, as RFC 3501 and RFC 7162 let it move |
| `row` | `uid_validity` of the folder's mailbox row |
| `rows` | `bridge_emails` of the folder, by UID |
| `waiting` | the rows without a UID that wait for a match after a renumbering |
| `progress` | `bridge_sync`: lowest UID passed, done, and `Synced` |
| `sync` | the task's `FolderSync` |
| `refresh` | the refresh that runs, by the step it reached |
| `kept` | `Refresher.pending` for the folder |
| `detached` | a batch whose turn the deadline ended while a blocking thread writes it |
| `leftOut`, `marked`, `slipped` | history, for the properties alone |

A message is a number, its identity across renumberings (the hash of its
Message-ID, its date and its size in the code, so two equal messages are not
told apart there and are not modelled).  Its flags are the mod-sequence they
were last changed under and `\Deleted`, which the bridge treats apart.  A walk
is the record `NoWalk` describes; `NextSlice`, `Taken`, `Narrow`, `ExtendTo`
and `Above` are the methods of `FolderSync`; `WriteBatch`, `Saved` and
`Renumbered` are the store's transactions.  One action is one thing the code
does without an await on the server in between: `Open` is EXAMINE, `List` the
UID list, a `Batch...` action one fetch with its write.  The refresh holds the
conversation's lock from `Pass` to its end; the task takes it for one turn, so
the server, and nothing else, moves between two steps of a refresh.

Left out: folders of a Gmail account; servers without CONDSTORE or without
UIDNEXT (and so the flag scan); a folder that vanishes; the walk `Beside`; late
commits of the pass, of flags and of `advance`, which the deadline can cut as it
cuts a batch.  A STATUS answered NO keeps the recorded values and is no step.

### ChangeLog

The change log of one account, the `/changes` method and a client that follows
one object type.

| In the model | In the code |
|---|---|
| `objects` | the rows of the store; the value is the sequence a row last changed under |
| `sequence`, `log` | `bridge_state`, `bridge_changes` |
| `client` | the client's objects and state of one type, and the round it runs |
| `existed` | history: the objects at every state |

`Write` is any transaction of the store: it notes changes in a ledger
(`Folded`), logs the ledger under the next sequence and prunes.  That every
change of a row is noted is an assumption of this module (the hazards name a
place where it fails).  `Ask`, `Get`, `Land`, `Hydrate` and `RoundFails` are a
round of `packages/core/src/cache/changes.ts` for a type followed as the
mailboxes are.  One round runs at a time, since the coordinator holds the
account's lock.  The web client sets no `maxChanges`; the caps are those of any
JMAP client.

### PendingLog

The client's log of changes the server has not acknowledged, under the account's
lock, beside the server, its other clients and the tabs.

| In the model | In the code |
|---|---|
| `server`, `news` | the JMAP server's emails, and what its change logs hold since the client's states |
| `stored`, `header` | the email headers of the store, by their keywords and mailboxes |
| `count` | `totalEmails` and `unreadEmails` of the mailbox rows |
| `log` | the `PendingRow`s, with `sentAt` as `sent` |
| `worker` | the operation that holds the account's Web Lock, by the step it reached |
| `toasts` | per tab the held destroys an open toast can take back; not empty while the tab holds its lease |
| `said`, `owed`, `unseen`, `skewed` | history, for the properties alone |

An email is the set of its mailboxes and keywords, a patch a function from some
of them to what they become; one in no mailbox is gone.  `Patched`, `Replayed`,
`Unpatched`, `Merged`, `Cancels`, `TakenBack` and `PendingMoves` are the
functions of those names in `patch.ts`, `flush.ts`, `pending.ts` and
`overlay.ts`.  `Change`, `Destroy`, `Release` and `Drop` are the calls of a tab;
`Flush`, `Cancel`, `Send`, `Refuse` and `Settle` the commits of one flush, with
the request between `Send` and `Refuse`; `AskMailboxes`, `AskEmails` and `Land`
a round of the change logs; `Fetch` any list or thread that lands.  A fetch
reads and lands in one step: the lock is held in between, so a write of the
server in that time is the same as one right after.  `Meddle` and `Serve` move
the server at any moment, `NoAnswer`, `Crash` and `LeaseLost` cut any step.

Left out: the copies of an email's state in its thread and the lists (so an
email known by its thread alone), the counts of threads, several changes in one
call, `mayPatch`, the reset past the horizon, jobs, and an ended session, which
drops the account's rows with its log.

### AccountGate

One account of the server: its row, the gate, token refreshes and consents.

| In the model | In the code |
|---|---|
| `row` | the row of `accounts`: the stop, the credential (a grant and the turn of its refresh token) and whether the access token still lives |
| `runs`, `lock` | `Memory.runs` and `Memory.locks` of the gate |
| `handler` | everyone who connects upstream, by the await it stands at: the retry, the probe, the proxy, the IMAP and the submission connector, a typed credential, a consent's callback |
| `late` | a rotated token whose blocking write outlives its handler |
| `consents` | `Consents.entries` |
| `grants`, `valid`, `turnAt` | external: what the provider honours |

`Hold`, `CheckStored`, `AccessToken`, `StoreRotated`, `StopRevoked`, `Check`,
`Apply`, `StopRow`, `Passed` and `ResumeRow` are the steps of an attempt;
`StartConsent`, `Callback`, `Exchange`, `StoreTokens`, `SettleConsent`,
`EndConsent` and `GivesWay` those of a consent.  `Drop` cuts a handler where it
awaits, `Restart` loses the memory, `Expire` and `Revoke` are the provider's.

### BlobStore and Blobs

`BlobStore` is what the upload store promises a client: kept once and whole
from the moment an id is answered, lost only to age, to room taken oldest first
or with the account, and never back.  `Blobs` is the code: the directory with
part files, renames and sidecars under the account's lock, the sweep, the
account's removal, the process that dies between any two steps, downloads in
windows and blocks, and for a JMAP account the upload pumped upstream.  It is
shown to implement `BlobStore` (`KeepsItsPromise`) under the mapping in which an
upload is held once its bytes and a whole sidecar stand.

| In the model | In the code |
|---|---|
| `disk` | per upload the part file, the bytes, the sidecar (`torn` if the process died in it), their ages |
| `gen`, `lock` | `Uploads.locks`; a forgotten account's lock leaves the map, so a later caller holds another one |
| `up` | an upload request: its call of the store and how far the blocking task is (`loose` once it ran beside another holder) |
| `removal` | `api/accounts.rs`: forget, then the rows |
| `forward`, `blame` | the pump, the channel and the answer of a forwarded upload; history of what broke it |
| `down` | a download: its channel, what was read, what the client got |

Listing a directory with its evictions is one step, as are removing a directory
and one sweep: they run inside one blocking call.  Sealing is left out.

### EmailSet

Email/set on one IMAP account, with folders or on Gmail, as two requests that
share the conversation with a refresh while a search runs beside.

| In the model | In the code |
|---|---|
| `box` | external: mail by UID, flags, labels, UIDVALIDITY, UIDNEXT |
| `rows`, `pin`, `state` | `bridge_emails`, `uid_validity` of `bridge_mailboxes`, the account's state |
| `wire`, `work` | the conversation's holder, its `Work`: the plan by email, the stage reached, tallies, the changes stored |
| `late` | a transaction whose request was dropped |
| `search`, `kept`, `forgets` | `runtime/search.rs` |
| `did`, `taken` | history: what the server did for each request, what others took |

The stages (`Create`, `Select`, `StoreKeywords`, `StoreLabels`, `MoveMail`,
`ExpungeCopied`, `DestroyMail`, `TrashDrafts`, `RestoreLabels`, `WriteRows`,
`PassForDraft`) are the calls of `jmap/write.rs` in their order; each may be
taken, refused, or lost before or after the server did it.  A refresh is one step per folder.  Left
out: PERMANENTFLAGS, the width of a label line, the texts of refusals, states
past one change (`state` is 0 or changed), and `\Deleted` left behind by a
failed expunge.

### MailboxTree

The mailboxes of an IMAP account: the pass and Mailbox/set.

| In the model | In the code |
|---|---|
| `tree`, `subs`, `mail` | external: folders, subscribed names, where the one message lies |
| `rows`, `emails`, `done` | `bridge_mailboxes`, the memberships, `bridge_sync` |
| `seq`, `log` | the account's state and its mailbox lines in `bridge_changes` |
| `wire`, `work`, `listing` | the conversation's holder, its `Work`, the listing a pass read |
| `answer`, `late` | what came of the call, a transaction nobody awaits |
| `unsure`, `snap`, `did` | history: whether the rows may lag, the first rows, what the server did |

A wire name is the sequence of its leaves; `Ask` lists the calls (creates that
name each other, swaps, cycles, handed-on roles, destroys with and without
children and mail, labels).  `Planned` is `plan.rs`, `Taken`, `Refuse`, `Break`
and `Timeout` the outcomes of one command, `SettleRead`/`SettleWrite` the pass
behind a failure, `Contested` of `failure.rs` tells who is blamed for a
name in use.  Left out: rights by ACL, roles by attribute, the delimiter of each
level, quota; LIST, LSUB and STATUS of a pass are one step.

### SignIn

| In the model | In the code |
|---|---|
| `users`, `rows`, `log`, `active` | `users`, `sessions`, the counts of `domain_events` by kind, the `user.active` facts |
| `limiter`, `permits` | `RateLimiter.entries`, `verify_gate` |
| `req`, `cookie` | the requests by the await they stand at, the token each browser holds |
| `gen`, `handed`, `bought` | history: changes of each password, one-time passwords handed out and spent |
| `worked` | history: the sessions each one-time password opened, by sign-ins no reset overtook and by overtaken ones |
| `vouched`, `overtaken` of a request and its row | history: the change of the password the sign-in verified, and whether a change or reset of it fell between the check and the transaction |

`Arrival`, `Enter` and `Works` take a sign-in, a password change, a reset, the
creation of a user, `revoke_others` and `revoke_other` through the gate, the
read, the hash and the transaction; `HangUp` drops the handler and its permit
while the task runs on; `SignOut`, `PruneExpired` and `Tick` come at any time.
Left out: the first owner, role changes, a password set from the command line,
user listing, pruning of events, the token buckets and the limiter's sweep.

### Requests

A JMAP request in passes (`jmap/request.rs`) and the sends of
EmailSubmission/set.  `calls` is a list of kinds of calls, `resp`, `needs` and
`brought` what `answer` returned and `fetched` brought, `task` and `turn` the
sending task and `Sends.one`, `record` and `sends` the ring of recent
submissions and its counter, `out` what the submission server took and
`unheard` what it took without being heard.  Two histories of an answer are
sets of the request's writes: `saw`, those the rows held when it was read, and
`found`, for a query, those the server had done when the search ran that it is
answered from, which may be rounds earlier.  Bodies have no such history: a
message never changes its body.  `Pass`, `Brings` and `SendStep` follow the code
from await to await; `GoAway` drops the request, not its sending task.  Left
out: a get that asks for previews alone, what a write does to the rows
(EmailSet), filing on Gmail.

### BodyFill

The fetch of bodies and previews between two passes (`jmap/bodies.rs`,
`jmap/previews.rs`), composed with Requests: `BringPreviews` and `BringBodies`
start a fill, `FillStep` is a step of it, `EndFill` hands each call what was
found.

| In the model | In the code |
|---|---|
| `fill` | `Fill`: the jobs, the folder rows read, the selected folder, the sessions tried, the octets of the value at hand, the results |
| `windows` | `Carried.windows`, across the fills of a request |
| `valid`, `place`, `rowed`, `kept` | the rows: UIDVALIDITY, the numbering a UID is of, which exist, whose text the preview is |
| `numbering`, `there`, `mail` | external: the server's folders and messages, with the size it claims and the one it has |
| `crossed` | history: emails located before a pass, their folder read after it |

`Locate` and `ReadFolders` are two reads of the store; `TakeWire` to the end of
the fetch hold the conversation, so a pass or a sync of the rows
(`PassRenumbers`, `SyncRows`) falls before or after.  `Structure` and
`ReadWindow` end as `Failure` has it: the job, the session, both or neither
goes.  A request that goes away drops its fill at any of these, but not the
write of its previews.  Left out: decoding, several text parts of one message.

### ImapSession

The connection as two FIFO sequences, `out` and `wire`; `srv` is the server
(external), `cl` the `ImapSession`, `cur` the command whose answer is read,
`turn` the caller's turn on the conversation, `last` what the last command came
to.  `Begin` writes a command, `WriteLiteral` its literal, `Read` takes one line,
`Abandon` is a request dropped mid-command, `UseKept` the NOOP a kept session
must answer.  `Serve`, `Complete`, `Tell`, `Chatter` and `Others` are the
server: it refuses, stays silent, volunteers EXISTS, EXPUNGE and FETCH, and
lets other clients change the selected mailbox.  UIDs of the two mailboxes are
kept apart, so an answer meant for another mailbox shows.  Left out: the bytes
of a line (a line past its bound is "oversized"), commands of one line without
an answer, SMTP (its replies are in Requests).

### EmailQuery

Threads over the rows and Email/query over both.  `box` and `thrid` are the
server's, `rows`, `hashes`, `pin` and `done` the store's, `told` the log lines of
the last transaction, `req`, `wire`, `kept` and `forgets` the searches.
`ApplyBatch`, `RemoveUids`, `ParkUids`, `SweepParked` and `SeeValidity` are the
transactions of the sync, each through `Join`, `Merge` and the ledger of
`store/threads.rs`; `Ask`, `Look`, `Take`, `ReadFolder`, `Finish`, `Answer` follow
`runtime/search.rs` and the two passes of the request.  `QueryRows`, `SearchRows`,
`PlanOf`, `Position` and `PageIds` are the SQL and the paging as operators, checked
against the reference definitions `Expected`, `Cut` and `Wanted`.  Left out: the
text match itself, the kinds of a failed search, keywords that change.

### The proof modules

`FolderSyncProofs`, `ChangeLogProofs`, `PendingLogProofs`, `AccountGateProofs`,
`SignInProofs`, `RequestsProofs`, `BlobsProofs` and `ImapSessionProofs` extend the
module they are named for with its inductive invariant, lemmas and theorems.

## Runs

| Run | Bounds | Distinct states |
|---|---|---|
| `sync` | 3 UIDs, 3 messages, one only described without its structure, 3 changes, one renumbering, two faults, batches of 1, no budget to narrow | 1.6 million |
| `live` | 3 UIDs, 2 messages, one no fetch describes and one only without its structure, one renumbering, one fault, batches of 2, writes that outlive their turn | 0.5 million |
| `changes` | 3 objects, 2 of them followed, 3 writes of up to 2 changes, a log of 3 rows, a cap of 1, one failure | 86 thousand |
| `pending` | 2 emails, 2 mailboxes, 1 keyword, 1 tab, one email per Email/set; up to 3 changes, 2 writes of others, 2 faults, any 3 of these together | 0.2 million |
| `accounts` | one handler, the probe, one consent, 2 grants, one turn of a token, a run of 2 windows, 2 faults; both kinds of account | 0.6 million |
| `blobs` | 3 uploads of up to 2 blocks, quota 2, count 2, TTL 1 tick, one message of 2 windows, one fault; what is asked at once: two uploads, an upload beside a download or the account's removal, a download beside the removal | 0.1 million |
| `writes` | 2 folders, 2 emails, one request alone or two at once out of 11 asks, seven servers by MOVE, UIDPLUS, REPLACE and rights, one message per command, 2 faults | 0.8 million |
| `folders` | 11 calls on a tree of three folders and INBOX, or on Gmail, 2 faults | 85 thousand |
| `signin` | 3 users, 3 browsers, 2 requests in flight, 3 in all, one permit, one hang-up, two ticks | 0.4 million |
| `requests` | every list of up to 3 calls out of 8 kinds, and two requests that both send, with one fault; two calls that fetch three messages of two folders, with two faults; 3 passes, a ring of 2, one reconnect, 4 windows | 0.6 million |
| `session` | two mailboxes, windows of 1, one change by others, two kinds of literals | 0.6 million |
| `query` | 4 messages, 3 message ids, 2 folders or Gmail's two stores and a label, 2 faults, two searches with one fault, one search kept | 0.4 million |

What they ask:

- `sync`: the cache never claims more than it holds.  `NothingSkipped` (what
  the progress covers is held), `FlagsStand`, `ExpungeShows` (a stale row leaves
  the count short, so a later refresh finds it), `RowsLeaveForCause` (a message
  keeps its id).
- `live`: the narrowing leaves out only what it must (`LeftOutForCause`), a row
  never stands for another message even when a write commits after its turn
  (`RowsNameTheirMessage`), and the folder comes up to date (`Converges`, where
  no write was cut and the folder kept its numbering).
- `changes`: the client misses nothing (`NothingMissed`), the three lists are
  those of RFC 8620 section 5.2 and fit the cap (`AnswerExact`), the client
  catches up (`CatchesUp`).
- `pending`: taking every row of an email back gives what the server said last
  (`TakesBack`); what the user set last is in the log or on the server until
  the server refuses it or another client writes the same path
  (`NoChangeLost`); an open toast can do what it offers (`ToastHolds`); a
  settled cache counts what the server counts (`CountsAddUp`, excused where a
  landing took an email away under its rows, changed it in a path its rows do
  not name, or brought the count of a change before its email); the log empties
  and the cache shows the server's emails (`Settles`).
- `accounts`: the row holds what the user stored last and the token the provider
  takes next, unless a refresh was cut off (`CredentialStands`); a consent does
  what the card is told (`ConsentHolds`); a stop on refused connections ends
  (`ProbeResumes`).
- `blobs`: quota and count (`WithinBounds`, up to one block and one file for
  every call that ran outside the lock), the refinement (`KeepsItsPromise`), no
  short file that looks whole and no account blamed for its client
  (`EndsAreTold`), nothing left on disk for good (`LeavesNothing`).
- `writes`: rows and kept hits name the mail that lies there (`PlacesStand`);
  what is answered as done is done, on the state it named (`AnswersHold`); no
  draft's predecessor goes before it (`NeverBothLost`).
- `folders`: with nothing lost or done by others the rows are the server's
  folders, each role held once (`RowsFit`); the log tells a client of every
  mailbox that reads otherwise (`ChangesTell`); what is answered as done was
  done (`DoneOnServer`).
- `signin`: a change or reset that committed left no session inserted before
  it, every session was opened by the password its user has unless a change or
  reset overtook its sign-in, and a one-time password opens one session by
  sign-ins no reset overtook (`SessionsStand`; 11 says what is excused); the log accounts for every row
  (`LogAccountsForRows`).
- `requests`: every answer is read from rows with the writes before its call and
  none behind it (`RowsInOrder`), a query's search ran behind the writes the
  request opens with and before every write behind the query (`HitsInOrder`),
  and nothing is stored twice (`StoredOnce`), together `CallsStand` (14 says
  which writes a search may miss); the bodies and previews fetched for a call are
  its own messages', whole where they say so, one message never costing its
  neighbors theirs (`BodiesStand`); what a create is told is what went out, and
  every send that was heard is recorded (`SendsStand`); everything ends
  (`EverythingEnds`).
- `session`: credentials over TLS alone, literals where the server reads one, no
  sequence number above the server's count, writes in the mailbox opened for
  them (`SendsFit`); an answer taken for done is whole and its own
  (`AnswersFit`).
- `query`: threads (`ThreadsHold`), the log of them (`ThreadsTold`), the window
  index against the search on every page (`WindowsAgree`), and searches that
  lose nothing by plan, kept hits or moves (`SearchesHold`), together
  `QueriesHold`.

`TypeOK` is stated in most modules as documentation; `live` checks
FolderSync's, which the theorem `TypeCorrect` proves.

Why the bounds are enough.  Two messages make a batch that can be halved, and
in batches of one a first sync that a restart interrupts and a third message
arrives under; three UIDs over a `REFRESH_GAP` of 2 make both forms of the
upward walk; a second UIDVALIDITY makes every walk, row and write of the first
one stale.  One fault at every step cuts every operation once; a second one, in
the runs that have it, lets what was resumed meet another failure or another
client.  A log of three rows under writes of two forgets the oldest state and
passes a cap inside and at the first sequence.  Three changes make a change,
its undo and a destroy over them.  A quota of two blocks under uploads of two
makes the second upload evict or fail.  Two requests with the same `ifInState`
make the race for one state.  Three calls make a write between two reads and a
reference into the call before.  Windows of one make a walk of several windows
over a mailbox that shrinks and grows under it.  Three message ids and four
messages make a mail that merges two threads, one that joins and one that
nothing links.

Most runs do not check for deadlock, because the system may rest: a cache whose
log is empty, an account nobody uses, requests that are all answered.  `sync`,
`live` and `changes` do.

Fairness.  `FairSpec` of FolderSync has weak fairness of the refresh (the client
polls, the interval passes, and a refresh that holds the lock goes on) and
strong fairness of the task: the conversation's lock is a tokio mutex, which
queues in order, so the task gets its turn although refreshes come and go.
Faults and the server's moves are bounded and carry no fairness.  ChangeLog has
weak fairness of the client's round.  PendingLog has weak fairness of the worker
with the server that answers it and strong fairness of the end of a toast: it
runs out, and Web Locks queue in order.  AccountGate has weak fairness of every
step of a handler, strong fairness of its lock (a tokio mutex) and weak fairness
of the probe's tick; nothing makes a server answer well, so `ProbeResumes` rests
on the model's bounded faults.  Blobs has weak fairness of blocking tasks,
bodies (which end, stall out or are cut within their time) and time, and strong
fairness of the lock and of the sweep.  Requests has weak fairness of each
request with its task, since every wait on a server has a deadline.  EmailSet,
MailboxTree, SignIn, ImapSession and EmailQuery are checked for safety alone.

## Where the code and its docs disagree, and what the properties excuse

Met while modelling.  Each was seen as a counterexample of a property, which now
excuses it or is checked at bounds without it; the hazard at its line says which.

1. **A walk kept across a renumbering** (`sync/refresh.rs:226`).
   `Refresher::new_mail` resumes the walk a failure left behind without
   comparing UIDVALIDITY.  One with nothing remaining, because its last message
   was just left out, ends at once under the new numbering and lets `advance`
   record a UIDNEXT above a message nobody asked for; `store/refresh.rs:30` says
   "every UID below `uid_next` has been asked for".  `NothingSkipped` fails with
   an undescribable message and a renumbering, so `sync` has no such message.
2. **A budget that is never renewed** (`sync/mod.rs:332`).  The kept walk
   carries its spent narrowing budget from refresh to refresh, so two badly
   described messages stall a finished folder until the process restarts, where
   the bridge's `README.md:89` says none can.  `Converges` fails with two
   undescribable messages; `live` has one.
3. **A message between EXAMINE and the UID list** (`sync/mod.rs:130`) is stored
   above the recorded UIDNEXT, and its expunge before the first refresh never
   shows in the count (the bridge's `README.md:202`: "An expunge shows in the
   count").  `ExpungeShows` and `Converges` excuse the messages in `slipped`.
4. **A write cut by its deadline** (`runtime/worker.rs:195`) may be lost while
   the walk goes on, or land during a later refresh and leave the row of a
   message that was expunged meanwhile, or one with flags older than the
   HIGHESTMODSEQ on record (a message deleted when the folder was walked again).
   `NothingSkipped` and `FlagsStand` are checked without cut writes.
5. **A delete forever counted twice** (`overlay.ts:148`).  The server destroys
   the email and the answer is lost.  The next round removes the header and
   brings the mailbox's new count in one batch, and `pendingMoves` counts the
   waiting destroy out of it again; `pending.test.ts:400` says "counted once".
   `CountsAddUp` excuses it through `skewed`.
6. **A refused credential resumes** (`gate/mod.rs:267`).  A pass that settles
   after another request's 401 clears the stop, although
   `gate/reconnect.rs:160` says "the verdict stands until the user replaces
   it".
7. **Two writes on one state** (`jmap/write.rs:163`).  The comment says it never
   happens; a request whose client goes away while the rows are written in a
   blocking task gives the conversation back early, so the next request passes
   the same `ifInState`.  It also never forgets the kept searches.
   `OneWritePerState` and `KeptHitsStand` speak of answered requests.
8. **A role held twice** (`runtime/folders/plan/roles.rs:24`).  "Only an object
   that lands holds or frees one", says `roles.rs:6`; which updates land is
   found before anything is sent.  An update that gives its role up and renames
   is refused while sending (a leaf with the delimiter, a refused RENAME), keeps
   its role, and the update that takes the role stands as well.  The call
   `"freed"` of MailboxTree's `Ask` shows it; the run leaves it out.
9. **A pass that fails every time** (`store/mailboxes.rs:297`).  On Gmail the
   leaving of a store logs a label mailbox under the pass's sequence; if the
   pass logs the same mailbox again the insert conflicts and the whole pass is
   undone, at every pass.
10. **A request without a verdict after a send** (`jmap/request.rs:235`).  The
    rule of `sending.rs:96` is kept within one EmailSubmission/set; when a later
    call of the same request fails for the store, the request as a whole has no
    verdict although a message went out.
11. **A session opened by an old password** (`session/open.rs:42`, `:119`).  A
    change or reset that commits between the check of a password and the insert
    of the session comes too early to end that session, although
    `session/password.rs:5` says a change "ends every other session" and
    `auth/one_time.rs:72` that a reset "ends every session of that user".  The
    session by an old password is a full one; it may even change the password.
    A one-time password fares no better: `spend_one_time_password` clears any
    live one of the user's, so of two sign-ins that verified S1 one spends S1,
    a reset puts S2 in its place and ends all sessions, and the other spends
    S2.  S1 has opened two sessions and S2 none, where `session/open.rs:61` says
    "a secret works exactly once even under concurrent attempts".
    `SessionsStand` excuses the sign-ins that were `overtaken`.  `WorksOnce` states
    the comment as it stands: as an invariant of `SignIn.cfg` it fails, with
    `MaxAsked` and `MaxSecrets` 4, by the steps above.
12. **A body of another message** (`jmap/bodies.rs:220`, `jmap/previews.rs:98`).
    Where the messages lie and the folders' UIDVALIDITY are two reads of the
    store; a pass that notes a renumbering between them leaves a UID of the old
    numbering with the UIDVALIDITY of the new, which EXAMINE confirms.  A preview
    read so is kept.  `OwnMessage` excuses the emails in `crossed`.
13. **A replacement that outlives its lock** (`api/reconnect.rs:79`).  The lock
    of an account is held by the handler, the credential is written in a
    blocking task.  A client that leaves in between gives the lock back; the next
    attempt reads and refreshes the old credential, and its rotated token is
    written over the new one, where `gate/mod.rs:206` says that attempts and
    credential changes on one account run one at a time.  `CredentialStands`
    excuses it through `cut`; the proof of `CredentialsStand` showed it.
14. **A query answered from before a write** (`jmap/request.rs:258`).  A round does
    the writes that stand in a row from the first need and leaves one behind
    another call to a later round (`:206`), but it runs the search of every
    query, whatever stands before it, and the hits are kept for the pass that
    answers it.  In [fetch, set, query] the query joins the hits of before the
    set to the rows after it: mail the set moved drops out of its old folder and
    does not show in its new one.  The comment at `:183` says "A call answers
    what the calls before it left".  `HitsInOrder` holds a search to the writes
    the request opens with.  `QueriesInOrder` states the comment for every write
    before a query: as an invariant of `Requests.cfg` it fails, without a fault, by
    the steps above.

Smaller ones, in the same way: a new message left out hides an expunge of the
same refresh; a message that lost `\Deleted` stays hidden; a merge of threads
does not note the mailboxes whose thread counts move; hits joined to a folder
that was renumbered and synced afresh in between find other mail; a keyword
changed by the bridge leaves a kept search for it stale until its time is over;
a request dropped while an APPEND's literal is half written leaves the server
reading it (`LiteralsLand` excuses `torn`); an upload that fails over quota has
already evicted every older one; a part file whose caller left in the first call
stays until the sweep; a password change by a session rotated meanwhile ends the
browser's own fresh session; a CREATE whose answer was lost is blamed on another
client; an answer to DATA that is lost reads as unavailable.

## Proofs

Each theorem holds for every value of the constants its module's assumptions
allow.  The bounds of the model (numbers of writes, faults, handlers, ticks)
are constants too, so the theorems speak of any number of each; TLC's runs fix
small ones.  Every inductive invariant was checked by TLC before it was proved.

**FolderSync** (`BoundsAssumption`, `MessagesAssumption`): every number of UIDs,
messages, renumberings and faults, every batch size, budget and gap.

- `TypeCorrect`: `Spec => []TypeOK`.  `TypeOK` is inductive.  The lemmas follow
  the model: what a slice, a narrowing, a batch and a save return, then one
  step per action.  That the budget stays a natural number rests on `Narrow`
  checking it before it spends it; that slices stay inside the folder rests on
  `Lowest` and `Highest` of finite sets.
- `LeavesOutForCause`: `Spec => []LeftOutForCause`, from the type invariant and
  the fact that a slice left out is one UID fetched without its structure.
- `RowsKeepTheirMessage`: `Spec => []RowsNameTheirMessage`.  The property is
  not inductive: a write that is still out, or a refresh between two steps,
  could break it next.  `NumberingInv` adds what the code relies on: no
  UIDVALIDITY in the store or in memory lies above the server's; whatever a
  detached batch carries under the current numbering names the server's
  messages; a refresh past its EXAMINE stands under the current numbering; and
  every message present lies below UIDNEXT, so an arrival never lands on a row.
  A renumbering then makes all of it stale at once, and `Pinned` keeps stale
  writes out.
- `FlagsAreShown`: `Spec /\ [](detached = {}) => []FlagsStand`, since a cut write
  that lands late breaks the property (4 above).  `FlagsInv` follows the two
  values of HIGHESTMODSEQ through a refresh: the one on record, from which
  CHANGEDSINCE asks, is not moved by the batches of the walk upward, and once
  CHANGEDSINCE is answered the rows show the flags up to the one EXAMINE gave,
  which goes on record last.  What the server changes meanwhile counts above
  both.  The first batch of a walk down takes the value of its EXAMINE, while
  the store has no row yet (`FlagsStore`).
- `NothingIsSkipped`: `Spec /\ []Whole => []NothingSkipped`.  `Whole` says that
  no write is cut from its turn and that no folder is both renumbered and left
  without a message; without either the property fails (4 and 1 above).
  `SkipInv` says what a walk still owes.  `Pending` are the UIDs it waits for,
  `Ordered` that every slice on its stack comes before what is under it, so
  narrowing, failing and carrying on never change what is pending, and the
  lowest UID on record has nothing pending above it.  Below the UIDNEXT of its
  EXAMINE a walk down, and up to its top a walk up, has accounted for whatever
  it does not wait for; once it waits for nothing, what goes on record is
  covered.  A walk kept across a renumbering still waits, so it meets its stale
  numbering at its next write (`RefreshSkip`).
- `RowsLeaveAsTheyMust`: `Spec /\ []Whole => RowsLeaveForCause`, an action
  property, from `SkipInv` and `RowsInv`: a message has one UID and one row
  (`NamedOnce`), so a row that leaves for an expunge is no other UID's; and
  what waits after a renumbering lies below the UIDNEXT of the EXAMINE
  (`WaitingInv`), so the write that finishes the first sync, having accounted
  for everything below it, drops no message the server still has.
- `ExpungesShow`: `Spec /\ []Whole => []ExpungeShows`, from `CountInv`.  The
  property compares the count on record with what the server has; the count is
  shown to be at least the number of UIDs below the UIDNEXT on record that are
  known (`Known`: present, or named by a row that did not slip in behind the
  first count), so a row the server expunged makes it too high by itself.  The
  first batch down puts the count of its EXAMINE there; a batch up adds what it
  was answered, which is at least what the record newly covers, because the
  walk waits for all the server has between the record and its top (`UpCount`).
  The last step puts MESSAGES of the pass there: where it fell short, the rows
  it does not count have just left; where it did not, it is at least the old
  count, and nothing lies between the two UIDNEXTs.

**ChangeLog** (`ChangesAssumption`): every finite set of objects, number of
writes and changes in a write, every horizon and cap.

- `ChangeLogTypeCorrect`, `NothingIsMissed` (`NothingMissed`) and
  `AnswersAreExact` (`AnswerExact`), all from `IInv`.  `LogInv` says that the
  log is an unbroken run of sequences up to the account's state whose rows tell
  of each object what happened to it under that sequence, so a state is
  calculable exactly where the run reaches down to it.  `HeldInv` says that
  whatever the client shows otherwise is named after its state, `RoundInv` that
  the answer in hand is exact and that landing it keeps `HeldInv`, also where
  writes came between the answer and the `/get`.  What the ledger of a write and
  the fold of an answer compute is proved by induction over the recursive
  functions `Written` and `Fates` (`WrittenFacts`, `FatesFacts`): a row of the
  log is the net effect of its write, a fate the net effect of the sequences
  folded.

**PendingLog** (`PendingAssumption`): every finite set of emails and mailboxes,
every set of tabs, every number of changes, meddling writes and faults, every
size of an `Email/set`.

- `ToastHoldsAlways` (`ToastHolds`), `TakesBackAlways` (`TakesBack`) and
  `NoChangeLostAlways` (`NoChangeLost`), all from `LogHolds`: `Spec => []IInv`.
  - `Fitting`: the rows of an email lead from what the server said of it to its
    header, each inverse undoing its patch.  Whoever lets rows go or lands a
    state refits what is left, so taking all of them back ends at what the
    server said; the same fact lets `Log` take the inverse from the header.
  - `Toasts`: the destroy of an open toast is held on the lease of its own tab,
    so a release, a drop or a lapse of another tab passes it by; `Ordered` keeps
    the sequence numbers apart, so one given out again names no other row.
  - `Outgoing`: with a row of an email every row of it that is not held is out,
    so what was sent is the last word of its email and a refusal or a settle
    leaves no half of it; `Answered` and `Took` say what the verdicts mean.
  - `Mail`: what is owed is the last word of the log or stands on the server,
    and where the server differs from what it said, another client wrote or a
    row that went out names the path.  So rows that never went out and end where
    they began can be cancelled (`Cancels`) and nothing owed is lost; with rows
    that may have gone out it would be (the mutant `CancelsSent`).
  - `Landing`: what lands is what the server has but for what others wrote
    since.
  What the recursive functions of the model compute (`Picked`, `Merged`,
  `Replayed`, `Unpatched`, `Refitted`) is proved by induction over the
  positions of the log.

**AccountGate** (`GateAssumption`): every number of handlers, consents, grants,
turns and faults.

- `GateTypeCorrect`: `Spec => []TypeOK`.
- `CredentialsStand` (`CredentialStands`), from `LockInv`: a handler between its
  read of the row and its write owns the account's lock or the history `cut`
  records that it was dropped (`Ways`, `OneOwner`); tokens on their way into the
  row are of a grant nobody else carries and the provider has not turned
  (`GrantsApart`); a refresh in flight goes by the row (`Agree`).  The proof
  would not close without counting a dropped replacement as cut; see 13 above.
- `ConsentsHold` (`ConsentHolds`), from `ConsentInv`: who works on a consent
  claimed it, alone, and what it is about to tell is what it stored.

**SignIn** (`SignInAssumption`): every number of requests in flight, permits,
secrets and tokens, every delay and lifetime; three users.

- `EventsAccountForSessions` (`LogAccountsForRows`) and
  `SessionsStandByPasswords` (`SessionsStand`), from `StoreInv` and `ReqInv`: a
  token names at most one row and a secret at most one user (`SecretsApart`); a
  one-time password that stands was handed out and opened nothing in time
  (`Spendable`, `Unspent`); and a sign-in about to open a session is one of a
  user that exists and, unless it was overtaken, verified the password that
  stands or stood until a sign-in spent it (`Holder`, `Current`).  So a sign-in
  that was not overtaken spends the very secret it verified, the row it inserts
  is the present password's, and no second one by the same secret follows.  The
  excuse cannot be dropped; see 11.

**Requests** (`RequestsAssumption`, `BodyFillAssumption`): every length of a
request, number of passes and faults, every size of the ring.

- `SubmissionsStand` (`SendsStand`), from `SendInv`: a message of a call is at
  the submission server only if the call's outcome was brought, or the task of
  the request is at that call and past that create, or the request runs no
  further (`StandSays`); and the task's own record says of each create before
  the one at hand what the server has of it (`TaskSays`).  So a call that asks
  again has sent nothing, each create meets a server without its message, and
  the counts of sends and of messages heard move together.
- `CallsStandAlways` (`CallsStand`), from `CallInv` over it.  Of the calls that a
  pass runs again, those up to the last write with its outcome are all writes
  with theirs (`DoneSays`), so the first need a pass leaves open lies behind
  everything done; that is what makes a write's outcome, taken at the row's place
  (`TakesGift`), tell exactly the writes before it, and what keeps the writes of
  later calls out of the rows a reading call is answered from (`PassSettles`).
  A write behind a reference is done only where the answer it refers to already
  stands, so the next pass resolves it again and tells it as done.  `AnswersAre`
  turns the answers of a pass, a recursive function, into an equation per call.
  For the hits, `HitInv` over it: the writes a request opens with (`AtHead`) all
  leave a need on the first pass, and while the row runs each of them without
  an outcome is needed and the row's place is one of them (`HeadSays`), so the
  row cannot end before the last has its outcome (`EndRowHits`) and every search
  runs after it; a query with a need lies behind everything done, so its search
  has no write from behind it (`SearchHits`).  The hits are never brought anew
  (`QuerySays`).  Nothing more holds of the writes between; see 14.

**Blobs** (`BlobsAssumption`): every finite number of uploads, quota, count, lifetime,
size of a message, window and channel.

- `KeptAsPromised`: `Spec => KeepsItsPromise`, the refinement of `BlobStore`.
  The mapping sees an upload as held once both files stand, and as settled once
  its last call is answered.  `StoreInv` (`Fits`) says which files may stand at
  each step of a call: a whole sidecar stands only behind a call that is over,
  so the promise sees nothing before the sidecar is written and everything at
  that step.  One lemma per action then names the step of the promise: `Keep`
  for the sidecar, `Evict` for the room made, `Expire` for the sweep, `Forget`
  for the removal, `Refuse`, `Leave`, `Restart` and `Older`, or a stutter.
- `EndsAreToldAsTheyWere` (`EndsAreTold`), from `StreamInv` and `BlameInv`.
  `Streams` says that what was read is what was got and what is queued, that an
  end is queued only behind the last octet, and that a range lies inside its
  blob; `Measured` that a blob being read keeps its length, which no action
  changes once it was decided (`IndexStays`); `Blames` that a proxy blames the
  upstream only where the client's own body did not end first.
- `RoomIsKept` (`WithinBounds`), from `LockInv` and `RoomInv`.  A call that made
  room and has not taken it yet counts as having taken it (`Adding`,
  `Starting`), since between the two steps another call may look.  `LockInv`
  says that a call which is not loose holds the lock of the map, so of the
  calls under way all but one are loose (`OneOutside`), and one that finds room
  leaves the others at most one block each past the quota.  What `Used` sums is
  proved by induction over the subsets of a finite set: every family of them has
  a smallest (`SmallestSet`), from the well-founded order of the library.

**ImapSession** (`WindowAssumption`, `LimitAssumption`, `ServersAssumption`): every
window, limit on UIDs, answers and lines, every way of taking literals, every
number of changes by others, whatever the server chatters during and requests are
dropped during.

- `SendsAlwaysFit`: `Spec => []SendsFit`, from `IInv`.
  - `Rest`: where a turn may begin a command the connection is quiet: nothing the
    server has yet to read, no tagged answer and no EXPUNGE unread.  After an
    abandoned command that comes from the NOOP of the kept session.  `Tags` says
    that what was left in flight carries one tag, and the NOOP another, so its
    tagged line is known and is the last thing the server wrote that is not news
    (`OwnLast`); EXPUNGE is news only while the server does a command.
  - `Selected` and `Opened`: the mailbox the turn opened is the one the server has
    selected, from the tagged OK of the open on; so writes land (`Works`).
  - `Counts`: the count kept is right once the unread lines are noted.  The
    property compares the count with what the server shows, which unread lines
    and other clients move apart.  `Bounded` states it without a sum: some bounds,
    one per unread line, start at the count or at an unread EXISTS, fall by at
    most one at an EXPUNGE, and end at most at what the server shows.  Each line
    read or written moves one end.  Where no EXPUNGE is unread the count is then
    no larger than the server's (`BoundedQuiet`), which is what a window needs.
  - `Literals` and `Trailing`: a literal in flight follows its opening or was asked
    for, and the server waits for it unless the request was dropped in between
    (`torn`), in which case the session never writes behind it but a NOOP.

Only model-checked, and why:

- Liveness and fairness are out of the prover's reach: `Converges`, `CatchesUp`,
  `Settles`, `ProbeResumes`, `LeavesNothing`, `EverythingEnds`.
- EmailSet, MailboxTree and EmailQuery have no theorems.  `EmailSet` and
  `MailboxTree` measure what was answered against what a mail server did over the
  whole history of a request, and the properties of `EmailQuery` compare sorts,
  pages and plans with a reference definition, which TLC does over all inputs of
  its bounds.
- `CountsAddUp` of PendingLog compares counts that stop at zero with sums over the
  rows of the log, and excuses the counts that a dropped answer skewed.
- `AnswersFit` of ImapSession speaks of every message that stood throughout a walk
  of several windows, so its invariant is about the sequence numbers of each
  message between the windows; `BodiesStand` of Requests follows a message through
  its sequence of jobs, sessions and windows, with renumberings between them.

No module declares a `RECURSIVE` operator.  Recursive functions and folds over
finite sets are within the prover's reach: the set of arguments a fact holds for is
shown to be closed, under successor or under one element more, which first-order
provers can do.

## Plan

Theorems left, in this order:

1. ImapSession: `AnswersFit`, on top of `IInv`: between two windows every message
   that stood lies below the next window or is found already.
2. Requests: `BodiesStand`, its part of a message's own body first.
3. EmailSet: `NeverBothLost`; MailboxTree: `DoneOnServer`.

## Not modelled

- **Client jobs and windows**: caches of reads, replaced by the next window;
  what they land over the pending log is `Fetch` of PendingLog.
- **Wire parsing, MIME, message building**: pure parsing and formatting, fuzzed
  in the repository.  The models take the results: an answer, a refusal, a line
  past its bound, a lost connection.
- **Discovery, presets, preferences, events**: lookups, and rows written in one
  statement.
- **A write that passed the check for a forgotten account** (`store/mod.rs:192`).
- **The web interface**: rendering over the client cache.
