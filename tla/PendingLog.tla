----------------------------- MODULE PendingLog -----------------------------
(***************************************************************************)
(* The client's log of changes the server has not acknowledged: the user   *)
(* changes emails at once, the worker of the cache sends the log, settles  *)
(* it by the answer and lays it over everything the server says meanwhile. *)
(*                                                                         *)
(* An email's state is the set of mailboxes and keywords it has, a patch   *)
(* a function from some of them to what they become.  Every operation of   *)
(* the worker runs under the account's lock; a request leaves the lock     *)
(* held while the server, other clients and the tabs move.                 *)
(***************************************************************************)
EXTENDS Integers, Sequences, FiniteSetsExt

CONSTANTS
    Emails, Mailboxes, Tabs,
    INBOX,           \* where every email starts
    SEEN,            \* the keyword of a message that was read
    MaxObjectsInSet, \* the emails one Email/set takes
    MaxChanges,      \* bound: the user's changes
    MaxMeddling,     \* bound: the writes of other clients
    MaxFaults,       \* bound: lost answers, waiting servers, crashes, capped rounds
    MaxTogether,     \* bound: all of these together
    OthersDestroy    \* whether another client may destroy an email

ASSUME PendingAssumption ==
    /\ IsFiniteSet(Emails) /\ IsFiniteSet(Mailboxes)
    /\ INBOX \in Mailboxes /\ SEEN \notin Mailboxes
    /\ MaxObjectsInSet \in Nat \ {0}
    /\ {MaxChanges, MaxMeddling, MaxFaults, MaxTogether} \subseteq Nat
    /\ OthersDestroy \in BOOLEAN

VARIABLES
    server,          \* email -> its state on the server, {} once destroyed
    news,            \* the emails and mailboxes changed since the stored states
    stored, header,  \* the emails the store holds a header of, and their states
    count,           \* mailbox -> its counts in the store
    log,             \* the rows of the pending log, by their sequence numbers
    worker,          \* the operation that holds the account's lock
    toasts,          \* tab -> the held destroys its open toasts can take back
    budget,          \* what is left of the bounds
    said, owed, unseen, skewed \* history

history == <<said, owed, unseen, skewed>>
vars == <<server, news, stored, header, count, log, worker, toasts, budget, history>>

Members == Mailboxes \cup {SEEN}
Gone == {}
NoPatch == [m \in {} |-> TRUE]
Idle == [phase |-> "idle", poll |-> FALSE, sent |-> {}, more |-> FALSE, verdict |-> NoPatch,
         mailboxes |-> NoPatch, emails |-> NoPatch, fresh |-> {}]

Spend(what) ==
    /\ budget[what] > 0 /\ budget.together > 0
    /\ budget' = [budget EXCEPT ![what] = @ - 1, !.together = @ - 1]

-----------------------------------------------------------------------------
(* Patches *)

Patched(state, patch) ==
    {m \in Members : IF m \in DOMAIN patch THEN patch[m] ELSE m \in state}

\* Each path set to what the state held before.
InverseOf(state, patch) == [m \in DOMAIN patch |-> m \in state]

\* The patch that takes an email out of every mailbox it stands in.
Emptied(state) == [m \in state \cap Mailboxes |-> FALSE]

Alters(state, patch) == Patched(state, patch) # state

Over(first, second) ==
    [m \in DOMAIN first \cup DOMAIN second |->
       IF m \in DOMAIN second THEN second[m] ELSE first[m]]

\* replayed: the rows laid over a state, the oldest first; a destroy empties
\* the mailboxes the email stands in then.
Replayed(state, rows) ==
    LET PatchAt(i, s) == IF rows[i].destroy THEN Emptied(s) ELSE rows[i].patch
        after[i \in 0..Len(rows)] ==
          IF i = 0 THEN state ELSE Patched(after[i - 1], PatchAt(i, after[i - 1]))
    IN [state |-> after[Len(rows)],
        rows |-> [i \in 1..Len(rows) |->
                    [rows[i] EXCEPT !.patch = PatchAt(i, after[i - 1]),
                                    !.inverse = InverseOf(after[i - 1], PatchAt(i, after[i - 1]))]]]

\* unpatched: the state before the rows, the newest undone first.
Unpatched(state, rows) ==
    LET before[i \in 0..Len(rows)] ==
          IF i = Len(rows) THEN state ELSE Patched(before[i + 1], rows[i + 1].inverse)
    IN before[0]

\* The rows that pass a test, in their order.
Picked(rows, Test(_)) ==
    LET picked[i \in 0..Len(rows)] ==
          IF i = 0 THEN <<>>
          ELSE IF Test(rows[i]) THEN Append(picked[i - 1], rows[i]) ELSE picked[i - 1]
    IN picked[Len(rows)]

RowsOf(rows, e) == Picked(rows, LAMBDA row : row.id = e)
Without(rows, seqs) == Picked(rows, LAMBDA row : row.seq \notin seqs)
Seqs(rows) == {rows[i].seq : i \in DOMAIN rows}
Ids(rows) == {rows[i].id : i \in DOMAIN rows}

\* mergedPatch: a later row wins a path an earlier one named.
Merged(rows) ==
    LET merged[i \in 0..Len(rows)] ==
          IF i = 0 THEN NoPatch ELSE Over(merged[i - 1], rows[i].patch)
    IN merged[Len(rows)]

\* The log with the rows of some emails replaced by others of the same
\* sequence numbers.
Refitted(rows, fitted) ==
    [i \in DOMAIN rows |->
       IF rows[i].id \in DOMAIN fitted
       THEN LET own == fitted[rows[i].id]
            IN own[CHOOSE j \in DOMAIN own : own[j].seq = rows[i].seq]
       ELSE rows[i]]

-----------------------------------------------------------------------------
(* Counts *)

Kinds == {"total", "unread"}

In(mailbox, kind, state) ==
    IF mailbox \in state /\ (kind = "unread" => SEEN \notin state) THEN 1 ELSE 0

\* How far the counts move when emails go from one state to another.
Moved(emails, before, after) ==
    [m \in Mailboxes |-> [k \in Kinds |->
       MapThenSumSet(LAMBDA e : In(m, k, after[e]) - In(m, k, before[e]), emails)]]

\* A count stops at zero.
Stopped(n) == IF n < 0 THEN 0 ELSE n

\* recounted: the mailboxes with a move counted in.
Recounted(counts, moves) ==
    [m \in Mailboxes |-> [k \in Kinds |-> Stopped(counts[m][k] + moves[m][k])]]

CountsOf(states) ==
    [m \in Mailboxes |-> [k \in Kinds |->
       Cardinality({e \in Emails : In(m, k, states[e]) = 1})]]

\* pendingMoves: how far the rows move the counts away from what their
\* inverses say the server holds.
PendingMoves(standing, states, rows) ==
    Moved(standing \cap Ids(rows),
          [e \in Emails |-> Unpatched(states[e], RowsOf(rows, e))], states)

-----------------------------------------------------------------------------
(* The rows of the log *)

\* takeBack: the rows `leaving` leave the log; each email they change goes
\* back to what the server holds with its other rows laid over it again.
TakenBack(leaving) ==
    LET stays == Without(log, leaving)
        known == stored \cap {log[i].id : i \in {j \in DOMAIN log : log[j].seq \in leaving}}
        replay == [e \in known |-> Replayed(Unpatched(header[e], RowsOf(log, e)),
                                            RowsOf(stays, e))]
        after == [e \in Emails |-> IF e \in known THEN replay[e].state ELSE header[e]]
    IN [log |-> Refitted(stays, [e \in known |-> replay[e].rows]),
        header |-> after,
        count |-> Recounted(count, Moved(known, header, after))]

\* Every path ends where the first row that names it found it.
EndsWhereFound(rows) ==
    LET merged == Merged(rows) IN
    \A m \in DOMAIN merged :
       LET first == CHOOSE i \in DOMAIN rows :
                      /\ m \in DOMAIN rows[i].inverse
                      /\ \A j \in 1..(i - 1) : m \notin DOMAIN rows[j].inverse
       IN rows[first].inverse[m] = merged[m]

\* Mutant: rows that went out are dropped too.
CancelsSent(rows) == (\A i \in DOMAIN rows : ~rows[i].destroy) /\ EndsWhereFound(rows)

\* cancels: none of the rows went out or destroys, and they add up to
\* nothing.
Cancels(rows) ==
    /\ \A i \in DOMAIN rows : ~rows[i].sent /\ ~rows[i].destroy
    /\ EndsWhereFound(rows)

\* Whether a tab holds the lease its destroys were logged under.
Live(tab) == toasts[tab] # {}

\* Mutants: every held destroy goes out; none of a lapsed lease does.
LapsedAll(rows) == [i \in DOMAIN rows |-> [rows[i] EXCEPT !.held = FALSE]]
LapsedNever(rows) == rows

\* releaseLapsed: the held destroys of tabs that hold no lease go out.
Lapsed(rows) ==
    [i \in DOMAIN rows |->
       [rows[i] EXCEPT !.held = @ /\ Live(rows[i].lease)]]

\* firstEmails: every row of the first emails a set may name.
FirstEmails(rows) ==
    LET Rank(e) == Min({i \in DOMAIN rows : rows[i].id = e})
        First(row) == Cardinality({e \in Ids(rows) : Rank(e) < Rank(row.id)}) < MaxObjectsInSet
    IN Picked(rows, First)

Ready(rows) == Picked(rows, LAMBDA row : ~row.held)
PatchesOf(e) == Picked(log, LAMBDA row : row.id = e /\ ~row.destroy)

\* The rows that are out with the request.
Out(row) == row.seq \in worker.sent
Sent(e) == Picked(log, LAMBDA row : row.id = e /\ Out(row))
SentIds == {log[i].id : i \in {j \in DOMAIN log : Out(log[j])}}
Destroying(e) == \E i \in DOMAIN log : log[i].id = e /\ log[i].destroy /\ Out(log[i])
With(word) == {e \in DOMAIN worker.verdict : worker.verdict[e] = word}
SentOf(emails) == {log[i].seq : i \in {j \in DOMAIN log : Out(log[j]) /\ log[j].id \in emails}}

Disowed(e, patch) == [m \in DOMAIN owed[e] \ DOMAIN patch |-> owed[e][m]]

-----------------------------------------------------------------------------
Init ==
    /\ server = [e \in Emails |-> {INBOX}] /\ news = {}
    /\ stored = Emails /\ header = server /\ said = server
    /\ count = CountsOf(server)
    /\ log = <<>> /\ worker = Idle
    /\ toasts = [t \in Tabs |-> {}]
    /\ budget = [changes |-> MaxChanges, meddling |-> MaxMeddling, faults |-> MaxFaults,
                  together |-> MaxTogether]
    /\ owed = [e \in Emails |-> NoPatch] /\ unseen = [e \in Emails |-> {}]
    /\ skewed = FALSE

-----------------------------------------------------------------------------
(* The user, in a tab *)

\* A keyword set or unset, a move from one mailbox to another.
UserPatches ==
    {[m \in {SEEN} |-> v] : v \in BOOLEAN}
      \cup {[m \in {p[1], p[2]} |-> m = p[2]] :
              p \in {q \in Mailboxes \X Mailboxes : q[1] # q[2]}}

\* stepOf and restate: the row one change logs, the header and the counts
\* once it moved something.
Log(e, patch, destroy, lease) ==
    /\ worker = Idle /\ Spend("changes")
    /\ e \in stored
    /\ ~\E i \in DOMAIN log : log[i].id = e /\ log[i].destroy
    /\ Alters(header[e], patch)
    /\ log' = Append(log, [seq |-> IF log = <<>> THEN 1 ELSE log[Len(log)].seq + 1,
                           id |-> e, patch |-> patch, inverse |-> InverseOf(header[e], patch),
                           sent |-> FALSE, destroy |-> destroy, held |-> destroy,
                           lease |-> lease])
    /\ header' = [header EXCEPT ![e] = Patched(@, patch)]
    /\ count' = Recounted(count, Moved({e}, header, header'))
    /\ UNCHANGED <<server, news, stored, worker, said, unseen, skewed>>

Change ==
    \E e \in Emails, patch \in UserPatches, t \in Tabs :
       /\ Log(e, patch, FALSE, t)
       /\ owed' = [owed EXCEPT ![e] =
                     Over(@, [m \in DOMAIN patch \ unseen[e] |-> patch[m]])]
       /\ UNCHANGED toasts

\* Delete forever: the destroy waits, held on the lease of the tab.
Destroy ==
    \E e \in Emails, t \in Tabs :
       /\ Log(e, Emptied(header[e]), TRUE, t)
       /\ toasts' = [toasts EXCEPT ![t] = @ \cup {[seq |-> log'[Len(log')].seq, id |-> e]}]
       /\ UNCHANGED owed

\* A toast ends: the held destroy goes out with the next flush.
Release ==
    /\ worker = Idle
    /\ \E t \in Tabs : \E x \in toasts[t] :
         /\ log' = [i \in DOMAIN log |-> [log[i] EXCEPT !.held = @ /\ log[i].seq # x.seq]]
         /\ toasts' = [toasts EXCEPT ![t] = @ \ {x}]
    /\ UNCHANGED <<server, news, stored, header, count, worker, budget, history>>

\* Undo of a delete forever; a destroy no longer held is past it.
Drop ==
    /\ worker = Idle
    /\ \E t \in Tabs : \E x \in toasts[t] :
         LET held == {i \in DOMAIN log : log[i].seq = x.seq /\ log[i].held}
             back == TakenBack({log[i].seq : i \in held})
         IN /\ log' = back.log /\ header' = back.header /\ count' = back.count
            /\ toasts' = [toasts EXCEPT ![t] = @ \ {x}]
    /\ UNCHANGED <<server, news, stored, worker, budget, history>>

\* A tab dies with its toasts, or the call that ends one fails: the lease
\* goes either way.
LeaseLost ==
    /\ Spend("faults")
    /\ \E t \in Tabs : \E x \in toasts[t] : \E kept \in {{}, toasts[t] \ {x}} :
         toasts' = [toasts EXCEPT ![t] = kept]
    /\ UNCHANGED <<server, news, stored, header, count, log, worker, history>>

-----------------------------------------------------------------------------
(* The server and its other clients *)

Touched(before, after) ==
    {e \in Emails : before[e] # after[e]}
      \cup {m \in Mailboxes : \E e \in Emails, k \in Kinds : In(m, k, before[e]) # In(m, k, after[e])}

\* Another client writes; what a round asked for before it is news again.
Meddle ==
    /\ Spend("meddling")
    /\ \E e \in Emails : \E patch \in UserPatches \cup {Emptied(server[e])} :
         /\ server[e] # Gone
         /\ LET new == Patched(server[e], patch)
            IN /\ new # server[e]
               /\ patch = Emptied(server[e]) => OthersDestroy
               /\ server' = [server EXCEPT ![e] = IF new \cap Mailboxes = {} THEN Gone ELSE new]
               /\ owed' = [owed EXCEPT ![e] = IF server'[e] = Gone THEN NoPatch
                                              ELSE Disowed(e, patch)]
               /\ unseen' = [unseen EXCEPT ![e] = @ \cup DOMAIN patch]
    /\ news' = news \cup Touched(server, server')
    /\ worker' = [worker EXCEPT !.fresh = @ \ Touched(server, server')]
    /\ UNCHANGED <<stored, header, count, log, toasts, said, skewed>>

\* The server takes, refuses or cannot reach each email of an Email/set; it
\* keeps no email in no mailbox.
Serve ==
    /\ worker.phase = "out"
    /\ \E choice \in [SentIds -> {"took", "refused", "waits"}] :
         LET Written(e) == IF Destroying(e) THEN Gone
                           ELSE Patched(server[e], Merged(Sent(e)))
             Word(e) == IF choice[e] = "waits" THEN "waits"
                        ELSE IF server[e] = Gone THEN IF Destroying(e) THEN "gone" ELSE "refused"
                        ELSE IF choice[e] = "took" /\ Destroying(e) THEN "gone" ELSE choice[e]
             taken == {e \in SentIds : choice[e] = "took" /\ server[e] # Gone}
         IN /\ IF \E e \in SentIds : choice[e] = "waits" THEN Spend("faults") ELSE UNCHANGED budget
            /\ \A e \in taken : Destroying(e) \/ Written(e) \cap Mailboxes # {}
            /\ server' = [e \in Emails |-> IF e \in taken THEN Written(e) ELSE server[e]]
            /\ owed' = [e \in Emails |-> IF e \notin taken THEN owed[e]
                                         ELSE IF Destroying(e) THEN NoPatch
                                         ELSE Disowed(e, Merged(Sent(e)))]
            /\ worker' = [worker EXCEPT !.phase = "answered",
                                        !.verdict = [e \in SentIds |-> Word(e)]]
    /\ news' = news \cup Touched(server, server')
    /\ UNCHANGED <<stored, header, count, log, toasts, said, unseen, skewed>>

-----------------------------------------------------------------------------
(* A flush of the log *)

\* The flush timer, or a poll, takes the lock and releases what lapsed.
Flush ==
    /\ worker = Idle
    /\ \E poll \in BOOLEAN :
         /\ log # <<>> \/ (poll /\ news # {})
         /\ worker' = [Idle EXCEPT !.phase = "cancel", !.poll = poll]
    /\ log' = Lapsed(log)
    /\ UNCHANGED <<server, news, stored, header, count, toasts, budget, history>>

\* dropCanceled: rows that add up to nothing cost no request.
Cancel ==
    /\ worker.phase = "cancel"
    /\ LET canceled == {e \in Ids(log) : Cancels(RowsOf(log, e))}
       IN log' = Without(log, {log[i].seq : i \in {j \in DOMAIN log : log[j].id \in canceled}})
    /\ worker' = [worker EXCEPT !.phase = "send"]
    /\ UNCHANGED <<server, news, stored, header, count, toasts, budget, history>>

\* The worker once its flush ended: a poll goes on to the change logs.
Flushed == [Idle EXCEPT !.phase = IF worker.poll THEN "round" ELSE "idle"]

\* What goes out is marked before it does.
Send ==
    /\ worker.phase = "send"
    /\ LET ready == Ready(log)
           sent == Seqs(FirstEmails(ready))
       IN IF ready = <<>> THEN worker' = Flushed /\ UNCHANGED log
          ELSE /\ worker' = [worker EXCEPT !.phase = "out", !.sent = sent,
                                           !.more = Cardinality(sent) < Len(ready)]
               /\ log' = [i \in DOMAIN log |->
                            [log[i] EXCEPT !.sent = @ \/ log[i].seq \in sent]]
    /\ UNCHANGED <<server, news, stored, header, count, toasts, budget, history>>

\* The request brings no answer, before or after the server took it.
NoAnswer ==
    /\ worker.phase \in {"out", "answered"} /\ Spend("faults")
    /\ worker' = Flushed
    /\ UNCHANGED <<server, news, stored, header, count, log, toasts, history>>

\* settle, first write: the refused rows are taken back.
Refuse ==
    /\ worker.phase = "answered"
    /\ LET back == TakenBack(SentOf(With("refused")))
       IN /\ log' = back.log /\ header' = back.header /\ count' = back.count
    /\ owed' = [e \in Emails |-> IF e \in With("refused")
                                 THEN Disowed(e, Merged(Sent(e))) ELSE owed[e]]
    /\ unseen' = [e \in Emails |-> IF e \in With("refused")
                                   THEN {m \in Members : (m \in server[e]) # (m \in said[e])}
                                   ELSE unseen[e]]
    /\ worker' = [worker EXCEPT !.phase = "settle"]
    /\ UNCHANGED <<server, news, stored, toasts, budget, said, skewed>>

\* settle, second write: a destroyed email leaves with every row of it, an
\* acknowledged row leaves, a waiting one stays.
Settle ==
    /\ worker.phase = "settle"
    /\ LET gone == With("gone")
           took == With("took")
       IN /\ log' = Without(log, SentOf(took)
                              \cup {log[i].seq : i \in {j \in DOMAIN log : log[j].id \in gone}})
          /\ stored' = stored \ gone
          /\ said' = [e \in Emails |-> IF e \in took THEN Patched(said[e], Merged(Sent(e)))
                                       ELSE said[e]]
    /\ worker' = IF worker.more /\ With("waits") = {}
                 THEN [Idle EXCEPT !.phase = "cancel", !.poll = worker.poll] ELSE Flushed
    /\ UNCHANGED <<server, news, header, count, toasts, budget, owed, unseen, skewed>>

-----------------------------------------------------------------------------
(* A round of the change logs, and a list or a thread fetched *)

\* The mailboxes a round names, as the server counts them then.
AskMailboxes ==
    /\ worker.phase = "round"
    /\ worker' = [worker EXCEPT !.phase = "emails", !.fresh = news \cap Mailboxes,
                    !.mailboxes = [m \in news \cap Mailboxes |-> CountsOf(server)[m]]]
    /\ UNCHANGED <<server, news, stored, header, count, log, toasts, budget, history>>

\* The emails it names, a moment later; a capped answer names some of them.
AskEmails ==
    /\ worker.phase = "emails"
    /\ \E named \in SUBSET (news \cap Emails) :
         /\ IF named = news \cap Emails THEN UNCHANGED budget ELSE Spend("faults")
         /\ worker' = [worker EXCEPT !.phase = "land", !.fresh = @ \cup named,
                         !.more = named # news \cap Emails,
                         !.emails = [e \in named |-> server[e]]]
    /\ UNCHANGED <<server, news, stored, header, count, log, toasts, history>>

\* The paths the rows of an email name.
PathsOf(e) == UNION {DOMAIN log[i].patch : i \in {j \in DOMAIN log : log[j].id = e}}

\* History: a landing takes an email away under its rows, changes it in a
\* path they do not name, or counts a change of one that does not land.
Skews(states, counts) ==
    \/ \E e \in DOMAIN states \cap stored \cap Ids(log) :
         \/ states[e] = Gone
         \/ \E m \in Members \ PathsOf(e) :
              (m \in states[e]) # (m \in said[e])
    \/ \E e \in stored \ DOMAIN states, m \in DOMAIN counts, k \in Kinds :
         In(m, k, said[e]) # In(m, k, server[e])

\* Mutant: the inverses stay as they were logged.
RelaidBare(states) ==
    [header |-> [e \in Emails |-> IF e \in DOMAIN states
                                  THEN Replayed(states[e], RowsOf(log, e)).state ELSE header[e]],
     log |-> log]

\* relaidHeaders: the states that land with the rows of their emails laid
\* over them, and the log with the inverses that fit.
Relaid(states) ==
    LET replay == [e \in DOMAIN states |-> Replayed(states[e], RowsOf(log, e))]
    IN [header |-> [e \in Emails |-> IF e \in DOMAIN states THEN replay[e].state ELSE header[e]],
        log |-> Refitted(log, [e \in DOMAIN states |-> replay[e].rows])]

\* Mutant: a mailbox lands as the server counts it.
RelaidCountsBare(laid, landing) ==
    [m \in Mailboxes |-> IF m \in DOMAIN landing THEN landing[m] ELSE count[m]]

\* relaidMailboxes: a row that lands takes the pending moves again, one that
\* does not the difference a refit makes.
RelaidCounts(laid, landing) ==
    LET moves == PendingMoves(stored, laid.header, laid.log)
        was == PendingMoves(stored, laid.header, log)
    IN [m \in Mailboxes |-> [k \in Kinds |->
          IF m \in DOMAIN landing THEN Stopped(landing[m][k] + moves[m][k])
          ELSE IF laid.log # log THEN Stopped(count[m][k] + moves[m][k] - was[m][k])
          ELSE count[m][k]]]

\* The round lands in one batch with the states it leads to.
Land ==
    /\ worker.phase = "land"
    /\ LET named == DOMAIN worker.emails
           leaving == {e \in named : worker.emails[e] = Gone}
           landed == (named \ leaving) \cap stored
           laid == Relaid([e \in landed |-> worker.emails[e]])
       IN /\ header' = laid.header /\ log' = laid.log
          /\ count' = RelaidCounts(laid, worker.mailboxes)
          /\ skewed' = (skewed \/ Skews(worker.emails, worker.mailboxes))
          /\ stored' = stored \ leaving
          /\ said' = [e \in Emails |-> IF e \in landed THEN worker.emails[e] ELSE said[e]]
          /\ unseen' = [e \in Emails |-> IF e \in landed /\ worker.emails[e] = server[e]
                                         THEN {} ELSE unseen[e]]
    /\ news' = news \ worker.fresh
    /\ worker' = IF worker.more THEN [Idle EXCEPT !.phase = "emails"] ELSE Idle
    /\ UNCHANGED <<server, toasts, budget, owed>>

\* A list or a thread is fetched: its headers land, no mailbox does.
Fetch ==
    /\ worker = Idle
    /\ \E e \in Emails :
         /\ server[e] # Gone
         /\ LET laid == Relaid([x \in {e} |-> server[e]])
            IN header' = laid.header /\ log' = laid.log
         /\ stored' = stored \cup {e}
         /\ said' = [said EXCEPT ![e] = server[e]]
         /\ unseen' = [unseen EXCEPT ![e] = {}]
         /\ skewed' = (skewed \/ Skews([x \in {e} |-> server[e]], NoPatch))
    /\ UNCHANGED <<server, news, count, worker, toasts, budget, owed>>

\* The worker dies or a round fails: what it committed
\* stays.
Crash ==
    /\ worker # Idle /\ Spend("faults")
    /\ worker' = Idle
    /\ UNCHANGED <<server, news, stored, header, count, log, toasts, history>>

User == Change \/ Destroy
Worker == \/ Flush \/ Cancel \/ Send \/ Refuse \/ Settle
          \/ AskMailboxes \/ AskEmails \/ Land
Next == \/ User \/ Release \/ Drop \/ LeaseLost \/ Meddle \/ Serve
        \/ Worker \/ NoAnswer \/ Fetch \/ Crash

Spec == Init /\ [][Next]_vars

\* Polls come at their interval and a request ends in an answer or a fault;
\* a toast runs out, and the lock, which queues in order, lets its call in.
Fairness == WF_vars(Worker \/ Serve) /\ SF_vars(Release \/ Drop)

FairSpec == Spec /\ Fairness

-----------------------------------------------------------------------------
(* Properties *)

\* The type of the state: the log by growing sequence numbers, a row held
\* only if it destroys, no count below zero.
TypeOK ==
    /\ server \in [Emails -> SUBSET Members] /\ header \in [Emails -> SUBSET Members]
    /\ said \in [Emails -> SUBSET Members]
    /\ news \subseteq Emails \cup Mailboxes /\ stored \subseteq Emails
    /\ \A m \in Mailboxes, k \in Kinds : count[m][k] \in Nat
    /\ \A i \in DOMAIN log :
         /\ log[i].id \in Emails /\ log[i].lease \in Tabs
         /\ DOMAIN log[i].patch \subseteq Members
         /\ DOMAIN log[i].inverse = DOMAIN log[i].patch
         /\ log[i].held => log[i].destroy /\ ~log[i].sent
         /\ \A j \in 1..(i - 1) : log[j].seq < log[i].seq
    /\ worker.sent \subseteq Nat
    /\ \A t \in Tabs : \A x \in toasts[t] : x.seq \in Nat /\ x.id \in Emails

\* Taking every row of an email back gives what the server said of it last,
\* in a landing or by taking a change, whatever landed, failed or was taken
\* back in between.
TakesBack ==
    \A e \in stored : Unpatched(header[e], RowsOf(log, e)) = said[e]

\* What the user set last on an email goes out with the log or stands on the
\* server already, until the server refuses it or another client writes the
\* same path: an answer that was lost, a crash or an undo loses nothing.
NoChangeLost ==
    \A e \in Emails :
        LET merged == Merged(PatchesOf(e))
        IN \A m \in DOMAIN owed[e] :
           \/ m \in DOMAIN merged /\ merged[m] = owed[e][m]
           \/ (m \in server[e]) = owed[e][m]
           \/ server[e] = Gone

\* A destroy whose toast is open in a live tab is in the log and held, so it
\* can still be taken back; a sequence number given out again names no other.
ToastHolds ==
    \A t \in Tabs : \A x \in toasts[t] :
        \E i \in DOMAIN log : log[i].seq = x.seq /\ log[i].id = x.id /\ log[i].held

\* The cache has settled: no change waits, nothing is news, nothing runs.
Settled == log = <<>> /\ news = {} /\ worker = Idle

\* A settled cache counts what the server counts, unless a landing skewed
\* the log: the moves a change, a refusal, an undo, a lost answer and a
\* landing make add up.
CountsAddUp == (Settled /\ ~skewed) => count = CountsOf(server)

\* Once the user, the other clients and the faults rest, every change and
\* every destroy leaves the log and the cache shows the server's emails.
Settles ==
    <>[](log = <<>> /\ \A e \in stored : header[e] = server[e])

=============================================================================
