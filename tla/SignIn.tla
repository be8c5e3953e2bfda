------------------------------- MODULE SignIn -------------------------------
(***************************************************************************)
(* Signing in to the server: the users' passwords, the one-time passwords  *)
(* an admin hands out, the session rows behind the browsers' cookies, the  *)
(* limiter of failed attempts and the gate that admits a few hashes at a   *)
(* time.                                                                   *)
(*                                                                         *)
(* A request is a handler of the API.  It awaits the gate and the blocking *)
(* task its work runs in; inside the task every read and every transaction *)
(* of the store is a step of its own, since the hashing runs between them  *)
(* outside the store's lock.  A client that goes away drops its handler,   *)
(* and with it the permit, while the blocking task runs on.                *)
(*                                                                         *)
(* A secret is a number, never handed out twice, 0 being no password or a  *)
(* wrong one.  A row's token and its id change together and are one number *)
(* here.  Time is counted in units of the touch interval.                  *)
(***************************************************************************)
EXTENDS Integers, FiniteSets

CONSTANTS
  MaxRequests,            \* requests in flight at once
  FREE_FAILURES, INITIAL_DELAY, MAX_DELAY, FORGET_AFTER,
  IDLE, ABSOLUTE, TOUCH_INTERVAL, ONE_TIME_TTL, MONTH,
  Permits,                \* MAX_CONCURRENT_VERIFICATIONS
  MaxNow, MaxSecrets, MaxTokens, MaxAsked, MaxHung   \* bounds of the model

ASSUME SignInAssumption ==
  /\ {FREE_FAILURES, INITIAL_DELAY, MAX_DELAY, FORGET_AFTER, IDLE, ABSOLUTE,
      TOUCH_INTERVAL, ONE_TIME_TTL, MaxNow, MaxAsked, MaxHung} \subseteq Nat
  /\ {MONTH, Permits, MaxRequests} \subseteq Nat \ {0}
  /\ MaxNow >= 1 /\ MaxSecrets \in Nat \ {0, 1} /\ MaxTokens \in Nat \ {0, 1}
  /\ INITIAL_DELAY <= MAX_DELAY

VARIABLES
  users,      \* the rows of users: role, password and when it expires
  rows,       \* the rows of sessions
  log,        \* domain_events: how many of each kind, by user
  active,     \* the months of the user.active facts, by user
  limiter,    \* RateLimiter.entries
  permits,    \* verify_gate
  req,        \* what every request is doing
  cookie,     \* the token each browser holds
  now, secrets, tokens, asked, hung,
  gen,        \* history: changes and resets of each user's password
  handed,     \* history: one-time passwords handed out, by user
  bought,     \* history: sessions opened by a one-time password, by user
  worked      \* history: the same by the secret its sign-in sent

store == <<users, rows, log, active>>
count == <<secrets, tokens>>
history == <<gen, handed, bought, worked>>
vars == <<store, limiter, permits, req, cookie, now, count, asked, hung, history>>

Requests == 1..MaxRequests

Owner  == 1
Member == 2
Fresh  == 3                \* the user an admin creates
Users  == {Owner, Member, Fresh}
Browsers == 1..3
AtDesk == 1                \* the owner's browser
Away   == {2, 3}           \* the browsers of the other two
Roles  == {"none", "member", "admin", "owner"}
Rank   == [none |-> 0, member |-> 1, admin |-> 2, owner |-> 3]
Keys   == {<<"ip", 0>>} \cup ({"login", "password"} \X Users)

Ops    == {"login", "change", "reset", "create", "others", "other"}
Places == {"idle", "gate", "read", "act", "answer"}
Outs   == {"none", "verified", "onetime", "rejected", "unknown", "done", "failed", "refused"}

Idle == [op |-> "login", pc |-> "idle", browser |-> 1, user |-> Owner, target |-> 0,
         secret |-> 0, token |-> 0, seen |-> 0, forced |-> FALSE, role |-> "none",
         out |-> "none", gone |-> FALSE, vouched |-> 0, overtaken |-> FALSE]

TypeOK ==
  /\ users \in [Users -> [role: Roles, hash: 0..MaxSecrets, until: 0..(MaxNow + ONE_TIME_TTL)]]
  /\ rows \subseteq [token: 1..MaxTokens, user: Users, forced: BOOLEAN,
                     created: 0..MaxNow, seen: 0..MaxNow, gen: Nat, vouched: Nat,
                     overtaken: BOOLEAN]
  /\ log \in [Users -> [created: Nat, revoked: Nat, expired: Nat, failed: Nat]]
  /\ active \in [Users -> SUBSET (0..MaxNow)]
  /\ limiter \in [Keys -> [failures: Nat, last: 0..MaxNow, until: 0..(MaxNow + MAX_DELAY)]]
  /\ permits \in 0..Permits
  /\ req \in [Requests -> [op: Ops, pc: Places, browser: Browsers, user: Users,
                           target: 0..(MaxTokens + 3), secret: 0..MaxSecrets,
                           token: 0..MaxTokens, seen: 0..MaxNow, forced: BOOLEAN,
                           role: Roles, out: Outs, gone: BOOLEAN, vouched: Nat,
                           overtaken: BOOLEAN]]
  /\ cookie \in [Browsers -> 0..MaxTokens]
  /\ now \in 0..MaxNow /\ asked \in 0..MaxAsked /\ hung \in 0..MaxHung
  /\ secrets \in 1..MaxSecrets /\ tokens \in 1..MaxTokens
  /\ gen \in [Users -> Nat] /\ handed \in [Users -> Nat] /\ bought \in [Users -> Nat]
  /\ worked \in [1..MaxSecrets -> [intime: Nat, late: Nat]]

(***************************************************************************)
(* The limiter.                                                            *)
(***************************************************************************)
NoEntry == [failures |-> 0, last |-> 0, until |-> 0]

DelayAfter(failures) ==
  IF failures <= FREE_FAILURES THEN 0
  ELSE LET delay == INITIAL_DELAY * 2 ^ (failures - FREE_FAILURES - 1)
       IN  IF delay > MAX_DELAY THEN MAX_DELAY ELSE delay

Blocked(keys) == \E k \in keys : limiter[k].until > now

Failed(entry) ==
  LET failures == (IF now - entry.last >= FORGET_AFTER THEN 0 ELSE entry.failures) + 1
  IN  [failures |-> failures, last |-> now, until |-> now + DelayAfter(failures)]

RecordFailure(keys) ==
  limiter' = [k \in Keys |-> IF k \in keys THEN Failed(limiter[k]) ELSE limiter[k]]

RecordSuccess(keys) ==
  limiter' = [k \in Keys |-> IF k \in keys THEN NoEntry ELSE limiter[k]]

KeysOf(q) ==
  {<<"ip", 0>>, <<IF q.op = "login" THEN "login" ELSE "password", q.user>>}

(***************************************************************************)
(* Rows of sessions.                                                       *)
(***************************************************************************)
RowsOf(u) == {w \in rows : w.user = u}
Find(token) == {w \in rows : w.token = token}

\* Both timeouts, as a request is let in and as the sweep removes a row.
Expired(w) == now - w.seen >= IDLE \/ now - w.created >= ABSOLUTE

\* History of a row: the generation of the password it was inserted under,
\* that of the one its sign-in verified, and whether the sign-in was overtaken.
NewRow(token, u, forced, g, vouched, overtaken) ==
  [token |-> token, user |-> u, forced |-> forced, created |-> now, seen |-> now,
   gen |-> g, vouched |-> vouched, overtaken |-> overtaken]

WithEvents(l, u, kind, n) == [l EXCEPT ![u][kind] = @ + n]

RecordActivity(u) == active' = [active EXCEPT ![u] = @ \cup {now \div MONTH}]

\* What the transaction of a sign-in inserts; the password was verified
\* before it, and the row goes by the outcome alone.
InsertRow(q, forced) ==
  /\ tokens < MaxTokens
  /\ tokens' = tokens + 1
  /\ rows' = rows \cup {NewRow(tokens + 1, q.user, forced, gen[q.user], q.vouched, q.overtaken)}
  /\ log' = WithEvents(log, q.user, "created", 1)
  /\ RecordActivity(q.user)

\* Mutant: one event for all of them.
EndRowsOnce(u, ended) ==
  /\ rows' = rows \ ended
  /\ log' = WithEvents(log, u, "revoked", IF ended = {} THEN 0 ELSE 1)

\* Ending rows of a user, one event a row.
EndRows(u, ended) ==
  /\ rows' = rows \ ended
  /\ log' = WithEvents(log, u, "revoked", Cardinality(ended))

EndOthers(u, kept) == {w \in RowsOf(u) : w.token # kept}

(***************************************************************************)
(* A request arrives.                                                      *)
(***************************************************************************)
Arrives(r, q) ==
  /\ req[r].pc = "idle" /\ \A s \in 1..(r - 1) : req[s].pc # "idle"
  /\ asked < MaxAsked
  /\ asked' = asked + 1
  /\ req' = [req EXCEPT ![r] = q]
  /\ UNCHANGED <<store, limiter, permits, cookie, now, hung, count, history>>

\* POST /session: the limiter is asked before the gate.
ArriveLogin(r, b, u, secret) ==
  /\ secret \in {0, users[u].hash}
  /\ LET q == [Idle EXCEPT !.op = "login", !.pc = "gate", !.browser = b,
                           !.user = u, !.secret = secret]
     IN  ~Blocked(KeysOf(q)) /\ Arrives(r, q)

\* The session behind the browser's cookie, as Authenticated resolves it.
Authenticate(b) == {w \in Find(cookie[b]) : ~Expired(w)}

Asking(op, b, w) ==
  [Idle EXCEPT !.op = op, !.browser = b, !.user = w.user, !.token = w.token,
               !.seen = w.seen, !.forced = w.forced]

\* PUT /password: a forced session sends no current password.
ArriveChange(r, b, secret) ==
  \E w \in Authenticate(b) :
    /\ secret \in {0, users[w.user].hash}
    /\ w.forced => secret = 0
    /\ LET q == [Asking("change", b, w) EXCEPT !.pc = "gate", !.secret = secret]
       IN  ~Blocked(KeysOf(q)) /\ Arrives(r, q)

\* Full: a session a one-time password opened is refused.
Full(b) == {w \in Authenticate(b) : ~w.forced}

\* POST /users/{id}/password-reset and POST /users, both behind the gate.
ArriveReset(r, b, u) ==
  \E w \in Full(b) :
    Arrives(r, [Asking("reset", b, w) EXCEPT !.pc = "gate", !.target = u])

ArriveCreate(r, b) ==
  \E w \in Full(b) : Arrives(r, [Asking("create", b, w) EXCEPT !.pc = "gate"])

\* DELETE /sessions and DELETE /sessions/{id}, which hash nothing.
ArriveOthers(r, b) ==
  \E w \in Full(b) : Arrives(r, [Asking("others", b, w) EXCEPT !.pc = "read"])

ArriveOther(r, b, token) ==
  \E w \in Full(b) :
    /\ token \in {v.token : v \in RowsOf(w.user)} \ {w.token}
    /\ Arrives(r, [Asking("other", b, w) EXCEPT !.pc = "read", !.target = token])

(***************************************************************************)
(* The gate, and a client that goes away.                                  *)
(***************************************************************************)
Gated(q) == q.op \in {"login", "change", "reset", "create"}
Holds(q) == Gated(q) /\ ~q.gone /\ q.pc \in {"read", "act", "answer"}

Enter(r) ==
  /\ req[r].pc = "gate" /\ permits > 0
  /\ permits' = permits - 1
  /\ req' = [req EXCEPT ![r].pc = "read"]
  /\ UNCHANGED <<store, limiter, cookie, now, hung, count, asked, history>>

\* A handler dropped while it waits for the gate asks nothing any more; one
\* dropped while its task runs gives the permit back before the task ends.
HangUp(r) ==
  /\ req[r].pc \in {"gate", "read", "act"} /\ ~req[r].gone
  /\ hung < MaxHung /\ hung' = hung + 1
  /\ permits' = IF Holds(req[r]) THEN permits + 1 ELSE permits
  /\ req' = [req EXCEPT ![r] = IF @.pc = "gate" THEN Idle ELSE [@ EXCEPT !.gone = TRUE]]
  /\ UNCHANGED <<store, limiter, cookie, now, count, asked, history>>

(***************************************************************************)
(* The work of a sign-in.                                                  *)
(***************************************************************************)
Moves(r, q) == req' = [req EXCEPT ![r] = q]

Outcome(q) ==
  LET u == users[q.user]
      fits == q.secret # 0 /\ q.secret = u.hash
  IN  IF u.role = "none" THEN "unknown"
      ELSE IF fits /\ u.until = 0 THEN "verified"
      ELSE IF fits /\ now < u.until THEN "onetime"
      ELSE "rejected"

\* verify_login reads the row; the hash it compares is a copy.
VerifyLogin(r) ==
  /\ req[r].op = "login" /\ req[r].pc = "read"
  /\ Moves(r, [req[r] EXCEPT !.pc = "act", !.out = Outcome(req[r]),
                              !.vouched = gen[req[r].user]])
  /\ UNCHANGED <<store, limiter, permits, cookie, now, hung, count, asked, history>>

Rejects(r) ==
  /\ log' = IF req[r].out = "unknown" THEN log ELSE WithEvents(log, req[r].user, "failed", 1)
  /\ Moves(r, [req[r] EXCEPT !.pc = "answer", !.out = "failed"])
  /\ UNCHANGED <<users, rows, active, tokens, bought, worked>>

Opens(r, forced) ==
  /\ InsertRow(req[r], forced)
  /\ Moves(r, [req[r] EXCEPT !.pc = "answer", !.out = "done", !.token = tokens + 1])

\* Mutant: the password verified before is not looked for again.
SpendsAny(u) == TRUE

\* Whether the transaction finds a live one-time password to spend: any of
\* the user's, not the one that was verified.
Spends(u) == users[u].until > now

\* History: a session more by the secret the sign-in sent.
Worked(q) ==
  worked' = IF q.overtaken THEN [worked EXCEPT ![q.secret].late = @ + 1]
                           ELSE [worked EXCEPT ![q.secret].intime = @ + 1]

OpenSession(r) ==
  LET u == req[r].user IN
  /\ req[r].op = "login" /\ req[r].pc = "act"
  /\ CASE req[r].out = "verified" -> Opens(r, FALSE) /\ UNCHANGED <<users, bought, worked>>
       [] req[r].out = "onetime" /\ Spends(u) ->
            /\ Opens(r, TRUE)
            /\ users' = [users EXCEPT ![u].hash = 0, ![u].until = 0]
            /\ bought' = [bought EXCEPT ![u] = @ + 1]
            /\ Worked(req[r])
       [] OTHER -> Rejects(r)
  /\ UNCHANGED <<limiter, permits, cookie, now, hung, secrets, asked, gen, handed>>

(***************************************************************************)
(* The work of a password change.                                          *)
(***************************************************************************)
\* verify_password: a one-time password is no current password.
VerifyChange(r) ==
  LET q == req[r]
      u == users[q.user]
      fits == q.secret # 0 /\ u.until = 0 /\ q.secret = u.hash
  IN  /\ q.op = "change" /\ q.pc = "read"
      /\ Moves(r, IF q.forced \/ fits THEN [q EXCEPT !.pc = "act"]
                  ELSE [q EXCEPT !.pc = "answer", !.out = "failed"])
      /\ UNCHANGED <<store, limiter, permits, cookie, now, hung, count, asked, history>>

\* A sign-in that verified its password and has not opened its session.
Admitted(q) == q.op = "login" /\ q.pc = "act" /\ q.out \in {"verified", "onetime"}

\* The request moves on; history: its change or reset of a user's password
\* overtakes the sign-ins that verified the one before.
MovesPast(r, q, u) ==
  req' = [s \in Requests |->
            IF s = r THEN q
            ELSE IF Admitted(req[s]) /\ req[s].user = u
                 THEN [req[s] EXCEPT !.overtaken = TRUE] ELSE req[s]]

\* The row the change leaves: the current one on a fresh token.
Rotated(q) ==
  LET others == EndOthers(q.user, q.token) IN
  /\ rows' = (rows \ RowsOf(q.user)) \cup
       {NewRow(tokens + 1, q.user, FALSE, gen[q.user] + 1, gen[q.user] + 1, FALSE)}
  /\ log' = WithEvents(log, q.user, "revoked", Cardinality(others))

ApplyChange(r) ==
  LET q == req[r] IN
  /\ q.op = "change" /\ q.pc = "act"
  /\ IF \E w \in Find(q.token) : w.user = q.user
       THEN /\ tokens < MaxTokens /\ secrets < MaxSecrets
            /\ Rotated(q)
            /\ tokens' = tokens + 1 /\ secrets' = secrets + 1
            /\ users' = [users EXCEPT ![q.user].hash = secrets + 1, ![q.user].until = 0]
            /\ RecordActivity(q.user)
            /\ gen' = [gen EXCEPT ![q.user] = @ + 1]
            /\ MovesPast(r, [q EXCEPT !.pc = "answer", !.out = "done", !.token = tokens + 1],
                         q.user)
       ELSE /\ Moves(r, [q EXCEPT !.pc = "answer", !.out = "refused"])
            /\ UNCHANGED <<store, count, gen>>
  /\ UNCHANGED <<limiter, permits, cookie, now, hung, asked, handed, bought, worked>>

(***************************************************************************)
(* The admin's work, and ending one's other sessions.                      *)
(***************************************************************************)
Touched(w, token) == IF w.token = token THEN [w EXCEPT !.seen = now] ELSE w

\* At most one stamp an interval, by the last_seen_at the request was let
\* in with; a row that is gone meanwhile is not brought back.
Touch(q) ==
  IF now - q.seen >= TOUCH_INTERVAL
  THEN rows' = {Touched(w, q.token) : w \in rows} /\ RecordActivity(q.user)
  ELSE UNCHANGED <<rows, active>>

MayGrant(role) == Rank[role] >= Rank["admin"]

WithinReach(q) ==
  /\ q.target \in Users
  /\ users[q.target].role # "none"
  /\ Rank[users[q.target].role] <= Rank[q.role]

\* The scope is resolved, the session touched and what costs no hash is
\* checked; the role resolved here is the one the transaction goes by.
Prepare(r) ==
  LET role == users[req[r].user].role
      q == [req[r] EXCEPT !.role = role]
      passes == CASE q.op = "reset"  -> MayGrant(role) /\ q.target # q.user /\ WithinReach(q)
                  [] q.op = "create" -> MayGrant(role)
                  [] OTHER           -> TRUE
  IN  /\ req[r].op \in {"reset", "create", "others", "other"} /\ req[r].pc = "read"
      /\ Touch(q)
      /\ Moves(r, IF passes THEN [q EXCEPT !.pc = "act"]
                  ELSE [q EXCEPT !.pc = "answer", !.out = "refused"])
      /\ UNCHANGED <<users, log, limiter, permits, cookie, now, hung, count, asked, history>>

HandsOut(u, role) ==
  /\ secrets < MaxSecrets
  /\ secrets' = secrets + 1
  /\ users' = [users EXCEPT ![u] = [role |-> role, hash |-> secrets + 1,
                                    until |-> now + ONE_TIME_TTL]]
  /\ handed' = [handed EXCEPT ![u] = @ + 1]

RefusedOne(r) ==
  /\ Moves(r, [req[r] EXCEPT !.pc = "answer", !.out = "refused"])
  /\ UNCHANGED <<store, secrets, gen, handed>>

Answered(r) == [req[r] EXCEPT !.pc = "answer", !.out = "done"]

ApplyReset(r) ==
  LET q == req[r]
      u == q.target
  IN  /\ q.op = "reset" /\ q.pc = "act"
      /\ IF WithinReach(q)
           THEN /\ HandsOut(u, users[u].role)
                /\ EndRows(u, RowsOf(u))
                /\ gen' = [gen EXCEPT ![u] = @ + 1]
                /\ MovesPast(r, Answered(r), u)
                /\ UNCHANGED active
           ELSE RefusedOne(r)
      /\ UNCHANGED <<limiter, permits, cookie, now, hung, tokens, asked, bought, worked>>

\* The sign-in name is checked inside the transaction that inserts.
LoginTaken == users[Fresh].role # "none"

ApplyCreate(r) ==
  /\ req[r].op = "create" /\ req[r].pc = "act"
  /\ IF LoginTaken \/ ~MayGrant(req[r].role)
       THEN RefusedOne(r)
       ELSE /\ HandsOut(Fresh, "member")
            /\ Moves(r, Answered(r))
            /\ UNCHANGED <<rows, log, active, gen>>
  /\ UNCHANGED <<limiter, permits, cookie, now, hung, tokens, asked, bought, worked>>

ApplyOthers(r) ==
  /\ req[r].op = "others" /\ req[r].pc = "act"
  /\ EndRows(req[r].user, EndOthers(req[r].user, req[r].token))
  /\ Moves(r, Answered(r))
  /\ UNCHANGED <<users, active, limiter, permits, cookie, now, hung, count, asked, history>>

\* An id outside the user's rows is not found and nothing is recorded.
ApplyOther(r) ==
  /\ req[r].op = "other" /\ req[r].pc = "act"
  /\ EndRows(req[r].user, {w \in Find(req[r].target) : w.user = req[r].user})
  /\ Moves(r, Answered(r))
  /\ UNCHANGED <<users, active, limiter, permits, cookie, now, hung, count, asked, history>>

(***************************************************************************)
(* The answer.                                                             *)
(***************************************************************************)
\* A handler that answers drops its permit; one that was dropped has given
\* it back, and nobody hears what its task came to.
Returns(r) ==
  /\ req' = [req EXCEPT ![r] = Idle]
  /\ permits' = IF Holds(req[r]) THEN permits + 1 ELSE permits
  /\ UNCHANGED <<store, now, hung, count, asked, history>>

Recorded(q) ==
  IF q.out = "done"
  THEN RecordSuccess(KeysOf(q)) /\ cookie' = [cookie EXCEPT ![q.browser] = q.token]
  ELSE RecordFailure(KeysOf(q)) /\ UNCHANGED cookie

AnswerLogin(r) ==
  /\ req[r].op = "login" /\ req[r].pc = "answer" /\ ~req[r].gone
  /\ Recorded(req[r])
  /\ Returns(r)

\* A session that is gone answers 401 before anything is recorded.
AnswerChange(r) ==
  /\ req[r].op = "change" /\ req[r].pc = "answer" /\ ~req[r].gone
  /\ IF req[r].out = "refused" THEN UNCHANGED <<limiter, cookie>> ELSE Recorded(req[r])
  /\ Returns(r)

AnswerPlain(r) ==
  /\ req[r].pc = "answer" /\ (req[r].gone \/ req[r].op \notin {"login", "change"})
  /\ Returns(r)
  /\ UNCHANGED <<limiter, cookie>>

\* DELETE /session: the cookie names the row; an unknown token is a no-op.
SignOut(b) ==
  /\ cookie[b] # 0 /\ asked < MaxAsked
  /\ asked' = asked + 1
  /\ rows' = rows \ Find(cookie[b])
  /\ log' = [u \in Users |->
               [log[u] EXCEPT !.revoked = @ + Cardinality({w \in Find(cookie[b]) : w.user = u})]]
  /\ cookie' = [cookie EXCEPT ![b] = 0]
  /\ UNCHANGED <<users, active, limiter, permits, req, now, hung, count, history>>

(***************************************************************************)
(* The sweep, and time.                                                    *)
(***************************************************************************)
PruneExpired ==
  LET expired == {w \in rows : Expired(w)} IN
  /\ expired # {}
  /\ rows' = rows \ expired
  /\ log' = [u \in Users |->
               [log[u] EXCEPT !.expired = @ + Cardinality({w \in expired : w.user = u})]]
  /\ UNCHANGED <<users, active, limiter, permits, req, cookie, now, hung, count, asked, history>>

Tick ==
  /\ now < MaxNow
  /\ now' = now + 1
  /\ UNCHANGED <<store, limiter, permits, req, cookie, count, asked, hung, history>>

(***************************************************************************)
(* The specification.                                                      *)
(***************************************************************************)
Init ==
  /\ users = [u \in Users |->
                [role |-> IF u = Owner THEN "owner" ELSE IF u = Member THEN "member" ELSE "none",
                 hash |-> IF u = Fresh THEN 0 ELSE u, until |-> 0]]
  /\ rows = {[token |-> u, user |-> u, forced |-> FALSE, created |-> 0, seen |-> 1,
               gen |-> 0, vouched |-> 0, overtaken |-> FALSE] : u \in {Owner, Member}}
  /\ log = [u \in Users |-> [created |-> IF u = Fresh THEN 0 ELSE 1,
                             revoked |-> 0, expired |-> 0, failed |-> 0]]
  /\ active = [u \in Users |-> IF u = Fresh THEN {} ELSE {0}]
  /\ limiter = [k \in Keys |-> NoEntry]
  /\ permits = Permits
  /\ req = [r \in Requests |-> Idle]
  /\ cookie = [b \in Browsers |-> IF b = 3 THEN 0 ELSE b]
  /\ now = 1 /\ secrets = 2 /\ tokens = 2 /\ asked = 0 /\ hung = 0
  /\ gen = [u \in Users |-> 0]
  /\ handed = [u \in Users |-> 0]
  /\ bought = [u \in Users |-> 0]
  /\ worked = [s \in 1..MaxSecrets |-> [intime |-> 0, late |-> 0]]

\* The owner administers; the others sign in, change their password and end
\* sessions.
Arrival(r) ==
  \/ \E u \in {Member, Fresh}, s \in 0..MaxSecrets : ArriveLogin(r, 3, u, s)
  \/ \E b \in Away, s \in 0..MaxSecrets : ArriveChange(r, b, s)
  \/ \E u \in {Member, Fresh} : ArriveReset(r, AtDesk, u)
  \/ ArriveCreate(r, AtDesk)
  \/ ArriveOthers(r, 2)
  \/ \E t \in 1..MaxTokens : ArriveOther(r, 2, t)

Works(r) ==
  \/ VerifyLogin(r) \/ OpenSession(r)
  \/ VerifyChange(r) \/ ApplyChange(r)
  \/ Prepare(r) \/ ApplyReset(r) \/ ApplyCreate(r) \/ ApplyOthers(r) \/ ApplyOther(r)
  \/ AnswerLogin(r) \/ AnswerChange(r) \/ AnswerPlain(r)

Next ==
  \/ \E r \in Requests : Arrival(r) \/ Enter(r) \/ HangUp(r) \/ Works(r)
  \/ \E b \in Away : SignOut(b)
  \/ PruneExpired
  \/ Tick

Spec == Init /\ [][Next]_vars

(***************************************************************************)
(* Properties.                                                             *)
(***************************************************************************)
\* The event log accounts for every row: what was created and neither
\* revoked nor expired is there, whatever ended it (sign-out, revocation, a
\* password change, a reset, the sweep) and whatever raced it.
LogAccountsForRows ==
  \A u \in Users :
    log[u].created = log[u].revoked + log[u].expired + Cardinality(RowsOf(u))

\* A change and a reset that committed ended every session that stood, the
\* rotated one aside; and a session stands by the password its user has, but
\* for one whose sign-in had verified the one before when the change or reset
\* overtook it.
NoOlderRow ==
  \A w \in rows : w.gen = gen[w.user] /\ (w.vouched = gen[w.user] \/ w.overtaken)

\* A one-time password buys one session: where a forced row stands the
\* password it spent is gone and there is no second one, never more of them
\* were opened than secrets handed out, and no secret opened two by sign-ins
\* that no reset overtook.
OneTimeHolds ==
  /\ \A w \in rows : w.forced =>
       users[w.user].hash = 0 /\ \A v \in rows : v.forced /\ v.user = w.user => v = w
  /\ \A u \in Users : bought[u] <= handed[u]
  /\ \A s \in 1..MaxSecrets : worked[s].intime <= 1

\* A session stands by the password its user has, and a one-time password
\* buys the one it opens, wherever no change or reset falls between the check
\* of a sign-in and its transaction (session/password.rs, session/open.rs).
SessionsStand == NoOlderRow /\ OneTimeHolds

\* A secret works exactly once even under concurrent attempts
\* (session/open.rs:61): no one-time password opens two sessions.  Stated as
\* the comment has it and no invariant: the README shows how it fails.
WorksOnce == \A s \in 1..MaxSecrets : worked[s].intime + worked[s].late <= 1
=============================================================================
