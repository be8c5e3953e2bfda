---------------------------- MODULE SignInProofs ----------------------------
(***************************************************************************)
(* What SignIn shows for every number of requests in flight, every setting *)
(* of the timeouts and every bound on secrets, tokens and time.            *)
(*                                                                         *)
(* Neither property is inductive alone.  That a one-time password buys one *)
(* session needs that a password that still stands has a hash no other     *)
(* user has, is not counted as spent and opened nothing yet, and that a    *)
(* sign-in that verified one finds that one or none unless it was          *)
(* overtaken; that a session stands by its user's password needs that the  *)
(* sign-ins about to open one, the overtaken aside, verified that one;     *)
(* that the log accounts for the rows needs that no two rows share a       *)
(* token, so that a touch keeps their number and a password change ends    *)
(* all of them but one; and a user created late needs to have no row and   *)
(* no sign-in in flight before.                                            *)
(***************************************************************************)
EXTENDS SignIn, FiniteSetTheorems, TLAPS

\* A request as the proofs need it: what a bound of the model caps is a Nat.
Asked ==
  [op: Ops, pc: Places, browser: Browsers, user: Users, target: Nat, secret: Nat,
   token: Nat, seen: Nat, forced: BOOLEAN, role: Roles, out: Outs, gone: BOOLEAN,
   vouched: Nat, overtaken: BOOLEAN]

Row == [token: Nat, user: Users, forced: BOOLEAN, created: Nat, seen: Nat, gen: Nat,
        vouched: Nat, overtaken: BOOLEAN]

StoreType ==
  /\ users \in [Users -> [role: Roles, hash: Nat, until: Nat]]
  /\ rows \in SUBSET Row
  /\ log \in [Users -> [created: Nat, revoked: Nat, expired: Nat, failed: Nat]]
  /\ now \in Nat /\ secrets \in Nat /\ tokens \in Nat
  /\ gen \in [Users -> Nat] /\ handed \in [Users -> Nat] /\ bought \in [Users -> Nat]
  /\ worked \in [1..MaxSecrets -> [intime: Nat, late: Nat]]

\* A token names one row, and none has a token not handed out yet.
TokensName ==
  /\ IsFiniteSet(rows)
  /\ \A w \in rows : w.token <= tokens
  /\ \A v, w \in rows : v.token = w.token => v = w

RowsVouched == \A w \in rows : users[w.user].role # "none"

\* A one-time password that stands has a hash and is one of those handed
\* out that opened nothing yet.
Standing(u) == IF users[u].until # 0 THEN 1 ELSE 0
Spendable ==
  \A u \in Users : /\ users[u].until # 0 => users[u].hash # 0
                   /\ bought[u] + Standing(u) <= handed[u]

\* No two users have one secret, and none is one not handed out yet.
SecretsApart ==
  \A u \in Users :
    /\ users[u].hash <= secrets
    /\ \A v \in Users : users[u].hash # 0 /\ users[v].hash = users[u].hash => v = u

\* A secret that is still to come, or stands as a one-time password, opened
\* nothing in time.
Unworked(s) == s \in 1..MaxSecrets => worked[s].intime = 0
Unspent ==
  /\ \A s \in 1..MaxSecrets : s > secrets => Unworked(s)
  /\ \A u \in Users : users[u].until # 0 => Unworked(users[u].hash)

StoreInv ==
  /\ StoreType /\ TokensName /\ RowsVouched /\ Spendable /\ SecretsApart /\ Unspent
  /\ LogAccountsForRows /\ NoOlderRow /\ OneTimeHolds

\* The password a sign-in verified is the user's still; the one-time one
\* may be spent by now.
Current(q) ==
  /\ q.vouched = gen[q.user]
  /\ q.out = "onetime" => users[q.user].until = 0 \/ users[q.user].hash = q.secret

\* A sign-in about to open a session is one of a user that exists, by the
\* password the user has unless it was overtaken.
Holder(q) == users[q.user].role # "none" /\ (~q.overtaken => Current(q))

ReqInv ==
  /\ req \in [Requests -> Asked]
  /\ \A r \in Requests : Admitted(req[r]) => Holder(req[r])

IInv == StoreInv /\ ReqInv

shown == <<users, rows, log, secrets, tokens, gen, handed, bought, worked>>

-----------------------------------------------------------------------------
(* Counting rows *)

\* Ending some rows of a finite set takes as many from its number.
LEMMA EndedCount ==
    ASSUME NEW R, IsFiniteSet(R), NEW E \in SUBSET R
    PROVE  /\ IsFiniteSet(R \ E) /\ IsFiniteSet(E)
           /\ Cardinality(R) \in Nat /\ Cardinality(E) \in Nat
           /\ Cardinality(R \ E) \in Nat
           /\ Cardinality(R) = Cardinality(R \ E) + Cardinality(E)
<1>1. IsFiniteSet(E) /\ IsFiniteSet(R \ E)
  BY FS_Subset, FS_Difference
<1>2. Cardinality(R \ E) = Cardinality(R) - Cardinality(R \cap E)
  BY FS_Difference, <1>1
<1>3. R \cap E = E
  OBVIOUS
<1>4. Cardinality(R) \in Nat /\ Cardinality(E) \in Nat /\ Cardinality(R \ E) \in Nat
  BY <1>1, FS_CardinalityType
<1>5. Cardinality(R \ E) = Cardinality(R) - Cardinality(E)
  BY <1>2, <1>3
<1>6. Cardinality(R) = Cardinality(R \ E) + Cardinality(E)
  BY <1>4, <1>5
<1> QED
  BY <1>1, <1>4, <1>6

\* The rows of a user are finitely many.
LEMMA UserRows ==
    ASSUME TokensName, NEW u
    PROVE  IsFiniteSet(RowsOf(u)) /\ Cardinality(RowsOf(u)) \in Nat
<1>1. RowsOf(u) \subseteq rows
  BY DEF RowsOf
<1> QED
  BY <1>1, FS_Subset, FS_CardinalityType DEF TokensName

-----------------------------------------------------------------------------
(* What leaves the store or the requests alone *)

\* A step that changes nothing of the store keeps what is true of it.
LEMMA StoreKept ==
    ASSUME StoreInv, now' \in Nat, UNCHANGED shown
    PROVE  StoreInv'
<1>1. /\ users' = users /\ rows' = rows /\ log' = log
      /\ secrets' = secrets /\ tokens' = tokens
      /\ gen' = gen /\ handed' = handed /\ bought' = bought /\ worked' = worked
  BY DEF shown
<1>2. StoreType' /\ TokensName' /\ RowsVouched'
  BY <1>1 DEF StoreInv, StoreType, TokensName, RowsVouched
<1>3. Spendable' /\ LogAccountsForRows'
  BY <1>1 DEF StoreInv, Spendable, Standing, LogAccountsForRows, RowsOf
<1>4. NoOlderRow' /\ OneTimeHolds'
  BY <1>1 DEF StoreInv, NoOlderRow, OneTimeHolds
<1>5. SecretsApart' /\ Unspent'
  BY <1>1 DEF StoreInv, SecretsApart, Unspent, Unworked
<1> QED
  BY <1>2, <1>3, <1>4, <1>5 DEF StoreInv

\* No user is ever removed, and but for a change and a reset a password
\* stays, or is spent.
Stays(u) == users[u].role # "none" => users'[u].role # "none"
Keeps(u) ==
  users[u].role # "none" =>
    /\ gen'[u] = gen[u]
    /\ users'[u].until = 0 \/ (users[u].until # 0 /\ users'[u].hash = users[u].hash)
Stay == \A u \in Users : Stays(u) /\ Keeps(u)

\* A step that leaves the users and their passwords alone.
LEMMA UsersStay ==
    ASSUME users' = users, gen' = gen
    PROVE  Stay
  BY DEF Stay, Stays, Keeps

\* A sign-in about to open a session stays one of the password its user has.
LEMMA HolderStays ==
    ASSUME NEW q \in Asked, Holder(q), Stays(q.user), Keeps(q.user)
    PROVE  Holder(q)'
<1>1. users[q.user].role # "none" /\ users'[q.user].role # "none"
  BY DEF Holder, Stays
<1>2. ASSUME ~q.overtaken PROVE Current(q)'
  <2>1. q.vouched = gen[q.user] /\ gen'[q.user] = gen[q.user]
    BY <1>1, <1>2 DEF Holder, Current, Keeps
  <2>2. ASSUME q.out = "onetime", users'[q.user].until # 0
        PROVE  users'[q.user].hash = q.secret
    <3>1. users[q.user].until # 0 /\ users'[q.user].hash = users[q.user].hash
      BY <1>1, <2>2 DEF Keeps
    <3>2. users[q.user].hash = q.secret
      BY <1>2, <2>2, <3>1 DEF Holder, Current
    <3> QED
      BY <3>1, <3>2
  <2> QED
    BY <2>1, <2>2 DEF Current
<1> QED
  BY <1>1, <1>2 DEF Holder

\* A step that moves one request to one that is of a user who exists, or
\* that is not about to open a session, keeps what is true of them.
LEMMA RequestMoved ==
    ASSUME ReqInv, Stay, NEW r \in Requests, NEW q \in Asked, Moves(r, q),
           Admitted(q) => Holder(q)'
    PROVE  ReqInv'
<1>1. req' = [req EXCEPT ![r] = q]
  BY DEF Moves
<1>2. req' \in [Requests -> Asked]
  BY <1>1 DEF ReqInv
<1>3. ASSUME NEW s \in Requests, Admitted(req'[s]) PROVE Holder(req[s])'
  <2>1. CASE s = r
    <3>1. req'[s] = q
      BY <1>1, <2>1 DEF ReqInv
    <3>2. Holder(q)'
      BY <3>1, <1>3
    <3> QED
      BY <3>1, <3>2 DEF Holder, Current
  <2>2. CASE s # r
    <3>1. req'[s] = req[s] /\ req[s] \in Asked
      BY <1>1, <2>2 DEF ReqInv
    <3>2. Admitted(req[s])
      BY <3>1, <1>3
    <3>3. Holder(req[s]) /\ req[s].user \in Users
      BY <3>2, <3>1 DEF ReqInv, Asked
    <3>4. PICK c \in Asked : c = req[s] /\ Holder(c) /\ Stays(c.user) /\ Keeps(c.user)
      BY <3>1, <3>3 DEF Stay
    <3>5. Holder(c)'
      BY <3>4, HolderStays
    <3> QED
      BY <3>1, <3>4, <3>5 DEF Holder, Current
  <2> QED
    BY <2>1, <2>2
<1>4. \A s \in Requests : Admitted(req[s])' => Holder(req[s])'
  BY <1>3 DEF Admitted
<1> QED
  BY <1>2, <1>4 DEF ReqInv

\* A change or reset of a user's password overtakes the sign-ins that
\* verified the one before, and keeps what is true of the requests.
LEMMA RequestMovedPast ==
    ASSUME ReqInv, NEW u \in Users, \A v \in Users : Stays(v),
           \A v \in Users \ {u} : Keeps(v),
           NEW r \in Requests, NEW q \in Asked, ~Admitted(q), MovesPast(r, q, u)
    PROVE  ReqInv'
<1>1. \A s \in Requests : req[s] \in Asked
  BY DEF ReqInv
<1>2. \A s \in Requests :
        req'[s] = IF s = r THEN q
                  ELSE IF Admitted(req[s]) /\ req[s].user = u
                       THEN [req[s] EXCEPT !.overtaken = TRUE] ELSE req[s]
  BY DEF MovesPast
<1>3. req' \in [Requests -> Asked]
  <2>1. ASSUME NEW s \in Requests PROVE req'[s] \in Asked
    <3>1. req[s] \in Asked
      BY <1>1
    <3>2. [req[s] EXCEPT !.overtaken = TRUE] \in Asked
      BY <3>1 DEF Asked
    <3> QED
      BY <1>2, <3>1, <3>2
  <2> QED
    BY <2>1 DEF MovesPast
<1>4. ASSUME NEW s \in Requests, Admitted(req'[s]) PROVE Holder(req[s])'
  <2>1. s # r
    BY <1>2, <1>4
  <2>2. CASE Admitted(req[s]) /\ req[s].user = u
    <3>1. req'[s] = [req[s] EXCEPT !.overtaken = TRUE]
      BY <1>2, <2>1, <2>2
    <3>2. req'[s].overtaken = TRUE /\ req'[s].user = u
      BY <1>1, <2>2, <3>1 DEF Asked
    <3>3. users[u].role # "none"
      BY <2>2 DEF ReqInv, Holder
    <3> QED
      BY <3>2, <3>3 DEF Holder, Stays
  <2>3. CASE ~(Admitted(req[s]) /\ req[s].user = u)
    <3>1. req'[s] = req[s]
      BY <1>2, <2>1, <2>3
    <3>2. Admitted(req[s]) /\ req[s].user # u /\ req[s].user \in Users
      BY <1>1, <1>4, <2>3, <3>1 DEF Asked
    <3>3. req[s] \in Asked /\ Holder(req[s]) /\ Stays(req[s].user) /\ Keeps(req[s].user)
      BY <1>1, <3>2 DEF ReqInv
    <3>4. PICK c \in Asked : c = req[s] /\ Holder(c) /\ Stays(c.user) /\ Keeps(c.user)
      BY <3>3
    <3>5. Holder(c)'
      BY <3>4, HolderStays
    <3> QED
      BY <3>1, <3>4, <3>5 DEF Holder, Current
  <2> QED
    BY <2>2, <2>3
<1>5. \A s \in Requests : Admitted(req[s])' => Holder(req[s])'
  BY <1>4 DEF Admitted
<1> QED
  BY <1>3, <1>5 DEF ReqInv

\* A step that leaves the requests as they are keeps what is true of them.
LEMMA RequestsKept ==
    ASSUME ReqInv, UNCHANGED <<users, gen, req>>
    PROVE  ReqInv'
  BY DEF ReqInv, Admitted, Holder, Current

-----------------------------------------------------------------------------
(* What is written to the log *)

Counts == [created: Nat, revoked: Nat, expired: Nat, failed: Nat]

\* Events of one kind are added to one user's and to no other's.
LEMMA EventsAdded ==
    ASSUME NEW l \in [Users -> Counts], NEW u \in Users, NEW n \in Nat,
           NEW kind \in {"created", "revoked", "failed"}
    PROVE  /\ WithEvents(l, u, kind, n) \in [Users -> Counts]
           /\ \A v \in Users \ {u} : WithEvents(l, u, kind, n)[v] = l[v]
           /\ WithEvents(l, u, kind, n)[u].created
                = l[u].created + (IF kind = "created" THEN n ELSE 0)
           /\ WithEvents(l, u, kind, n)[u].revoked
                = l[u].revoked + (IF kind = "revoked" THEN n ELSE 0)
           /\ WithEvents(l, u, kind, n)[u].expired = l[u].expired
<1>1. l[u] \in Counts
  OBVIOUS
<1>2. CASE kind = "created"
  BY <1>1, <1>2 DEF WithEvents, Counts
<1>3. CASE kind = "revoked"
  BY <1>1, <1>3 DEF WithEvents, Counts
<1>4. CASE kind = "failed"
  BY <1>1, <1>4 DEF WithEvents, Counts
<1> QED
  BY <1>2, <1>3, <1>4

\* A failed attempt opens and ends nothing.
LEMMA FailureCounted ==
    ASSUME NEW l \in [Users -> Counts], NEW u \in Users
    PROVE  /\ WithEvents(l, u, "failed", 1) \in [Users -> Counts]
           /\ \A v \in Users : /\ WithEvents(l, u, "failed", 1)[v].created = l[v].created
                               /\ WithEvents(l, u, "failed", 1)[v].revoked = l[v].revoked
                               /\ WithEvents(l, u, "failed", 1)[v].expired = l[v].expired
<1>1. l[u].created \in Nat /\ l[u].revoked \in Nat
  BY DEF Counts
<1>2. /\ WithEvents(l, u, "failed", 1) \in [Users -> Counts]
      /\ \A v \in Users \ {u} : WithEvents(l, u, "failed", 1)[v] = l[v]
      /\ WithEvents(l, u, "failed", 1)[u].created = l[u].created
      /\ WithEvents(l, u, "failed", 1)[u].revoked = l[u].revoked
      /\ WithEvents(l, u, "failed", 1)[u].expired = l[u].expired
  BY <1>1, EventsAdded
<1> QED
  BY <1>2

\* Rows that end, each with one event of its user, leave the store sound.
LEMMA RowsEnded ==
    ASSUME StoreInv, NEW ended \in SUBSET rows, rows' = rows \ ended,
           log' \in [Users -> Counts],
           \A u \in Users :
             /\ log'[u].created = log[u].created
             /\ log'[u].revoked + log'[u].expired = log[u].revoked + log[u].expired
                                                      + Cardinality({w \in ended : w.user = u}),
           UNCHANGED <<users, now, secrets, tokens, gen, handed, bought, worked>>
    PROVE  StoreInv'
<1>1. StoreType'
  BY DEF StoreInv, StoreType, Counts
<1>2. TokensName'
  BY EndedCount DEF StoreInv, TokensName
<1>3. RowsVouched' /\ NoOlderRow' /\ OneTimeHolds'
  BY DEF StoreInv, RowsVouched, NoOlderRow, OneTimeHolds
<1>4. Spendable' /\ SecretsApart' /\ Unspent'
  BY DEF StoreInv, Spendable, Standing, SecretsApart, Unspent, Unworked
<1>5. ASSUME NEW u \in Users
      PROVE  (log[u].created = log[u].revoked + log[u].expired + Cardinality(RowsOf(u)))'
  <2> DEFINE mine == {w \in ended : w.user = u}
  <2>1. mine \in SUBSET RowsOf(u) /\ RowsOf(u)' = RowsOf(u) \ mine
    BY DEF RowsOf
  <2>2. IsFiniteSet(RowsOf(u))
    BY UserRows DEF StoreInv
  <2>3. /\ Cardinality(RowsOf(u)) = Cardinality(RowsOf(u) \ mine) + Cardinality(mine)
        /\ Cardinality(mine) \in Nat /\ Cardinality(RowsOf(u) \ mine) \in Nat
    BY <2>1, <2>2, EndedCount
  <2>4. log[u].created = log[u].revoked + log[u].expired + Cardinality(RowsOf(u))
    BY DEF StoreInv, LogAccountsForRows
  <2>5. log[u] \in Counts /\ log'[u] \in Counts
    BY DEF StoreInv, StoreType, Counts
  <2>6. /\ log'[u].created = log[u].created
        /\ log'[u].revoked + log'[u].expired
             = log[u].revoked + log[u].expired + Cardinality(mine)
    OBVIOUS
  <2>7. Cardinality(RowsOf(u)') = Cardinality(RowsOf(u) \ mine)
    BY <2>1
  <2> HIDE DEF mine
  <2> QED
    BY <2>3, <2>4, <2>5, <2>6, <2>7 DEF Counts
<1> QED
  BY <1>1, <1>2, <1>3, <1>4, <1>5 DEF StoreInv, LogAccountsForRows

\* A request that ends rows of one user, one revocation each.
LEMMA RevocationSound ==
    ASSUME StoreInv, NEW u \in Users, NEW ended \in SUBSET RowsOf(u), EndRows(u, ended),
           UNCHANGED <<users, now, secrets, tokens, gen, handed, bought, worked>>
    PROVE  StoreInv'
<1>1. log \in [Users -> Counts]
  BY DEF StoreInv, StoreType, Counts
<1>2. ended \in SUBSET rows /\ \A w \in ended : w.user = u
  BY DEF RowsOf
<1>3. Cardinality(ended) \in Nat
  BY UserRows, EndedCount DEF StoreInv
<1>4. /\ log' \in [Users -> Counts]
      /\ \A v \in Users \ {u} : log'[v] = log[v]
      /\ log'[u].created = log[u].created
      /\ log'[u].revoked = log[u].revoked + Cardinality(ended)
      /\ log'[u].expired = log[u].expired
  <2>1. log' = WithEvents(log, u, "revoked", Cardinality(ended))
    BY DEF EndRows
  <2>2. log[u].created \in Nat
    BY <1>1 DEF Counts
  <2> QED
    BY <1>1, <1>3, <2>1, <2>2, EventsAdded
<1>5. ASSUME NEW v \in Users
      PROVE  /\ log'[v].created = log[v].created
             /\ log'[v].revoked + log'[v].expired = log[v].revoked + log[v].expired
                                                      + Cardinality({w \in ended : w.user = v})
  <2>1. log[v].created \in Nat /\ log[v].revoked \in Nat /\ log[v].expired \in Nat
    BY <1>1 DEF Counts
  <2>2. CASE v = u
    <3>1. Cardinality({w \in ended : w.user = v}) = Cardinality(ended)
      <4>1. {w \in ended : w.user = v} = ended
        BY <2>2, <1>2
      <4> QED
        BY <4>1
    <3>2. log'[v].revoked + log'[v].expired
            = log[v].revoked + log[v].expired + Cardinality(ended)
      BY <2>1, <2>2, <1>3, <1>4
    <3> QED
      BY <2>2, <3>1, <3>2, <1>4
  <2>3. CASE v # u
    <3>1. Cardinality({w \in ended : w.user = v}) = 0
      <4>1. {w \in ended : w.user = v} = {}
        BY <2>3, <1>2
      <4> QED
        BY <4>1, FS_EmptySet
    <3>2. log'[v] = log[v]
      BY <2>3, <1>4
    <3> QED
      BY <2>1, <3>1, <3>2
  <2> QED
    BY <2>2, <2>3
<1>6. rows' = rows \ ended
  BY DEF EndRows
<1> QED
  BY <1>2, <1>4, <1>5, <1>6, RowsEnded

-----------------------------------------------------------------------------
(* A session opens *)

\* The row a sign-in inserts is a new one of its user's, and it is counted.
LEMMA RowInserted ==
    ASSUME StoreInv, NEW q \in Asked, NEW forced \in BOOLEAN, InsertRow(q, forced)
    PROVE  /\ rows' \in SUBSET Row /\ log' \in [Users -> Counts] /\ tokens' \in Nat
           /\ rows' = rows \cup {NewRow(tokens + 1, q.user, forced, gen[q.user],
                                        q.vouched, q.overtaken)}
           /\ TokensName'
           /\ LogAccountsForRows'
<1> DEFINE u == q.user
           row == NewRow(tokens + 1, u, forced, gen[u], q.vouched, q.overtaken)
<1>1. /\ rows' = rows \cup {row} /\ tokens' = tokens + 1 /\ tokens \in Nat
      /\ row \in Row /\ row.user = u /\ row.token = tokens + 1 /\ u \in Users
  BY DEF InsertRow, StoreInv, StoreType, Row, NewRow, Asked
<1>2. log \in [Users -> Counts] /\ log' = WithEvents(log, u, "created", 1)
  BY DEF StoreInv, StoreType, Counts, InsertRow
<1>3. rows \in SUBSET Row /\ TokensName
  BY DEF StoreInv, StoreType
<1> HIDE DEF row
<1>4. row \notin rows
  <2>1. row.token > tokens
    BY <1>1
  <2> QED
    BY <1>1, <1>3, <2>1 DEF TokensName, Row
<1>5. TokensName'
  <2>1. IsFiniteSet(rows \cup {row})
    BY <1>3, FS_AddElement DEF TokensName
  <2>2. \A w \in rows : w.token <= tokens /\ w.token \in Nat
    BY <1>3 DEF TokensName, Row
  <2>3. \A w \in rows' : w.token <= tokens'
    BY <1>1, <2>2
  <2>4. ASSUME NEW v \in rows', NEW w \in rows', v.token = w.token PROVE v = w
    <3>1. CASE v = row /\ w \in rows
      BY <3>1, <2>2, <2>4, <1>1
    <3>2. CASE w = row /\ v \in rows
      BY <3>2, <2>2, <2>4, <1>1
    <3>3. CASE v \in rows /\ w \in rows
      BY <3>3, <2>4, <1>3 DEF TokensName
    <3> QED
      BY <3>1, <3>2, <3>3, <1>1
  <2> QED
    BY <1>1, <2>1, <2>3, <2>4 DEF TokensName
<1>6. /\ log' \in [Users -> Counts]
      /\ \A v \in Users \ {u} : log'[v] = log[v]
      /\ log'[u].created = log[u].created + 1
      /\ log'[u].revoked = log[u].revoked
      /\ log'[u].expired = log[u].expired
  <2>1. log[u].revoked \in Nat
    BY <1>1, <1>2 DEF Counts
  <2> HIDE DEF u
  <2> QED
    BY <1>1, <1>2, <2>1, EventsAdded
<1>7. ASSUME NEW v \in Users
      PROVE  (log[v].created = log[v].revoked + log[v].expired + Cardinality(RowsOf(v)))'
  <2>1. log[v].created = log[v].revoked + log[v].expired + Cardinality(RowsOf(v))
    BY DEF StoreInv, LogAccountsForRows
  <2>2. log[v].created \in Nat /\ log[v].revoked \in Nat /\ log[v].expired \in Nat
    BY <1>2 DEF Counts
  <2>3. IsFiniteSet(RowsOf(v)) /\ Cardinality(RowsOf(v)) \in Nat
    BY <1>3, UserRows
  <2>4. CASE v = u
    <3>1. RowsOf(v)' = RowsOf(v) \cup {row} /\ row \notin RowsOf(v)
      BY <1>1, <1>4, <2>4 DEF RowsOf
    <3>2. Cardinality(RowsOf(v)') = Cardinality(RowsOf(v)) + 1
      BY <3>1, <2>3, FS_AddElement
    <3>3. /\ log'[v].created = log[v].created + 1
          /\ log'[v].revoked = log[v].revoked /\ log'[v].expired = log[v].expired
      BY <2>4, <1>6
    <3> QED
      BY <2>1, <2>2, <2>3, <3>2, <3>3
  <2>5. CASE v # u
    <3>1. RowsOf(v)' = RowsOf(v)
      BY <1>1, <2>5 DEF RowsOf
    <3> QED
      BY <2>1, <2>5, <3>1, <1>6
  <2> QED
    BY <2>4, <2>5
<1>8. LogAccountsForRows'
  BY <1>7 DEF LogAccountsForRows
<1> QED
  BY <1>1, <1>3, <1>5, <1>6, <1>8 DEF row

\* A password that is the user's own opens a session of full standing.
LEMMA OpenedByPassword ==
    ASSUME StoreInv, NEW q \in Asked, Holder(q), InsertRow(q, FALSE),
           UNCHANGED <<users, now, secrets, gen, handed, bought, worked>>
    PROVE  StoreInv'
<1> DEFINE u == q.user
           row == NewRow(tokens + 1, u, FALSE, gen[u], q.vouched, q.overtaken)
<1>1. /\ rows' \in SUBSET Row /\ log' \in [Users -> Counts] /\ tokens' \in Nat
      /\ rows' = rows \cup {row} /\ TokensName' /\ LogAccountsForRows'
  BY RowInserted
<1>2. /\ row.user = u /\ row.forced = FALSE /\ row.gen = gen[u]
      /\ row.vouched = gen[u] \/ row.overtaken
      /\ users[u].role # "none"
  <2>1. row.vouched = q.vouched /\ row.overtaken = q.overtaken /\ q.overtaken \in BOOLEAN
    BY DEF NewRow, Asked
  <2>2. users[u].role # "none" /\ (~q.overtaken => q.vouched = gen[u])
    BY DEF Holder, Current
  <2> QED
    BY <2>1, <2>2 DEF NewRow
<1> HIDE DEF row
<1>3. StoreType'
  BY <1>1 DEF StoreInv, StoreType, Counts
<1>4. RowsVouched' /\ NoOlderRow' /\ OneTimeHolds'
  BY <1>1, <1>2 DEF StoreInv, RowsVouched, NoOlderRow, OneTimeHolds
<1>5. Spendable' /\ SecretsApart' /\ Unspent'
  BY DEF StoreInv, Spendable, Standing, SecretsApart, Unspent, Unworked
<1> QED
  BY <1>1, <1>3, <1>4, <1>5 DEF StoreInv

\* A one-time password that stands when it is spent opens a forced session
\* and is gone with it.
LEMMA OpenedByOneTime ==
    ASSUME StoreInv, NEW q \in Asked, Holder(q), q.out = "onetime", InsertRow(q, TRUE),
           Spends(q.user), Worked(q),
           users' = [users EXCEPT ![q.user].hash = 0, ![q.user].until = 0],
           bought' = [bought EXCEPT ![q.user] = @ + 1],
           UNCHANGED <<now, secrets, gen, handed>>
    PROVE  StoreInv'
<1> DEFINE u == q.user
           row == NewRow(tokens + 1, u, TRUE, gen[u], q.vouched, q.overtaken)
<1>1. /\ rows' \in SUBSET Row /\ log' \in [Users -> Counts] /\ tokens' \in Nat
      /\ rows' = rows \cup {row} /\ TokensName' /\ LogAccountsForRows'
  BY RowInserted
<1>2. /\ row.user = u /\ row.forced = TRUE /\ row.gen = gen[u]
      /\ row.vouched = gen[u] \/ row.overtaken
      /\ users[u].role # "none" /\ u \in Users
  <2>1. /\ row.vouched = q.vouched /\ row.overtaken = q.overtaken /\ q.overtaken \in BOOLEAN
        /\ u \in Users
    BY DEF NewRow, Asked
  <2>2. users[u].role # "none" /\ (~q.overtaken => q.vouched = gen[u])
    BY DEF Holder, Current
  <2> QED
    BY <2>1, <2>2 DEF NewRow
<1> HIDE DEF row
<1>3. ASSUME NEW s \in 1..MaxSecrets
       PROVE  /\ worked[s].intime \in Nat /\ worked[s].late \in Nat
              /\ worked'[s] \in [intime: Nat, late: Nat]
              /\ worked'[s].intime
                   = worked[s].intime + (IF s = q.secret /\ ~q.overtaken THEN 1 ELSE 0)
  <2>1. worked[s] \in [intime: Nat, late: Nat]
    BY DEF StoreInv, StoreType
  <2>2. CASE s # q.secret
    <3>1. worked'[s] = worked[s]
      BY <2>2 DEF StoreInv, StoreType, Worked
    <3> QED
      BY <2>1, <2>2, <3>1
  <2>3. CASE s = q.secret /\ q.overtaken
    <3>1. worked' = [worked EXCEPT ![s].late = @ + 1]
      BY <2>3 DEF Worked
    <3>2. worked'[s] = [worked[s] EXCEPT !.late = @ + 1]
      BY <3>1 DEF StoreInv, StoreType
    <3> QED
      BY <2>1, <2>3, <3>2
  <2>4. CASE s = q.secret /\ ~q.overtaken
    <3>1. worked' = [worked EXCEPT ![s].intime = @ + 1]
      BY <2>4 DEF Worked
    <3>2. worked'[s] = [worked[s] EXCEPT !.intime = @ + 1]
      BY <3>1 DEF StoreInv, StoreType
    <3> QED
      BY <2>1, <2>4, <3>2
  <2> QED
    BY <2>2, <2>3, <2>4
<1>4. worked' \in [1..MaxSecrets -> [intime: Nat, late: Nat]]
  <2>1. \A s \in 1..MaxSecrets : worked'[s] \in [intime: Nat, late: Nat]
    BY <1>3
  <2> QED
    BY <2>1 DEF StoreInv, StoreType, Worked
<1>5. StoreType'
  <2>1. users' \in [Users -> [role: Roles, hash: Nat, until: Nat]]
    BY ZenonT(40) DEF StoreInv, StoreType
  <2>2. bought' \in [Users -> Nat]
    <3>1. bought \in [Users -> Nat] /\ bought' = [bought EXCEPT ![u] = @ + 1] /\ u \in Users
      BY <1>2 DEF StoreInv, StoreType
    <3> HIDE DEF u
    <3> QED
      BY <3>1
  <2> QED
    BY <1>1, <1>4, <2>1, <2>2 DEF StoreInv, StoreType, Counts
<1>6. /\ users'[u].role = users[u].role /\ users'[u].hash = 0 /\ users'[u].until = 0
      /\ \A v \in Users \ {u} : users'[v] = users[v]
      /\ \A w \in rows : w.user \in Users
  BY <1>2 DEF StoreInv, StoreType, Row
<1>7. RowsVouched' /\ NoOlderRow'
  <2>1. \A w \in rows : users'[w.user].role # "none"
    BY <1>6 DEF StoreInv, RowsVouched
  <2> QED
    BY <1>1, <1>2, <1>6, <2>1 DEF StoreInv, RowsVouched, NoOlderRow
<1>8. users[u].until # 0 /\ users[u].hash # 0
  <2>1. users[u].until > now /\ now \in Nat
    BY DEF Spends, StoreInv, StoreType
  <2>2. users[u].until # 0
    BY <2>1
  <2> QED
    BY <1>2, <2>2 DEF StoreInv, Spendable
<1>9. /\ bought'[u] = bought[u] + 1 /\ bought[u] \in Nat /\ handed[u] \in Nat
      /\ \A v \in Users \ {u} : bought'[v] = bought[v]
  BY <1>2 DEF StoreInv, StoreType
<1>10. bought[u] + 1 <= handed[u]
  BY <1>2, <1>8 DEF StoreInv, Spendable, Standing
<1>11. Spendable'
  <2>1. ASSUME NEW v \in Users
        PROVE  (/\ users[v].until # 0 => users[v].hash # 0
                /\ bought[v] + Standing(v) <= handed[v])'
    <3>1. CASE v = u
      <4>1. bought'[v] + 0 <= handed[v]
        BY <3>1, <1>9, <1>10
      <4> QED
        BY <3>1, <4>1, <1>6 DEF Standing
    <3>2. CASE v # u
      BY <3>2, <1>6, <1>9 DEF StoreInv, Spendable, Standing
    <3> QED
      BY <3>1, <3>2
  <2> QED
    BY <2>1 DEF Spendable
<1>12. ASSUME ~q.overtaken
       PROVE  users[u].hash = q.secret /\ Unworked(q.secret)
  <2>1. users[u].hash = q.secret
    BY <1>8, <1>12 DEF Holder, Current
  <2> QED
    BY <1>2, <1>8, <2>1 DEF StoreInv, Unspent
<1>13. SecretsApart'
  <2>1. \A v \in Users : users'[v].hash = 0 \/ users'[v].hash = users[v].hash
    BY <1>6
  <2>2. secrets' = secrets /\ secrets \in Nat
    BY DEF StoreInv, StoreType
  <2>3. ASSUME NEW v \in Users
        PROVE  /\ users'[v].hash <= secrets
               /\ \A x \in Users : users'[v].hash # 0 /\ users'[x].hash = users'[v].hash => x = v
    <3>1. users'[v].hash <= secrets
      <4>1. users[v].hash <= secrets /\ 0 <= secrets
        BY <2>2 DEF StoreInv, SecretsApart
      <4> QED
        BY <2>1, <4>1
    <3>2. ASSUME NEW x \in Users, users'[v].hash # 0, users'[x].hash = users'[v].hash
          PROVE  x = v
      <4>1. users[v].hash = users'[v].hash /\ users[x].hash = users'[x].hash
        BY <2>1, <3>2
      <4> QED
        BY <3>2, <4>1 DEF StoreInv, SecretsApart
    <3> QED
      BY <3>1, <3>2
  <2> QED
    BY <2>2, <2>3 DEF SecretsApart
<1>14. Unspent'
  <2>1. ASSUME NEW s \in 1..MaxSecrets, s # q.secret \/ q.overtaken, Unworked(s)
        PROVE  Unworked(s)'
    BY <2>1, <1>3 DEF Unworked
  <2>2. ASSUME NEW s \in 1..MaxSecrets, s > secrets PROVE Unworked(s)'
    <3>1. s # q.secret \/ q.overtaken
      <4>1. users[u].hash <= secrets /\ users[u].hash \in Nat /\ secrets \in Nat
        BY <1>2 DEF StoreInv, StoreType, SecretsApart
      <4> QED
        BY <2>2, <4>1, <1>12
    <3> QED
      BY <2>1, <2>2, <3>1 DEF StoreInv, Unspent
  <2>3. ASSUME NEW v \in Users, users'[v].until # 0 PROVE Unworked(users[v].hash)'
    <3>1. v # u /\ users'[v] = users[v]
      BY <2>3, <1>6
    <3>2. Unworked(users[v].hash) /\ users[v].hash # 0
      BY <2>3, <3>1 DEF StoreInv, Unspent, Spendable
    <3>3. users[v].hash # q.secret \/ q.overtaken
      <4>1. users[v].hash # users[u].hash
        BY <1>2, <3>1, <3>2 DEF StoreInv, SecretsApart
      <4> QED
        BY <4>1, <1>12
    <3> DEFINE s == users[v].hash
    <3>4. s \in 1..MaxSecrets => worked'[s].intime = 0
      BY <3>2, <3>3, <1>3 DEF Unworked
    <3> QED
      BY <3>1, <3>4 DEF Unworked
  <2> QED
    BY <2>2, <2>3 DEF Unspent
<1>15. OneTimeHolds'
  <2>1. \A w \in rows : w.user = u => ~w.forced
    BY <1>8 DEF StoreInv, OneTimeHolds
  <2>2. ASSUME NEW w \in rows', w.forced
        PROVE  users'[w.user].hash = 0
               /\ \A v \in rows' : v.forced /\ v.user = w.user => v = w
    <3>1. CASE w = row
      BY <3>1, <2>1, <1>1, <1>2, <1>6
    <3>2. CASE w \in rows
      <4>1. w.user # u /\ w.user \in Users
        BY <3>2, <2>1, <2>2, <1>6
      <4>2. users[w.user].hash = 0 /\ \A v \in rows : v.forced /\ v.user = w.user => v = w
        BY <3>2, <2>2 DEF StoreInv, OneTimeHolds
      <4>3. users'[w.user].hash = 0
        BY <4>1, <4>2, <1>6
      <4> QED
        BY <4>1, <4>2, <4>3, <1>1, <1>2
    <3> QED
      BY <3>1, <3>2, <1>1
  <2>3. \A v \in Users : bought'[v] <= handed'[v]
    <3>1. \A v \in Users : bought[v] <= handed[v]
      BY DEF StoreInv, OneTimeHolds
    <3> QED
      BY <3>1, <1>9, <1>10
  <2>4. \A s \in 1..MaxSecrets : worked'[s].intime <= 1
    <3>1. \A s \in 1..MaxSecrets : worked[s].intime <= 1 /\ worked[s].intime \in Nat
      BY <1>3 DEF StoreInv, OneTimeHolds
    <3>2. ~q.overtaken /\ q.secret \in 1..MaxSecrets => worked[q.secret].intime = 0
      BY <1>12 DEF Unworked
    <3> QED
      BY <3>1, <3>2, <1>3
  <2> QED
    BY <2>2, <2>3, <2>4 DEF OneTimeHolds
<1> QED
  BY <1>1, <1>5, <1>7, <1>11, <1>13, <1>14, <1>15 DEF StoreInv

-----------------------------------------------------------------------------
(* A session is touched *)

\* A touch changes when a row was last seen and nothing else.
LEMMA TouchedRow ==
    ASSUME now \in Nat, NEW w \in Row, NEW token
    PROVE  /\ Touched(w, token) \in Row
           /\ Touched(w, token).token = w.token /\ Touched(w, token).user = w.user
           /\ Touched(w, token).forced = w.forced /\ Touched(w, token).gen = w.gen
           /\ Touched(w, token).vouched = w.vouched
           /\ Touched(w, token).overtaken = w.overtaken
  BY DEF Touched, Row

\* A touch keeps every row, and the store sound.
LEMMA TouchSound ==
    ASSUME StoreInv, NEW token, rows' = {Touched(w, token) : w \in rows},
           UNCHANGED <<users, log, now, secrets, tokens, gen, handed, bought, worked>>
    PROVE  StoreInv'
<1>1. rows \in SUBSET Row /\ now \in Nat /\ TokensName
  BY DEF StoreInv, StoreType
<1>2. ASSUME NEW v \in rows'
      PROVE  \E w \in rows : /\ v = Touched(w, token) /\ v \in Row
                             /\ v.token = w.token /\ v.user = w.user
                             /\ v.forced = w.forced /\ v.gen = w.gen
                             /\ v.vouched = w.vouched /\ v.overtaken = w.overtaken
  <2>1. PICK w \in rows : v = Touched(w, token)
    OBVIOUS
  <2> QED
    BY <1>1, <2>1, TouchedRow
<1>3. StoreType'
  BY <1>2 DEF StoreInv, StoreType
<1>4. RowsVouched' /\ NoOlderRow'
  BY <1>2 DEF StoreInv, RowsVouched, NoOlderRow
<1>5. Spendable' /\ SecretsApart' /\ Unspent'
  BY DEF StoreInv, Spendable, Standing, SecretsApart, Unspent, Unworked
<1>6. ASSUME NEW v1 \in rows', NEW v2 \in rows', v1.token = v2.token PROVE v1 = v2
  <2>1. PICK w1 \in rows : v1 = Touched(w1, token) /\ v1.token = w1.token
    BY <1>2
  <2>2. PICK w2 \in rows : v2 = Touched(w2, token) /\ v2.token = w2.token
    BY <1>2
  <2>3. w1 = w2
    BY <1>1, <1>6, <2>1, <2>2 DEF TokensName
  <2> QED
    BY <2>1, <2>2, <2>3
<1>7. ASSUME NEW u
      PROVE  IsFiniteSet(RowsOf(u)') /\ Cardinality(RowsOf(u)') = Cardinality(RowsOf(u))
  <2> DEFINE f == [w \in RowsOf(u) |-> Touched(w, token)]
  <2>1. f \in [RowsOf(u) -> RowsOf(u)']
    BY <1>1, TouchedRow DEF RowsOf
  <2>2. \A w, v \in RowsOf(u) : f[w] = f[v] => w = v
    <3>1. SUFFICES ASSUME NEW w \in rows, NEW v \in rows,
                          Touched(w, token) = Touched(v, token)
                   PROVE  w = v
      BY DEF RowsOf
    <3>2. w.token = v.token
      BY <1>1, <3>1, TouchedRow
    <3> QED
      BY <1>1, <3>2 DEF TokensName
  <2>3. \A v \in RowsOf(u)' : \E w \in RowsOf(u) : f[w] = v
    <3>1. SUFFICES ASSUME NEW v \in rows', v.user = u
                   PROVE  \E w \in RowsOf(u) : f[w] = v
      BY DEF RowsOf
    <3>2. PICK w \in rows : v = Touched(w, token) /\ v.user = w.user
      BY <1>2
    <3> QED
      BY <3>1, <3>2 DEF RowsOf
  <2> HIDE DEF f
  <2>4. f \in Bijection(RowsOf(u), RowsOf(u)')
    BY <2>1, <2>2, <2>3 DEF Bijection, Injection, Surjection, IsInjective
  <2>5. ExistsBijection(RowsOf(u), RowsOf(u)')
    BY <2>4 DEF ExistsBijection
  <2>6. IsFiniteSet(RowsOf(u))
    BY <1>1, UserRows
  <2> QED
    BY <2>5, <2>6, FS_Bijection
<1>8. IsFiniteSet(rows')
  <2> DEFINE f == [w \in rows |-> Touched(w, token)]
  <2>1. f \in Surjection(rows, rows')
    <3>1. f \in [rows -> rows'] /\ \A v \in rows' : \E w \in rows : f[w] = v
      OBVIOUS
    <3> QED
      BY <3>1 DEF Surjection
  <2> QED
    BY <1>1, <2>1, FS_Surjection DEF TokensName
<1>9. TokensName'
  <2>1. \A v \in rows' : v.token <= tokens
    BY <1>1, <1>2 DEF TokensName
  <2> QED
    BY <1>6, <1>8, <2>1 DEF TokensName
<1>10. LogAccountsForRows'
  BY <1>7 DEF StoreInv, LogAccountsForRows
<1>11. OneTimeHolds'
  <2>1. ASSUME NEW v \in rows', v.forced
        PROVE  users[v.user].hash = 0
               /\ \A x \in rows' : x.forced /\ x.user = v.user => x = v
    <3>1. PICK w \in rows : v = Touched(w, token) /\ v.user = w.user /\ v.forced = w.forced
      BY <1>2
    <3>2. users[w.user].hash = 0 /\ \A x \in rows : x.forced /\ x.user = w.user => x = w
      BY <2>1, <3>1 DEF StoreInv, OneTimeHolds
    <3>3. ASSUME NEW x \in rows', x.forced, x.user = v.user PROVE x = v
      <4>1. PICK y \in rows : x = Touched(y, token) /\ x.user = y.user /\ x.forced = y.forced
        BY <1>2
      <4>2. y = w
        BY <3>1, <3>2, <3>3, <4>1
      <4> QED
        BY <3>1, <4>1, <4>2
    <3> QED
      BY <3>1, <3>2, <3>3
  <2> QED
    BY <2>1 DEF StoreInv, OneTimeHolds
<1> QED
  BY <1>3, <1>4, <1>5, <1>9, <1>10, <1>11 DEF StoreInv

-----------------------------------------------------------------------------
(* A password changes *)

\* A password change leaves its user one row, of the new password, and ends
\* the others with one event each.
LEMMA ChangeSound ==
    ASSUME StoreInv, NEW q \in Asked, \E w \in Find(q.token) : w.user = q.user,
           Rotated(q), tokens' = tokens + 1, secrets' = secrets + 1,
           users' = [users EXCEPT ![q.user].hash = secrets + 1, ![q.user].until = 0],
           gen' = [gen EXCEPT ![q.user] = @ + 1],
           UNCHANGED <<now, handed, bought, worked>>
    PROVE  StoreInv'
<1> DEFINE u == q.user
           row == NewRow(tokens + 1, u, FALSE, gen[u] + 1, gen[u] + 1, FALSE)
           others == EndOthers(u, q.token)
<1>1. /\ u \in Users /\ rows \in SUBSET Row /\ tokens \in Nat /\ secrets \in Nat
      /\ gen \in [Users -> Nat] /\ now \in Nat /\ log \in [Users -> Counts]
      /\ users \in [Users -> [role: Roles, hash: Nat, until: Nat]]
  BY DEF Asked, StoreInv, StoreType, Counts
<1>2. /\ row \in Row /\ row.user = u /\ row.token = tokens + 1
      /\ row.forced = FALSE /\ row.gen = gen[u] + 1 /\ row.vouched = gen[u] + 1
  BY <1>1 DEF NewRow, Row
<1>3. rows' = (rows \ RowsOf(u)) \cup {row}
      /\ log' = WithEvents(log, u, "revoked", Cardinality(others))
  BY DEF Rotated
<1>4. \A w \in rows' : w = row \/ (w \in rows /\ w.user # u)
  BY <1>3 DEF RowsOf
<1>5. PICK cur \in rows : cur.token = q.token /\ cur.user = u
  BY DEF Find
<1> HIDE DEF row
<1>6. /\ IsFiniteSet(others) /\ Cardinality(others) \in Nat
      /\ Cardinality(RowsOf(u)) = Cardinality(others) + 1
  <2>1. IsFiniteSet(RowsOf(u))
    BY UserRows DEF StoreInv
  <2>2. others = RowsOf(u) \ {cur} /\ cur \in RowsOf(u)
    BY <1>5 DEF EndOthers, RowsOf, StoreInv, TokensName
  <2>3. {cur} \in SUBSET RowsOf(u) /\ Cardinality({cur}) = 1
    BY <2>2, FS_Singleton
  <2> QED
    BY <2>1, <2>2, <2>3, EndedCount
<1> HIDE DEF others
<1>7. /\ log' \in [Users -> Counts]
      /\ \A v \in Users \ {u} : log'[v] = log[v]
      /\ log'[u].created = log[u].created
      /\ log'[u].revoked = log[u].revoked + Cardinality(others)
      /\ log'[u].expired = log[u].expired
  <2>1. log[u].created \in Nat
    BY <1>1 DEF Counts
  <2> QED
    BY <1>1, <1>3, <1>6, <2>1, EventsAdded
<1>8. /\ users'[u].role = users[u].role /\ users'[u].until = 0
      /\ users'[u].hash = secrets + 1
      /\ \A v \in Users \ {u} : users'[v] = users[v]
      /\ gen'[u] = gen[u] + 1 /\ \A v \in Users \ {u} : gen'[v] = gen[v]
  BY <1>1
<1>9. StoreType'
  <2>1. users' \in [Users -> [role: Roles, hash: Nat, until: Nat]]
    BY <1>1
  <2>2. gen' \in [Users -> Nat] /\ tokens' \in Nat /\ secrets' \in Nat
    BY <1>1
  <2>3. rows' \in SUBSET Row
    BY <1>1, <1>2, <1>4
  <2> QED
    BY <1>7, <2>1, <2>2, <2>3 DEF StoreInv, StoreType, Counts
<1>10. TokensName'
  <2>1. \A w \in rows : w.token <= tokens /\ w.token \in Nat
    BY <1>1 DEF StoreInv, TokensName, Row
  <2>2. \A w \in rows' : w.token <= tokens'
    BY <1>1, <1>2, <1>4, <2>1
  <2>3. ASSUME NEW v \in rows', NEW w \in rows', v.token = w.token PROVE v = w
    <3>1. \A x \in rows : x.token # row.token
      BY <1>1, <1>2, <2>1
    <3> QED
      BY <1>4, <2>3, <3>1 DEF StoreInv, TokensName
  <2>4. IsFiniteSet(rows')
    <3>1. IsFiniteSet(rows \ RowsOf(u))
      BY FS_Difference DEF StoreInv, TokensName
    <3> QED
      BY <1>3, <3>1, FS_AddElement
  <2> QED
    BY <2>2, <2>3, <2>4 DEF TokensName
<1>11. ASSUME NEW v \in Users
       PROVE  (log[v].created = log[v].revoked + log[v].expired + Cardinality(RowsOf(v)))'
  <2>1. log[v].created = log[v].revoked + log[v].expired + Cardinality(RowsOf(v))
    BY DEF StoreInv, LogAccountsForRows
  <2>2. log[v].created \in Nat /\ log[v].revoked \in Nat /\ log[v].expired \in Nat
    BY <1>1 DEF Counts
  <2>3. CASE v = u
    <3>1. RowsOf(v)' = {row}
      BY <1>2, <1>3, <2>3 DEF RowsOf
    <3>2. Cardinality(RowsOf(v)') = 1
      BY <3>1, FS_Singleton
    <3>3. /\ log'[v].created = log[v].created /\ log'[v].expired = log[v].expired
          /\ log'[v].revoked = log[v].revoked + Cardinality(others)
          /\ Cardinality(RowsOf(v)) = Cardinality(others) + 1
      BY <2>3, <1>6, <1>7
    <3> QED
      BY <2>1, <2>2, <3>2, <3>3, <1>6
  <2>4. CASE v # u
    <3>1. RowsOf(v)' = RowsOf(v)
      BY <1>2, <1>3, <2>4 DEF RowsOf
    <3> QED
      BY <2>1, <2>4, <3>1, <1>7
  <2> QED
    BY <2>3, <2>4
<1>12. RowsVouched' /\ NoOlderRow'
  <2>1. ASSUME NEW w \in rows'
        PROVE  /\ users'[w.user].role # "none" /\ w.gen = gen'[w.user]
               /\ w.vouched = gen'[w.user] \/ w.overtaken
    <3>1. CASE w = row
      <4>1. users[u].role # "none"
        BY <1>5 DEF StoreInv, RowsVouched
      <4> QED
        BY <3>1, <4>1, <1>2, <1>8
    <3>2. CASE w \in rows /\ w.user # u
      <4>1. w.user \in Users \ {u}
        BY <3>2, <1>1 DEF Row
      <4>2. /\ users[w.user].role # "none" /\ w.gen = gen[w.user]
            /\ w.vouched = gen[w.user] \/ w.overtaken
        BY <3>2 DEF StoreInv, RowsVouched, NoOlderRow
      <4> QED
        BY <4>1, <4>2, <1>8
    <3> QED
      BY <3>1, <3>2, <1>4
  <2> QED
    BY <2>1 DEF RowsVouched, NoOlderRow
<1>13. Spendable'
  <2>1. ASSUME NEW v \in Users
        PROVE  (/\ users[v].until # 0 => users[v].hash # 0
                /\ bought[v] + Standing(v) <= handed[v])'
    <3>1. /\ users[v].until # 0 => users[v].hash # 0
          /\ bought[v] + Standing(v) <= handed[v]
          /\ bought[v] \in Nat /\ handed[v] \in Nat /\ Standing(v) \in {0, 1}
      BY DEF StoreInv, StoreType, Spendable, Standing
    <3>2. CASE v = u
      <4>1. Standing(v)' = 0 /\ users'[v].until = 0
        BY <3>2, <1>8 DEF Standing
      <4> QED
        BY <3>1, <4>1
    <3>3. CASE v # u
      BY <3>1, <3>3, <1>8 DEF Standing
    <3> QED
      BY <3>2, <3>3
  <2> QED
    BY <2>1 DEF Spendable
<1>14. OneTimeHolds'
  <2>1. ASSUME NEW w \in rows', w.forced
        PROVE  users'[w.user].hash = 0
               /\ \A v \in rows' : v.forced /\ v.user = w.user => v = w
    <3>1. w \in rows /\ w.user # u
      BY <1>2, <1>4, <2>1
    <3>2. w.user \in Users \ {u}
      BY <3>1, <1>1 DEF Row
    <3>3. users[w.user].hash = 0 /\ \A v \in rows : v.forced /\ v.user = w.user => v = w
      BY <2>1, <3>1 DEF StoreInv, OneTimeHolds
    <3> QED
      BY <3>2, <3>3, <1>2, <1>4, <1>8
  <2> QED
    BY <2>1 DEF StoreInv, OneTimeHolds
<1>15. SecretsApart' /\ Unspent'
  <2>1. \A v \in Users : users[v].hash <= secrets /\ users[v].hash \in Nat
    BY <1>1 DEF StoreInv, SecretsApart
  <2>2. SecretsApart'
    BY <1>1, <1>8, <2>1 DEF StoreInv, SecretsApart
  <2>3. Unspent'
    BY <1>1, <1>8 DEF StoreInv, Unspent, Unworked
  <2> QED
    BY <2>2, <2>3
<1> QED
  BY <1>9, <1>10, <1>11, <1>12, <1>13, <1>14, <1>15 DEF StoreInv, LogAccountsForRows

-----------------------------------------------------------------------------
(* A one-time password is handed out *)

\* Handing one out changes one user's password, and counts it.
LEMMA HandedOut ==
    ASSUME StoreInv, NEW u \in Users, NEW role \in Roles \ {"none"}, HandsOut(u, role),
           UNCHANGED <<now, bought, worked>>
    PROVE  /\ users' \in [Users -> [role: Roles, hash: Nat, until: Nat]]
           /\ secrets' \in Nat /\ handed' \in [Users -> Nat]
           /\ users'[u].role = role
           /\ \A v \in Users \ {u} : users'[v] = users[v]
           /\ Spendable' /\ \A v \in Users : bought'[v] <= handed'[v]
           /\ SecretsApart' /\ Unspent'
           /\ \A v \in Users : Stays(v)
<1>1. /\ users \in [Users -> [role: Roles, hash: Nat, until: Nat]]
      /\ secrets \in Nat /\ now \in Nat /\ handed \in [Users -> Nat]
      /\ bought \in [Users -> Nat] /\ ONE_TIME_TTL \in Nat
  BY SignInAssumption DEF StoreInv, StoreType
<1> DEFINE fresh == [role |-> role, hash |-> secrets + 1, until |-> now + ONE_TIME_TTL]
<1>2. /\ users' = [users EXCEPT ![u] = fresh] /\ secrets' = secrets + 1
      /\ handed' = [handed EXCEPT ![u] = @ + 1] /\ bought' = bought
  BY DEF HandsOut
<1>3. fresh \in [role: Roles, hash: Nat, until: Nat] /\ fresh.hash # 0 /\ fresh.role = role
  BY <1>1
<1> HIDE DEF fresh
<1>4. users' \in [Users -> [role: Roles, hash: Nat, until: Nat]]
      /\ users'[u] = fresh /\ \A v \in Users \ {u} : users'[v] = users[v]
  BY <1>1, <1>2, <1>3
<1>5. /\ handed' \in [Users -> Nat] /\ handed'[u] = handed[u] + 1
      /\ \A v \in Users \ {u} : handed'[v] = handed[v]
  BY <1>1, <1>2
<1>6. ASSUME NEW v \in Users
      PROVE  /\ (users[v].until # 0 => users[v].hash # 0)'
             /\ (bought[v] + Standing(v) <= handed[v])' /\ bought'[v] <= handed'[v]
  <2>1. /\ users[v].until # 0 => users[v].hash # 0
        /\ bought[v] + Standing(v) <= handed[v] /\ bought[v] <= handed[v]
        /\ bought[v] \in Nat /\ handed[v] \in Nat /\ Standing(v) \in {0, 1}
        /\ Standing(v)' \in {0, 1}
    BY <1>1 DEF StoreInv, Spendable, Standing, OneTimeHolds
  <2>2. CASE v = u
    <3>1. users'[v].hash # 0 /\ handed'[v] = handed[v] + 1
      BY <2>2, <1>3, <1>4, <1>5
    <3> QED
      BY <2>1, <3>1, <1>2
  <2>3. CASE v # u
    <3>1. users'[v] = users[v] /\ handed'[v] = handed[v] /\ bought'[v] = bought[v]
      BY <2>3, <1>2, <1>4, <1>5
    <3>2. Standing(v)' = Standing(v)
      BY <3>1 DEF Standing
    <3> QED
      BY <2>1, <3>1, <3>2
  <2> QED
    BY <2>2, <2>3
<1>7. Spendable'
  BY <1>6 DEF Spendable
<1>8. \A v \in Users : Stays(v)
  BY <1>3, <1>4 DEF Stays
<1>9. SecretsApart' /\ Unspent'
  <2>1. \A v \in Users : users[v].hash <= secrets /\ users[v].hash \in Nat
    BY <1>1 DEF StoreInv, SecretsApart
  <2>2. users'[u].hash = secrets + 1
    BY <1>4 DEF fresh
  <2>3. SecretsApart'
    BY <1>1, <1>2, <1>4, <2>1, <2>2 DEF StoreInv, SecretsApart
  <2>4. \A s \in 1..MaxSecrets : s > secrets => worked'[s].intime = 0
    BY DEF StoreInv, Unspent, Unworked
  <2>5. Unspent'
    BY <1>1, <1>2, <1>4, <2>2, <2>4 DEF StoreInv, Unspent, Unworked
  <2> QED
    BY <2>3, <2>5
<1> QED
  BY <1>1, <1>2, <1>3, <1>4, <1>5, <1>6, <1>7, <1>8, <1>9

\* A reset ends every row of the user it is about.
LEMMA ResetSound ==
    ASSUME StoreInv, NEW u \in Users, users[u].role # "none",
           HandsOut(u, users[u].role), EndRows(u, RowsOf(u)),
           gen' = [gen EXCEPT ![u] = @ + 1],
           UNCHANGED <<now, tokens, bought, worked>>
    PROVE  /\ StoreInv' /\ \A v \in Users : Stays(v)
           /\ \A v \in Users \ {u} : Keeps(v)
<1>1. users[u].role \in Roles \ {"none"}
  BY DEF StoreInv, StoreType
<1>2. /\ users' \in [Users -> [role: Roles, hash: Nat, until: Nat]]
      /\ secrets' \in Nat /\ handed' \in [Users -> Nat]
      /\ \A v \in Users \ {u} : users'[v] = users[v]
      /\ Spendable' /\ \A v \in Users : bought'[v] <= handed'[v]
      /\ SecretsApart' /\ Unspent'
      /\ \A v \in Users : Stays(v)
  BY <1>1, HandedOut
<1>3. /\ rows' = rows \ RowsOf(u) /\ log \in [Users -> Counts]
      /\ log' = WithEvents(log, u, "revoked", Cardinality(RowsOf(u)))
      /\ rows \in SUBSET Row /\ gen \in [Users -> Nat]
  BY DEF EndRows, StoreInv, StoreType, Counts
<1>4. IsFiniteSet(RowsOf(u)) /\ Cardinality(RowsOf(u)) \in Nat
  BY UserRows DEF StoreInv
<1>5. /\ log' \in [Users -> Counts]
      /\ \A v \in Users \ {u} : log'[v] = log[v]
      /\ log'[u].created = log[u].created
      /\ log'[u].revoked = log[u].revoked + Cardinality(RowsOf(u))
      /\ log'[u].expired = log[u].expired
  <2> DEFINE n == Cardinality(RowsOf(u))
  <2>1. log[u].created \in Nat
    BY <1>3 DEF Counts
  <2>2. n \in Nat /\ log' = WithEvents(log, u, "revoked", n) /\ log \in [Users -> Counts]
    BY <1>3, <1>4
  <2> HIDE DEF n
  <2>3. /\ log' \in [Users -> Counts]
        /\ \A v \in Users \ {u} : log'[v] = log[v]
        /\ log'[u].created = log[u].created
        /\ log'[u].revoked = log[u].revoked + n
        /\ log'[u].expired = log[u].expired
    BY <2>1, <2>2, EventsAdded
  <2> QED
    BY <2>3 DEF n
<1>6. StoreType'
  <2>1. gen' \in [Users -> Nat]
    BY <1>3
  <2>2. rows' \in SUBSET Row
    BY <1>3
  <2> QED
    BY <1>2, <1>5, <2>1, <2>2 DEF StoreInv, StoreType, Counts
<1>7. \A w \in rows' : w \in rows /\ w.user \in Users \ {u}
  BY <1>3 DEF RowsOf, Row
<1>8. TokensName'
  <2>1. IsFiniteSet(rows')
    BY <1>3, FS_Difference DEF StoreInv, TokensName
  <2> QED
    BY <1>7, <2>1 DEF StoreInv, TokensName
<1>9. \A v \in Users \ {u} : gen'[v] = gen[v]
  BY <1>3
<1>10. RowsVouched' /\ NoOlderRow'
  BY <1>2, <1>7, <1>9 DEF StoreInv, RowsVouched, NoOlderRow
<1>11. OneTimeHolds'
  <2>1. \A w \in rows' : users'[w.user] = users[w.user]
    BY <1>2, <1>7
  <2>2. \A w \in rows' : w.forced =>
          users'[w.user].hash = 0 /\ \A v \in rows' : v.forced /\ v.user = w.user => v = w
    <3>1. \A w \in rows : w.forced =>
            users[w.user].hash = 0 /\ \A v \in rows : v.forced /\ v.user = w.user => v = w
      BY DEF StoreInv, OneTimeHolds
    <3> QED
      BY <1>7, <2>1, <3>1
  <2>3. \A s \in 1..MaxSecrets : worked'[s].intime <= 1
    BY DEF StoreInv, OneTimeHolds
  <2> QED
    BY <1>2, <2>2, <2>3 DEF OneTimeHolds
<1>12. ASSUME NEW v \in Users
       PROVE  (log[v].created = log[v].revoked + log[v].expired + Cardinality(RowsOf(v)))'
  <2>1. log[v].created = log[v].revoked + log[v].expired + Cardinality(RowsOf(v))
    BY DEF StoreInv, LogAccountsForRows
  <2>2. log[v].created \in Nat /\ log[v].revoked \in Nat /\ log[v].expired \in Nat
    BY <1>3 DEF Counts
  <2>3. CASE v = u
    <3>1. RowsOf(v)' = {}
      BY <1>7, <2>3 DEF RowsOf
    <3>2. Cardinality(RowsOf(v)') = 0
      BY <3>1, FS_EmptySet
    <3>3. /\ log'[v].created = log[v].created /\ log'[v].expired = log[v].expired
          /\ log'[v].revoked = log[v].revoked + Cardinality(RowsOf(v))
      BY <2>3, <1>5
    <3>4. Cardinality(RowsOf(v)) \in Nat
      BY <2>3, <1>4
    <3> QED
      BY <2>1, <2>2, <3>2, <3>3, <3>4
  <2>4. CASE v # u
    <3>1. RowsOf(v)' = RowsOf(v)
      BY <1>3, <2>4 DEF RowsOf
    <3> QED
      BY <2>1, <2>4, <3>1, <1>5
  <2> QED
    BY <2>3, <2>4
<1>13. \A v \in Users \ {u} : Keeps(v)
  BY <1>2, <1>9 DEF Keeps
<1> QED
  BY <1>2, <1>6, <1>8, <1>10, <1>11, <1>12, <1>13 DEF StoreInv, LogAccountsForRows

\* A user created has no row yet.
LEMMA CreateSound ==
    ASSUME StoreInv, NEW u \in Users, users[u].role = "none", HandsOut(u, "member"),
           UNCHANGED <<rows, log, gen, now, tokens, bought, worked>>
    PROVE  StoreInv' /\ Stay
<1>1. /\ users' \in [Users -> [role: Roles, hash: Nat, until: Nat]]
      /\ secrets' \in Nat /\ handed' \in [Users -> Nat]
      /\ \A v \in Users \ {u} : users'[v] = users[v]
      /\ Spendable' /\ \A v \in Users : bought'[v] <= handed'[v]
      /\ SecretsApart' /\ Unspent'
      /\ \A v \in Users : Stays(v)
  <2>1. "member" \in Roles \ {"none"}
    BY DEF Roles
  <2> QED
    BY <2>1, HandedOut
<1>2. \A w \in rows : w.user \in Users \ {u}
  BY DEF StoreInv, StoreType, Row, RowsVouched
<1>3. \A w \in rows : users'[w.user] = users[w.user]
  BY <1>1, <1>2
<1>4. StoreType'
  BY <1>1 DEF StoreInv, StoreType
<1>5. TokensName' /\ RowsVouched' /\ NoOlderRow'
  BY <1>3 DEF StoreInv, TokensName, RowsVouched, NoOlderRow
<1>6. LogAccountsForRows'
  BY DEF StoreInv, LogAccountsForRows, RowsOf
<1>7. OneTimeHolds'
  BY <1>1, <1>3 DEF StoreInv, OneTimeHolds
<1>8. Stay
  <2>1. \A v \in Users : Keeps(v)
    BY <1>1 DEF Keeps
  <2> QED
    BY <1>1, <2>1 DEF Stay
<1> QED
  BY <1>1, <1>4, <1>5, <1>6, <1>7, <1>8 DEF StoreInv

-----------------------------------------------------------------------------
(* The actions *)

\* What a step of a request that leaves the store alone needs.
LEMMA OnlyRequest ==
    ASSUME IInv, NEW r \in Requests, NEW q \in Asked, Moves(r, q),
           Admitted(q) => Holder(q), UNCHANGED <<shown, now>>
    PROVE  IInv'
<1>1. Stay /\ (Admitted(q) => Holder(q)')
  BY UsersStay DEF shown, Holder, Current
<1>2. now' \in Nat
  BY DEF IInv, StoreInv, StoreType
<1> QED
  BY <1>1, <1>2, StoreKept, RequestMoved DEF IInv

\* A request that arrives is waiting, or about to be prepared.
LEMMA ArrivesSound ==
    ASSUME IInv, NEW r \in Requests, NEW q \in Asked, q.pc # "act", Arrives(r, q)
    PROVE  IInv'
<1>1. Moves(r, q) /\ UNCHANGED <<shown, now>>
  BY DEF Arrives, Moves, shown, store, count, history
<1>2. ~Admitted(q)
  BY DEF Admitted
<1> QED
  BY <1>1, <1>2, OnlyRequest

\* A request that is not there is well formed too.
LEMMA IdleType ==
    Idle \in Asked /\ ~Admitted(Idle)
  BY DEF Idle, Asked, Ops, Places, Browsers, Users, Owner, Roles, Outs, Admitted

\* A request that asks by a session's row is well formed.
LEMMA AskingType ==
    ASSUME NEW w \in Row, NEW op \in Ops, NEW b \in Browsers
    PROVE  Asking(op, b, w) \in Asked
  BY DEF Asking, Idle, Asked, Row, Places, Outs, Roles, Users, Owner, Ops

\* Whatever arrives keeps the invariant.
LEMMA ArrivalSound ==
    ASSUME IInv, NEW r \in Requests, Arrival(r)
    PROVE  IInv'
<1>1. /\ \A b \in Browsers : Authenticate(b) \subseteq rows /\ Full(b) \subseteq rows
      /\ rows \in SUBSET Row
  BY DEF Authenticate, Full, Find, IInv, StoreInv, StoreType
<1>2. /\ {"login", "change", "reset", "create", "others", "other"} \subseteq Ops
      /\ {"gate", "read"} \subseteq Places /\ "gate" # "act" /\ "read" # "act"
      /\ {1, 2, 3} \subseteq Browsers /\ {Member, Fresh} \subseteq Users /\ Users \subseteq Nat
  BY DEF Ops, Places, Browsers, Users, Owner, Member, Fresh
<1>3. ASSUME NEW u \in {Member, Fresh}, NEW s \in 0..MaxSecrets, ArriveLogin(r, 3, u, s)
      PROVE  IInv'
  <2> DEFINE q == [Idle EXCEPT !.op = "login", !.pc = "gate", !.browser = 3,
                               !.user = u, !.secret = s]
  <2>1. Idle \in Asked
    BY IdleType
  <2>2. q \in Asked /\ q.pc # "act"
    <3>1. /\ u \in Users /\ s \in Nat /\ 3 \in Browsers
          /\ "login" \in Ops /\ "gate" \in Places
      BY <1>2, SignInAssumption
    <3> QED
      BY <2>1, <3>1 DEF Asked
  <2>3. Arrives(r, q)
    BY <1>3 DEF ArriveLogin
  <2> QED
    BY <2>2, <2>3, ArrivesSound
<1>4. ASSUME NEW b \in Away, NEW s \in 0..MaxSecrets, ArriveChange(r, b, s) PROVE IInv'
  <2>1. b \in Browsers /\ s \in Nat
    BY SignInAssumption DEF Away, Browsers
  <2>2. PICK w \in Authenticate(b) :
          Arrives(r, [Asking("change", b, w) EXCEPT !.pc = "gate", !.secret = s])
    BY <1>4 DEF ArriveChange
  <2> DEFINE a == Asking("change", b, w)
             q == [a EXCEPT !.pc = "gate", !.secret = s]
  <2>3. a \in Asked
    <3>1. w \in Row
      BY <1>1, <2>1
    <3> QED
      BY <2>1, <3>1, <1>2, AskingType
  <2>4. Arrives(r, q)
    BY <2>2
  <2> HIDE DEF a
  <2>5. q \in Asked /\ q.pc # "act"
    BY <2>1, <2>3, <1>2 DEF Asked
  <2> HIDE DEF q
  <2> QED
    BY <2>4, <2>5, ArrivesSound
<1>5. ASSUME NEW u \in {Member, Fresh}, ArriveReset(r, AtDesk, u) PROVE IInv'
  <2>1. AtDesk \in Browsers
    BY DEF AtDesk, Browsers
  <2>2. PICK w \in Full(AtDesk) :
          Arrives(r, [Asking("reset", AtDesk, w) EXCEPT !.pc = "gate", !.target = u])
    BY <1>5 DEF ArriveReset
  <2> DEFINE a == Asking("reset", AtDesk, w)
             q == [a EXCEPT !.pc = "gate", !.target = u]
  <2>3. a \in Asked
    <3>1. w \in Row
      BY <1>1, <2>1
    <3> QED
      BY <2>1, <3>1, <1>2, AskingType
  <2>4. Arrives(r, q)
    BY <2>2
  <2> HIDE DEF a
  <2>5. q \in Asked /\ q.pc # "act"
    BY <2>1, <2>3, <1>2 DEF Asked
  <2> HIDE DEF q
  <2> QED
    BY <2>4, <2>5, ArrivesSound
<1>6. ASSUME ArriveCreate(r, AtDesk) PROVE IInv'
  <2>1. AtDesk \in Browsers
    BY DEF AtDesk, Browsers
  <2>2. PICK w \in Full(AtDesk) :
          Arrives(r, [Asking("create", AtDesk, w) EXCEPT !.pc = "gate"])
    BY <1>6 DEF ArriveCreate
  <2> DEFINE a == Asking("create", AtDesk, w)
             q == [a EXCEPT !.pc = "gate"]
  <2>3. a \in Asked
    <3>1. w \in Row
      BY <1>1, <2>1
    <3> QED
      BY <2>1, <3>1, <1>2, AskingType
  <2>4. Arrives(r, q)
    BY <2>2
  <2> HIDE DEF a
  <2>5. q \in Asked /\ q.pc # "act"
    BY <2>1, <2>3, <1>2 DEF Asked
  <2> HIDE DEF q
  <2> QED
    BY <2>4, <2>5, ArrivesSound
<1>7. ASSUME ArriveOthers(r, 2) PROVE IInv'
  <2>1. PICK w \in Full(2) : Arrives(r, [Asking("others", 2, w) EXCEPT !.pc = "read"])
    BY <1>7 DEF ArriveOthers
  <2> DEFINE a == Asking("others", 2, w)
             q == [a EXCEPT !.pc = "read"]
  <2>3. a \in Asked
    <3>1. w \in Row
      BY <1>1, <1>2
    <3> QED
      BY <3>1, <1>2, AskingType
  <2>4. Arrives(r, q)
    BY <2>1
  <2> HIDE DEF a
  <2>5. q \in Asked /\ q.pc # "act"
    BY <2>3, <1>2 DEF Asked
  <2> HIDE DEF q
  <2> QED
    BY <2>4, <2>5, ArrivesSound
<1>8. ASSUME NEW t \in 1..MaxTokens, ArriveOther(r, 2, t) PROVE IInv'
  <2>1. t \in Nat /\ 2 \in Browsers
    BY <1>2, SignInAssumption
  <2>2. PICK w \in Full(2) :
          Arrives(r, [Asking("other", 2, w) EXCEPT !.pc = "read", !.target = t])
    BY <1>8 DEF ArriveOther
  <2> DEFINE a == Asking("other", 2, w)
             q == [a EXCEPT !.pc = "read", !.target = t]
  <2>3. a \in Asked
    <3>1. w \in Row
      BY <1>1, <2>1
    <3> QED
      BY <2>1, <3>1, <1>2, AskingType
  <2>4. Arrives(r, q)
    BY <2>2
  <2> HIDE DEF a
  <2>5. q \in Asked /\ q.pc # "act"
    BY <2>1, <2>3, <1>2 DEF Asked
  <2> HIDE DEF q
  <2> QED
    BY <2>4, <2>5, ArrivesSound
<1> QED
  BY <1>3, <1>4, <1>5, <1>6, <1>7, <1>8 DEF Arrival

\* The gate and a client that goes away change no row.
LEMMA GateSound ==
    ASSUME IInv, NEW r \in Requests, Enter(r) \/ HangUp(r)
    PROVE  IInv'
<1>1. req[r] \in Asked
  BY DEF IInv, ReqInv
<1>2. UNCHANGED <<shown, now>>
  BY DEF Enter, HangUp, shown, store, count, history
<1>3. CASE Enter(r)
  <2> DEFINE q == [req[r] EXCEPT !.pc = "read"]
  <2>1. q \in Asked /\ ~Admitted(q)
    BY <1>1 DEF Asked, Places, Admitted
  <2>2. Moves(r, q)
    BY <1>1, <1>3 DEF Enter, Moves, IInv, ReqInv
  <2> QED
    BY <1>2, <2>1, <2>2, OnlyRequest
<1>4. CASE HangUp(r)
  <2> DEFINE q == IF req[r].pc = "gate" THEN Idle ELSE [req[r] EXCEPT !.gone = TRUE]
  <2>1. q \in Asked
    <3>1. [req[r] EXCEPT !.gone = TRUE] \in Asked
      BY <1>1 DEF Asked
    <3> QED
      BY <3>1, IdleType
  <2>2. Admitted(q) => /\ Admitted(req[r]) /\ q.user = req[r].user
                       /\ q.vouched = req[r].vouched /\ q.overtaken = req[r].overtaken
                       /\ q.out = req[r].out /\ q.secret = req[r].secret
    BY <1>1 DEF Asked, Idle, Admitted
  <2>3. Admitted(q) => Holder(q)
    BY <2>2 DEF IInv, ReqInv, Holder, Current
  <2>4. Moves(r, q)
    BY <1>1, <1>4 DEF HangUp, Moves, IInv, ReqInv
  <2> HIDE DEF q
  <2> QED
    BY <1>2, <2>1, <2>3, <2>4, OnlyRequest
<1> QED
  BY <1>3, <1>4

\* A password that was read is compared; only a user's own lets the sign-in
\* go on.
LEMMA VerifySound ==
    ASSUME IInv, NEW r \in Requests, VerifyLogin(r) \/ VerifyChange(r)
    PROVE  IInv'
<1>1. req[r] \in Asked
  BY DEF IInv, ReqInv
<1>2. UNCHANGED <<shown, now>>
  BY DEF VerifyLogin, VerifyChange, shown, store, count, history
<1>3. CASE VerifyLogin(r)
  <2> DEFINE q == [req[r] EXCEPT !.pc = "act", !.out = Outcome(req[r]),
                                 !.vouched = gen[req[r].user]]
             u == req[r].user
  <2>1. /\ Outcome(req[r]) \in Outs
        /\ Outcome(req[r]) \in {"verified", "onetime"} => users[u].role # "none"
        /\ Outcome(req[r]) = "onetime" => users[u].hash = req[r].secret
    BY DEF Outcome, Outs
  <2>2. /\ q \in Asked /\ q.out = Outcome(req[r]) /\ q.user = u
        /\ q.secret = req[r].secret /\ q.vouched = gen[u]
    <3>1. gen[u] \in Nat
      BY <1>1 DEF IInv, StoreInv, StoreType, Asked
    <3> QED
      BY <1>1, <2>1, <3>1 DEF Asked, Places
  <2>3. Moves(r, q)
    BY <1>3 DEF VerifyLogin
  <2> HIDE DEF q
  <2>4. Admitted(q) => Holder(q)
    BY <2>1, <2>2 DEF Admitted, Holder, Current
  <2> QED
    BY <1>2, <2>2, <2>3, <2>4, OnlyRequest
<1>4. CASE VerifyChange(r)
  <2>1. req[r].op = "change"
    BY <1>4 DEF VerifyChange
  <2>2. \E q \in {[req[r] EXCEPT !.pc = "act"],
                  [req[r] EXCEPT !.pc = "answer", !.out = "failed"]} : Moves(r, q)
    BY <1>4 DEF VerifyChange
  <2>3. PICK q \in {[req[r] EXCEPT !.pc = "act"],
                    [req[r] EXCEPT !.pc = "answer", !.out = "failed"]} : Moves(r, q)
    BY <2>2
  <2>4. q \in Asked /\ q.op = "change"
    BY <1>1, <2>1 DEF Asked, Places, Outs
  <2>5. ~Admitted(q)
    BY <2>4 DEF Admitted
  <2> QED
    BY <1>2, <2>3, <2>4, <2>5, OnlyRequest
<1> QED
  BY <1>3, <1>4

\* The transaction of a sign-in.
LEMMA OpenSessionSound ==
    ASSUME IInv, NEW r \in Requests, OpenSession(r)
    PROVE  IInv'
<1> DEFINE u == req[r].user
<1>1. req[r] \in Asked /\ u \in Users /\ tokens + 1 \in Nat
  BY DEF IInv, ReqInv, Asked, StoreInv, StoreType
<1>2. /\ req[r].op = "login" /\ req[r].pc = "act"
      /\ now' = now /\ secrets' = secrets /\ gen' = gen /\ handed' = handed
  BY DEF OpenSession
<1>3. ASSUME NEW forced \in BOOLEAN, Opens(r, forced), Stay PROVE ReqInv'
  <2> DEFINE q == [req[r] EXCEPT !.pc = "answer", !.out = "done", !.token = tokens + 1]
  <2>1. q \in Asked /\ ~Admitted(q)
    BY <1>1 DEF Outs, Asked, Places, Admitted
  <2>2. Moves(r, q)
    BY <1>3 DEF Opens
  <2> HIDE DEF q
  <2> QED
    BY <1>3, <2>1, <2>2, RequestMoved DEF IInv
<1>4. CASE req[r].out = "verified"
  <2>1. Opens(r, FALSE) /\ UNCHANGED <<users, bought, worked>>
    BY <1>4 DEF OpenSession
  <2>2. Holder(req[r])
    BY <1>2, <1>4 DEF IInv, ReqInv, Admitted
  <2>3. StoreInv'
    BY <1>1, <1>2, <2>1, <2>2, OpenedByPassword DEF IInv, Opens
  <2>4. Stay
    BY <1>2, <2>1, UsersStay
  <2> QED
    BY <1>3, <2>1, <2>3, <2>4 DEF IInv
<1>5. CASE req[r].out = "onetime" /\ Spends(u)
  <2>1. /\ Opens(r, TRUE)
        /\ users' = [users EXCEPT ![u].hash = 0, ![u].until = 0]
        /\ bought' = [bought EXCEPT ![u] = @ + 1]
        /\ Worked(req[r])
    BY <1>5 DEF OpenSession
  <2>2. Holder(req[r])
    BY <1>2, <1>5 DEF IInv, ReqInv, Admitted
  <2>3. StoreInv'
    BY <1>1, <1>2, <1>5, <2>1, <2>2, OpenedByOneTime DEF IInv, Opens
  <2>4. Stay
    <3>1. \A v \in Users : users'[v].role = users[v].role
      BY <1>1, <2>1 DEF IInv, StoreInv, StoreType
    <3>2. users'[u].until = 0 /\ \A v \in Users \ {u} : users'[v] = users[v]
      BY <1>1, <2>1 DEF IInv, StoreInv, StoreType
    <3> QED
      BY <1>2, <3>1, <3>2 DEF Stay, Stays, Keeps
  <2> QED
    BY <1>3, <2>1, <2>3, <2>4 DEF IInv
<1>6. CASE req[r].out # "verified" /\ ~(req[r].out = "onetime" /\ Spends(u))
  <2>1. Rejects(r)
    BY <1>6 DEF OpenSession
  <2>2. Stay /\ UNCHANGED <<users, rows, tokens, bought, worked>>
    BY <1>2, <2>1, UsersStay DEF Rejects
  <2>3. ReqInv'
    <3> DEFINE q == [req[r] EXCEPT !.pc = "answer", !.out = "failed"]
    <3>1. q \in Asked /\ ~Admitted(q)
      BY <1>1 DEF Outs, Asked, Places, Admitted
    <3>2. Moves(r, q)
      BY <2>1 DEF Rejects
    <3> HIDE DEF q
    <3> QED
      BY <2>2, <3>1, <3>2, RequestMoved DEF IInv
  <2>4. /\ log' \in [Users -> Counts]
        /\ \A v \in Users : /\ log'[v].created = log[v].created
                            /\ log'[v].revoked = log[v].revoked
                            /\ log'[v].expired = log[v].expired
    <3>1. log \in [Users -> Counts]
      BY DEF IInv, StoreInv, StoreType, Counts
    <3>2. CASE log' = log
      BY <3>1, <3>2
    <3>3. CASE log' = WithEvents(log, u, "failed", 1)
      BY <1>1, <3>1, <3>3, FailureCounted
    <3> QED
      BY <2>1, <3>2, <3>3 DEF Rejects
  <2>5. StoreType' /\ TokensName' /\ RowsVouched'
    BY <1>2, <2>2, <2>4 DEF IInv, StoreInv, StoreType, TokensName, RowsVouched, Counts
  <2>6. Spendable' /\ NoOlderRow' /\ OneTimeHolds'
    BY <1>2, <2>2 DEF IInv, StoreInv, Spendable, Standing, NoOlderRow, OneTimeHolds
  <2>7. SecretsApart' /\ Unspent'
    BY <1>2, <2>2 DEF IInv, StoreInv, SecretsApart, Unspent, Unworked
  <2>8. LogAccountsForRows'
    <3>1. \A v \in Users : RowsOf(v)' = RowsOf(v)
      BY <2>2 DEF RowsOf
    <3> QED
      BY <2>4, <3>1 DEF IInv, StoreInv, LogAccountsForRows
  <2> QED
    BY <2>3, <2>5, <2>6, <2>7, <2>8 DEF IInv, StoreInv
<1> QED
  BY <1>4, <1>5, <1>6

\* The transaction of a password change.
LEMMA ApplyChangeSound ==
    ASSUME IInv, NEW r \in Requests, ApplyChange(r)
    PROVE  IInv'
<1>1. req[r] \in Asked /\ tokens + 1 \in Nat /\ req[r].user \in Users
  BY DEF IInv, ReqInv, StoreInv, StoreType, Asked
<1>2. now' = now /\ handed' = handed /\ bought' = bought /\ worked' = worked
  BY DEF ApplyChange
<1>3. CASE \E w \in Find(req[r].token) : w.user = req[r].user
  <2> DEFINE q == [req[r] EXCEPT !.pc = "answer", !.out = "done", !.token = tokens + 1]
  <2>1. /\ Rotated(req[r]) /\ tokens' = tokens + 1 /\ secrets' = secrets + 1
        /\ users' = [users EXCEPT ![req[r].user].hash = secrets + 1,
                                  ![req[r].user].until = 0]
        /\ gen' = [gen EXCEPT ![req[r].user] = @ + 1]
        /\ MovesPast(r, q, req[r].user)
    BY <1>3 DEF ApplyChange
  <2>2. StoreInv'
    BY <1>1, <1>2, <1>3, <2>1, ChangeSound DEF IInv
  <2>3. /\ \A v \in Users : Stays(v)
        /\ \A v \in Users \ {req[r].user} : Keeps(v)
    <3>1. /\ \A v \in Users : users'[v].role = users[v].role
          /\ \A v \in Users \ {req[r].user} : users'[v] = users[v] /\ gen'[v] = gen[v]
      BY <1>1, <2>1 DEF IInv, StoreInv, StoreType
    <3> QED
      BY <3>1 DEF Stays, Keeps
  <2>4. q \in Asked /\ ~Admitted(q)
    BY <1>1 DEF Outs, Asked, Places, Admitted
  <2> HIDE DEF q
  <2> QED
    BY <1>1, <2>1, <2>2, <2>3, <2>4, RequestMovedPast DEF IInv
<1>4. CASE ~\E w \in Find(req[r].token) : w.user = req[r].user
  <2> DEFINE q == [req[r] EXCEPT !.pc = "answer", !.out = "refused"]
  <2>1. Moves(r, q) /\ UNCHANGED <<store, count, gen>>
    BY <1>4 DEF ApplyChange
  <2>2. q \in Asked /\ ~Admitted(q)
    BY <1>1 DEF Outs, Asked, Places, Admitted
  <2>3. UNCHANGED <<shown, now>>
    BY <1>2, <2>1 DEF shown, store, count
  <2> HIDE DEF q
  <2> QED
    BY <2>1, <2>2, <2>3, OnlyRequest
<1> QED
  BY <1>3, <1>4

\* What the admin's requests, and ending sessions, do before their
\* transaction.
LEMMA PrepareSound ==
    ASSUME IInv, NEW r \in Requests, Prepare(r)
    PROVE  IInv'
<1> DEFINE role == users[req[r].user].role
           p == [req[r] EXCEPT !.role = role]
<1>1. req[r] \in Asked /\ role \in Roles
  BY DEF IInv, ReqInv, StoreInv, StoreType, Asked
<1>2. p \in Asked /\ p.op # "login"
  BY <1>1 DEF Prepare, Asked
<1>3. Touch(p) /\ UNCHANGED <<users, log, now, secrets, tokens, gen, handed, bought,
                             worked>>
  BY DEF Prepare, count, history
<1>4. \E q \in {[p EXCEPT !.pc = "act"], [p EXCEPT !.pc = "answer", !.out = "refused"]} :
         Moves(r, q)
  BY DEF Prepare
<1> HIDE DEF p
<1>5. PICK q \in {[p EXCEPT !.pc = "act"], [p EXCEPT !.pc = "answer", !.out = "refused"]} :
         Moves(r, q)
  BY <1>4
<1>6. q \in Asked /\ q.op # "login"
  BY <1>2 DEF Asked, Places, Outs
<1>7. ~Admitted(q) /\ Stay
  BY <1>3, <1>6, UsersStay DEF Admitted
<1>8. ReqInv'
  BY <1>5, <1>6, <1>7, RequestMoved DEF IInv
<1>9. StoreInv'
  <2>1. CASE rows' = {Touched(w, p.token) : w \in rows}
    BY <1>3, <2>1, TouchSound DEF IInv
  <2>2. CASE rows' = rows
    <3>1. now' \in Nat /\ UNCHANGED shown
      BY <1>3, <2>2 DEF shown, IInv, StoreInv, StoreType
    <3> QED
      BY <3>1, StoreKept DEF IInv
  <2> QED
    BY <1>3, <2>1, <2>2 DEF Touch
<1> QED
  BY <1>8, <1>9 DEF IInv

\* A request whose work is done or refused has its answer.
LEMMA AnsweredSound ==
    ASSUME IInv, NEW r \in Requests, Stay, NEW out \in Outs,
           Moves(r, [req[r] EXCEPT !.pc = "answer", !.out = out])
    PROVE  ReqInv'
<1> DEFINE q == [req[r] EXCEPT !.pc = "answer", !.out = out]
<1>1. q \in Asked /\ ~Admitted(q)
  <2>1. req[r] \in Asked /\ "answer" \in Places
    BY DEF IInv, ReqInv, Places
  <2>2. q \in Asked /\ q.pc = "answer"
    BY <2>1 DEF Asked
  <2> QED
    BY <2>2 DEF Admitted
<1>2. Moves(r, q)
  OBVIOUS
<1> HIDE DEF q
<1> QED
  BY <1>1, <1>2, RequestMoved DEF IInv

\* The admin's transactions: a reset ends the rows of the user it is about,
\* a creation finds none.
LEMMA AdminSound ==
    ASSUME IInv, NEW r \in Requests, ApplyReset(r) \/ ApplyCreate(r)
    PROVE  IInv'
<1>1. /\ req[r] \in Asked /\ now' = now /\ tokens' = tokens /\ bought' = bought
      /\ worked' = worked
  BY DEF IInv, ReqInv, ApplyReset, ApplyCreate
<1>2. "done" \in Outs /\ "refused" \in Outs /\ Fresh \in Users
  BY DEF Outs, Users
<1>3. CASE RefusedOne(r)
  <2>1. UNCHANGED shown /\ Stay
    BY <1>1, <1>3, UsersStay DEF RefusedOne, shown, store
  <2>2. ReqInv'
    BY <1>2, <1>3, <2>1, AnsweredSound DEF RefusedOne
  <2>3. now' \in Nat
    BY <1>1 DEF IInv, StoreInv, StoreType
  <2> QED
    BY <2>1, <2>2, <2>3, StoreKept DEF IInv
<1>4. CASE ApplyReset(r) /\ WithinReach(req[r])
  <2> DEFINE u == req[r].target
  <2>1. u \in Users /\ users[u].role # "none"
    BY <1>4 DEF WithinReach
  <2>2. /\ HandsOut(u, users[u].role) /\ EndRows(u, RowsOf(u))
        /\ gen' = [gen EXCEPT ![u] = @ + 1] /\ MovesPast(r, Answered(r), u)
    BY <1>4 DEF ApplyReset
  <2>3. /\ StoreInv' /\ \A v \in Users : Stays(v)
        /\ \A v \in Users \ {u} : Keeps(v)
    BY <1>1, <2>1, <2>2, ResetSound DEF IInv
  <2>4. ReqInv'
    <3> DEFINE q == Answered(r)
    <3>1. q \in Asked /\ ~Admitted(q) /\ MovesPast(r, q, u)
      BY <1>1, <1>2, <2>2 DEF Answered, Asked, Places, Admitted
    <3> HIDE DEF q
    <3> QED
      BY <2>1, <2>3, <3>1, RequestMovedPast DEF IInv
  <2> QED
    BY <2>3, <2>4 DEF IInv
<1>5. CASE ApplyCreate(r) /\ ~LoginTaken /\ ~RefusedOne(r)
  <2>1. /\ HandsOut(Fresh, "member") /\ Moves(r, Answered(r)) /\ users[Fresh].role = "none"
        /\ rows' = rows /\ log' = log /\ gen' = gen
    BY <1>5 DEF ApplyCreate, LoginTaken
  <2>2. StoreInv' /\ Stay
    BY <1>1, <1>2, <2>1, CreateSound DEF IInv
  <2>3. ReqInv'
    BY <1>2, <2>1, <2>2, AnsweredSound DEF Answered
  <2> QED
    BY <2>2, <2>3 DEF IInv
<1>6. RefusedOne(r) \/ (ApplyReset(r) /\ WithinReach(req[r]))
        \/ (ApplyCreate(r) /\ ~LoginTaken /\ ~RefusedOne(r))
  BY DEF ApplyReset, ApplyCreate
<1> QED
  BY <1>3, <1>4, <1>5, <1>6

\* The transactions that end one's other sessions.
LEMMA EndSound ==
    ASSUME IInv, NEW r \in Requests, ApplyOthers(r) \/ ApplyOther(r)
    PROVE  IInv'
<1>1. /\ UNCHANGED <<users, now, secrets, tokens, gen, handed, bought, worked>>
      /\ Moves(r, Answered(r)) /\ req[r].user \in Users
  BY DEF ApplyOthers, ApplyOther, count, history, IInv, ReqInv, Asked
<1>2. \E ended \in SUBSET RowsOf(req[r].user) : EndRows(req[r].user, ended)
  <2>1. EndOthers(req[r].user, req[r].token) \in SUBSET RowsOf(req[r].user)
    BY DEF EndOthers
  <2>2. {w \in Find(req[r].target) : w.user = req[r].user} \in SUBSET RowsOf(req[r].user)
    BY DEF Find, RowsOf
  <2> QED
    BY <2>1, <2>2 DEF ApplyOthers, ApplyOther
<1>3. StoreInv'
  BY <1>1, <1>2, RevocationSound DEF IInv
<1>4. Stay /\ "done" \in Outs
  BY <1>1, UsersStay DEF Outs
<1>5. ReqInv'
  BY <1>1, <1>4, AnsweredSound DEF Answered
<1> QED
  BY <1>3, <1>5 DEF IInv

\* An answer leaves the store as it is.
LEMMA AnswerSound ==
    ASSUME IInv, NEW r \in Requests, AnswerLogin(r) \/ AnswerChange(r) \/ AnswerPlain(r)
    PROVE  IInv'
<1>1. Returns(r)
  BY DEF AnswerLogin, AnswerChange, AnswerPlain
<1>2. Moves(r, Idle) /\ UNCHANGED <<shown, now>>
  BY <1>1 DEF Returns, Moves, shown, store, count, history
<1> QED
  BY <1>2, IdleType, OnlyRequest

\* Signing out and the sweep end rows of any user, each counted for its own.
LEMMA SweepSound ==
    ASSUME IInv, PruneExpired \/ \E b \in Away : SignOut(b)
    PROVE  IInv'
<1>1. UNCHANGED <<users, now, secrets, tokens, gen, handed, bought, worked>> /\ req' = req
  BY DEF PruneExpired, SignOut, count, history
<1>2. ReqInv'
  BY <1>1, RequestsKept DEF IInv
<1>3. log \in [Users -> Counts]
  BY DEF IInv, StoreInv, StoreType, Counts
<1>4. ASSUME NEW ended \in SUBSET rows, NEW u PROVE Cardinality({w \in ended : w.user = u}) \in Nat
  <2>1. {w \in ended : w.user = u} \in SUBSET rows
    OBVIOUS
  <2> QED
    BY <2>1, EndedCount DEF IInv, StoreInv, TokensName
<1>5. CASE PruneExpired
  <2> DEFINE ended == {w \in rows : Expired(w)}
             n(u) == Cardinality({w \in ended : w.user = u})
  <2>1. /\ ended \in SUBSET rows /\ rows' = rows \ ended
        /\ log' = [u \in Users |-> [log[u] EXCEPT !.expired = @ + n(u)]]
    BY <1>5 DEF PruneExpired
  <2>2. \A u \in Users : n(u) \in Nat
    BY <1>4
  <2> HIDE DEF ended, n
  <2>3. \A u \in Users :
          /\ log'[u] \in Counts /\ log'[u].created = log[u].created
          /\ log'[u].revoked + log'[u].expired = log[u].revoked + log[u].expired + n(u)
    BY <1>3, <2>1, <2>2 DEF Counts
  <2>4. log' \in [Users -> Counts]
    BY <2>1, <2>3
  <2>5. StoreInv'
    BY <1>1, <2>1, <2>3, <2>4, RowsEnded DEF IInv, n
  <2> QED
    BY <1>2, <2>5 DEF IInv
<1>6. ASSUME NEW b \in Away, SignOut(b) PROVE IInv'
  <2> DEFINE ended == Find(cookie[b])
             n(u) == Cardinality({w \in ended : w.user = u})
  <2>1. /\ ended \in SUBSET rows /\ rows' = rows \ ended
        /\ log' = [u \in Users |-> [log[u] EXCEPT !.revoked = @ + n(u)]]
    BY <1>6 DEF SignOut, Find
  <2>2. \A u \in Users : n(u) \in Nat
    BY <1>4, <2>1
  <2> HIDE DEF ended, n
  <2>3. \A u \in Users :
          /\ log'[u] \in Counts /\ log'[u].created = log[u].created
          /\ log'[u].revoked + log'[u].expired = log[u].revoked + log[u].expired + n(u)
    BY <1>3, <2>1, <2>2 DEF Counts
  <2>4. log' \in [Users -> Counts]
    BY <2>1, <2>3
  <2>5. StoreInv'
    BY <1>1, <2>1, <2>3, <2>4, RowsEnded DEF IInv, n
  <2> QED
    BY <1>2, <2>5 DEF IInv
<1> QED
  BY <1>5, <1>6

\* Time passes.
LEMMA TickSound ==
    ASSUME IInv, Tick
    PROVE  IInv'
<1>1. now' \in Nat /\ UNCHANGED shown /\ req' = req
  BY DEF Tick, shown, store, count, history, IInv, StoreInv, StoreType
<1> QED
  BY <1>1, StoreKept, RequestsKept DEF IInv, shown

-----------------------------------------------------------------------------
(* The invariant *)

\* The users and sessions the server starts with.
LEMMA InitSound ==
    Init => IInv
<1> SUFFICES ASSUME Init PROVE IInv
  OBVIOUS
<1> DEFINE first(u) == [token |-> u, user |-> u, forced |-> FALSE, created |-> 0,
                        seen |-> 1, gen |-> 0, vouched |-> 0, overtaken |-> FALSE]
<1>1. rows = {first(1), first(2)}
  BY DEF Init, Owner, Member
<1>2. \A u \in {1, 2} : /\ first(u) \in Row /\ first(u).user = u /\ first(u).token = u
                        /\ first(u).forced = FALSE /\ first(u).gen = 0
                        /\ first(u).vouched = 0
  BY DEF Row, Users, Owner, Member
<1> HIDE DEF first
<1>3. /\ users \in [Users -> [role: Roles, hash: Nat, until: Nat]]
      /\ users[1].role = "owner" /\ users[2].role = "member"
      /\ \A u \in Users : users[u].until = 0 /\ users[u].hash = IF u = 3 THEN 0 ELSE u
  BY DEF Init, Users, Owner, Member, Fresh, Roles
<1>4. /\ log \in [Users -> Counts]
      /\ \A u \in Users : /\ log[u].created = IF u = 3 THEN 0 ELSE 1
                          /\ log[u].revoked = 0 /\ log[u].expired = 0
  BY DEF Init, Fresh, Counts
<1>5. /\ gen = [u \in Users |-> 0] /\ handed = [u \in Users |-> 0]
      /\ bought = [u \in Users |-> 0] /\ now = 1 /\ secrets = 2 /\ tokens = 2
      /\ req = [r \in Requests |-> Idle]
      /\ worked = [s \in 1..MaxSecrets |-> [intime |-> 0, late |-> 0]]
  BY DEF Init
<1>6. StoreType
  BY <1>1, <1>2, <1>3, <1>4, <1>5 DEF StoreType, Counts
<1>7. TokensName
  <2>1. IsFiniteSet(rows)
    <3>1. IsFiniteSet({first(1)} \cup {first(2)})
      BY FS_Singleton, FS_Union
    <3>2. rows = {first(1)} \cup {first(2)}
      BY <1>1
    <3> QED
      BY <3>1, <3>2
  <2> QED
    BY <1>1, <1>2, <1>5, <2>1 DEF TokensName
<1>8. RowsVouched /\ NoOlderRow /\ OneTimeHolds
  <2>1. 1 \in Users /\ 2 \in Users
    BY DEF Users, Owner, Member
  <2> QED
    BY <1>1, <1>2, <1>3, <1>5, <2>1 DEF RowsVouched, NoOlderRow, OneTimeHolds
<1>9. Spendable
  BY <1>3, <1>5 DEF Spendable, Standing
<1>10. SecretsApart /\ Unspent
  BY <1>3, <1>5 DEF SecretsApart, Unspent, Unworked, Users, Owner, Member, Fresh
<1>11. LogAccountsForRows
  <2>1. ASSUME NEW u \in {1, 2}
        PROVE  log[u].created = log[u].revoked + log[u].expired + Cardinality(RowsOf(u))
    <3>1. RowsOf(u) = {first(u)}
      BY <1>1, <1>2 DEF RowsOf
    <3>2. Cardinality(RowsOf(u)) = 1
      BY <3>1, FS_Singleton
    <3>3. u \in Users /\ u # 3
      BY DEF Users, Owner, Member
    <3> QED
      BY <3>2, <3>3, <1>4
  <2>2. log[3].created = log[3].revoked + log[3].expired + Cardinality(RowsOf(3))
    <3>1. RowsOf(3) = {}
      BY <1>1, <1>2 DEF RowsOf
    <3>2. Cardinality(RowsOf(3)) = 0
      BY <3>1, FS_EmptySet
    <3>3. 3 \in Users
      BY DEF Users, Fresh
    <3> QED
      BY <3>2, <3>3, <1>4
  <2> QED
    BY <2>1, <2>2 DEF LogAccountsForRows, Users, Owner, Member, Fresh
<1>12. ReqInv
  BY <1>5, IdleType DEF ReqInv
<1> QED
  BY <1>6, <1>7, <1>8, <1>9, <1>10, <1>11, <1>12 DEF IInv, StoreInv

\* No step breaks the invariant.
LEMMA NextSound ==
    IInv /\ [Next]_vars => IInv'
<1> SUFFICES ASSUME IInv, [Next]_vars PROVE IInv'
  OBVIOUS
<1>1. ASSUME NEW r \in Requests, Arrival(r) PROVE IInv'
  BY <1>1, ArrivalSound
<1>2. ASSUME NEW r \in Requests, Enter(r) \/ HangUp(r) PROVE IInv'
  BY <1>2, GateSound
<1>3. ASSUME NEW r \in Requests, Works(r) PROVE IInv'
  BY <1>3, VerifySound, OpenSessionSound, ApplyChangeSound, PrepareSound, AdminSound,
     EndSound, AnswerSound DEF Works
<1>4. ASSUME PruneExpired \/ \E b \in Away : SignOut(b) PROVE IInv'
  BY <1>4, SweepSound
<1>5. CASE Tick
  BY <1>5, TickSound
<1>6. CASE UNCHANGED vars
  <2>1. now' \in Nat /\ UNCHANGED shown /\ req' = req
    BY <1>6 DEF vars, shown, store, count, history, IInv, StoreInv, StoreType
  <2> QED
    BY <2>1, StoreKept, RequestsKept DEF IInv, shown
<1> QED
  BY <1>1, <1>2, <1>3, <1>4, <1>5, <1>6 DEF Next

\* The invariant holds of every state the server reaches.
LEMMA Invariance ==
    Spec => []IInv
<1>1. Init => IInv
  BY InitSound
<1>2. IInv /\ [Next]_vars => IInv'
  BY NextSound
<1> QED
  BY <1>1, <1>2, PTL DEF Spec

-----------------------------------------------------------------------------
(* What it is for *)

\* Whatever ends a session (sign-out, a revocation, a password change, a
\* reset, the sweep), the log of events accounts for every row: for any
\* number of requests in flight.
THEOREM EventsAccountForSessions ==
    Spec => []LogAccountsForRows
<1>1. IInv => LogAccountsForRows
  BY DEF IInv, StoreInv
<1> QED
  BY <1>1, Invariance, PTL

\* No session outlives a change or a reset of its user's password, a session
\* stands by the password its user has unless a change or reset fell between
\* the check of its sign-in and its transaction, and a one-time password buys
\* one session but for the same: for any number of requests in flight.
THEOREM SessionsStandByPasswords ==
    Spec => []SessionsStand
<1>1. IInv => SessionsStand
  BY DEF IInv, StoreInv, SessionsStand
<1> QED
  BY <1>1, Invariance, PTL
=============================================================================
