---------------------------- MODULE AccountGate ----------------------------
(***************************************************************************)
(* One account of the server, from the moment it is linked to its removal: *)
(* its row (the stop and the credential), the connection gate in memory,   *)
(* the refresh of OAuth tokens and the consents.  Everybody who connects   *)
(* upstream for the account is a handler: the user's retry, the periodic   *)
(* probe, the proxy of a JMAP account, the connector of an IMAP account,   *)
(* a credential the user types and the callback a consent ends with.       *)
(*                                                                         *)
(* A step ends where the code awaits: the account's lock, the provider,    *)
(* the upstream server or a blocking task of the store.  A handler whose   *)
(* client goes away is dropped where it awaits; a blocking task it         *)
(* started still runs, without the lock.                                   *)
(*                                                                         *)
(* A credential is a grant (what the user typed or consented to) and the   *)
(* turn of its refresh token, which the provider may renew at every        *)
(* refresh; a password keeps turn 0.  Time is counted in run windows.      *)
(***************************************************************************)
EXTENDS Integers, FiniteSets

CONSTANTS
  Handlers,               \* request handlers and bridge tasks, the probe aside
  Probe,                  \* the periodic probe, one task
  Free, None,             \* no holder, no consent
  Consents,               \* the consents the user starts, by their state word
  MAX_REFUSED_RUN,
  CONSENT_TTL,            \* in run windows
  MaxNow, MaxGrants, MaxTurns, MaxFaults   \* bounds of the model

ASSUME GateAssumption ==
  /\ MAX_REFUSED_RUN \in Nat \ {0}
  /\ {CONSENT_TTL, MaxNow, MaxTurns, MaxFaults} \subseteq Nat /\ MaxGrants \in Nat \ {0}
  /\ Probe \notin Handlers /\ Free \notin Handlers \cup {Probe} /\ None \notin Consents

VARIABLES
  kind,       \* accounts.kind: JMAP behind the proxy or IMAP behind the bridge
  row,        \* the row of accounts
  runs,       \* Memory.runs: the run of refused connections
  lock,       \* Memory.locks: who holds the account's lock
  handler,    \* what every handler is doing
  late,       \* rotated tokens whose write outlives its handler
  consents,   \* Consents.entries
  now, faults,
  grants,     \* external: credentials handed out so far
  valid,      \* external: grants the provider and the server honour
  turnAt,     \* external: the turn the provider takes for a grant
  chosen,     \* history: the grant the user stored last
  cut,        \* history: a refresh whose answer was lost, or a write of the
              \* credential that outlived its handler, and the lock with it
  ended,      \* history: consents the user was told are ended
  stored      \* history: consents whose tokens were written

gate     == <<runs, lock>>
external == <<grants, valid, turnAt>>
history  == <<chosen, cut, ended, stored>>
vars == <<kind, row, gate, handler, late, consents, now, faults, external, history>>

All    == Handlers \cup {Probe}
Grants == 1..MaxGrants
Left   == [stage |-> "left", born |-> 0, reconnect |-> FALSE]
NoRun  == [windows |-> 0, opened |-> 0]

Kinds  == {"retry", "probe", "proxy", "connect", "submit",
           "replace", "add", "reconnect", "first"}
Places == {"idle", "hold", "read", "refresh", "rotate", "revoked", "sent",
           "settle", "stop", "passed", "resume", "exchange", "store", "tell"}
Outs   == {"none", "pass", "credential", "connection", "undecided"}

Idle == [what |-> "retry", pc |-> "idle", grant |-> 0, turn |-> 0,
         oauth |-> FALSE, out |-> "none", at |-> 0, consent |-> None, gone |-> FALSE]

Rows     == [status: {"new", "linked", "removed"},
             stop: {"none", "credentials", "connection"},
             oauth: BOOLEAN, grant: 0..MaxGrants, turn: 0..MaxTurns, live: BOOLEAN]
Runs     == [windows: 0..(MAX_REFUSED_RUN - 1), opened: 0..MaxNow]
Attempts == [what: Kinds, pc: Places, grant: 0..MaxGrants, turn: 0..MaxTurns,
             oauth: BOOLEAN, out: Outs, at: 0..MaxNow,
             consent: Consents \cup {None}, gone: BOOLEAN]
Entries  == [stage: {"unborn", "Waiting", "Exchanging", "Done", "Denied", "left"},
             born: 0..MaxNow, reconnect: BOOLEAN]

TypeOK ==
  /\ kind \in {"jmap", "imap"}
  /\ row \in Rows /\ runs \in Runs
  /\ lock \in All \cup {Free}
  /\ handler \in [All -> Attempts]
  /\ late \in SUBSET [grant: 0..MaxGrants, turn: 0..MaxTurns]
  /\ consents \in [Consents -> Entries]
  /\ now \in 0..MaxNow /\ faults \in 0..MaxFaults /\ grants \in 0..MaxGrants
  /\ valid \in SUBSET Grants
  /\ turnAt \in [Grants -> 0..MaxTurns]
  /\ chosen \in 0..MaxGrants /\ cut \in BOOLEAN
  /\ ended \in SUBSET Consents /\ stored \in SUBSET Consents

Linked == row.status = "linked"

-----------------------------------------------------------------------------
(* The row: every operator is one transaction of the store, and what it    *)
(* leaves when the row is gone (StoreError::NotFound) is the row as it is. *)

Add(g, oauth) ==
  [row EXCEPT !.status = "linked", !.oauth = oauth, !.grant = g]

\* A stop on the credentials outranks one on the connection.
Stop(cause) ==
  IF ~Linked \/ row.stop \in {cause, "credentials"} THEN row
  ELSE [row EXCEPT !.stop = cause]

Resume == IF Linked THEN [row EXCEPT !.stop = "none"] ELSE row

ReplaceCredential(g, oauth) ==
  [row EXCEPT !.oauth = oauth, !.grant = g, !.turn = 0, !.live = TRUE,
              !.stop = IF @ = "credentials" THEN "none" ELSE @]

UpdateCredential(g, t) ==
  IF Linked THEN [row EXCEPT !.oauth = TRUE, !.grant = g, !.turn = t, !.live = TRUE] ELSE row

Remove == [row EXCEPT !.status = "removed", !.stop = "none", !.oauth = FALSE,
                      !.grant = 0, !.turn = 0, !.live = FALSE]

-----------------------------------------------------------------------------
(* The gate.                                                               *)

\* Instants saturate: an outcome older than the window's opening is in it.
Count(at) ==
  IF runs.windows > 0 /\ at - runs.opened < 1 THEN runs
  ELSE [windows |-> runs.windows + 1, opened |-> at]

Becomes(h, pc)     == handler' = [handler EXCEPT ![h].pc = pc]
Settles(h, out)    == handler' = [handler EXCEPT ![h].pc = "settle", ![h].out = out, ![h].at = now]
Release(h)         == lock' = IF lock = h THEN Free ELSE lock
\* Mutant: an attempt ends and keeps the account's lock.
EndsHolding(h)     == handler' = [handler EXCEPT ![h] = Idle] /\ UNCHANGED lock
Ends(h)            == handler' = [handler EXCEPT ![h] = Idle] /\ Release(h)

\* What an attempt that came to its end hands on; a submission reports
\* nothing.
Concludes(h, out) ==
  IF handler[h].what = "submit" THEN Ends(h) ELSE Settles(h, out) /\ UNCHANGED lock

\* A candidate, or a password the connector read, goes out as it is; the
\* others read the row under the lock.
AfterHold(h) == IF handler[h].what \in {"retry", "probe"} \/ handler[h].oauth THEN "read" ELSE "sent"

\* Mutant: attempts on one account run side by side.
HoldShared(h) ==
  /\ handler[h].pc = "hold"
  /\ lock' = h
  /\ Becomes(h, AfterHold(h))
  /\ UNCHANGED <<kind, row, runs, late, consents, now, faults, external, history>>

\* Who wants the lock waits for it; nobody else gets it meanwhile.
Hold(h) ==
  /\ handler[h].pc = "hold"
  /\ lock = Free
  /\ lock' = h
  /\ Becomes(h, AfterHold(h))
  /\ UNCHANGED <<kind, row, runs, late, consents, now, faults, external, history>>

-----------------------------------------------------------------------------
(* Where an attempt begins.                                                *)

Begin(h, what, pc, g, oauth) ==
  /\ handler[h].pc = "idle"
  /\ handler' = [handler EXCEPT ![h] = [Idle EXCEPT !.what = what, !.pc = pc,
                                                        !.grant = g, !.oauth = oauth]]
  /\ UNCHANGED <<kind, row, gate, late, consents, now, faults, history>>

Retry(h) == Linked /\ Begin(h, "retry", "hold", 0, FALSE) /\ UNCHANGED external

\* One account of the probe's pass: listed, then its scope resolved.
ProbeOnce == Linked /\ row.stop = "connection" /\ Begin(Probe, "probe", "hold", 0, FALSE) /\ UNCHANGED external

\* The route read the row as running; no provider of OAuth speaks JMAP.
Forward(h) ==
  /\ kind = "jmap" /\ Linked /\ row.stop = "none"
  /\ Begin(h, "proxy", "sent", row.grant, FALSE)
  /\ UNCHANGED external

\* The connector reads the row before it waits for the lock.
Connect(h) ==
  /\ kind = "imap" /\ Linked /\ row.stop = "none"
  /\ \E what \in {"connect", "submit"} : Begin(h, what, "hold", row.grant, row.oauth)
  /\ UNCHANGED external

\* A credential the user types is right or wrong.
Typed ==
  /\ grants < MaxGrants
  /\ grants' = grants + 1
  /\ valid' \in {valid, valid \cup {grants + 1}}
  /\ UNCHANGED turnAt

ReplaceCredentials(h) ==
  Linked /\ Begin(h, "replace", "hold", grants + 1, FALSE) /\ Typed

AddAccount(h) ==
  row.status = "new" /\ Begin(h, "add", "sent", grants + 1, FALSE) /\ Typed

-----------------------------------------------------------------------------
(* The credential an attempt signs in with.                                *)

\* A check never sends a credential that was refused before; the others
\* come here for the OAuth token alone.
RefusedBefore(h) == row.stop = "credentials" /\ handler[h].what \in {"retry", "probe"}

CheckStored(h) ==
  /\ handler[h].pc = "read"
  /\ \/ ~Linked /\ Concludes(h, "undecided")
     \/ Linked /\ RefusedBefore(h) /\ Concludes(h, "credential")
     \/ /\ Linked /\ ~RefusedBefore(h)
        /\ IF handler[h].oauth /\ ~row.oauth THEN Concludes(h, "undecided")
           ELSE /\ handler' = [handler EXCEPT ![h].grant = row.grant, ![h].turn = row.turn,
                                 ![h].pc = IF row.oauth /\ ~row.live THEN "refresh" ELSE "sent"]
                /\ UNCHANGED lock
  /\ UNCHANGED <<kind, row, runs, late, consents, now, faults, external, history>>

\* External: the provider takes a refresh token once where it rotates them.
Honoured(h) == handler[h].grant \in valid /\ turnAt[handler[h].grant] = handler[h].turn
Rotates(h) ==
  /\ Honoured(h)
  /\ \E t \in {handler[h].turn, handler[h].turn + 1} \cap 0..MaxTurns :
       turnAt' = [turnAt EXCEPT ![handler[h].grant] = t]
  /\ UNCHANGED <<grants, valid>>

AccessToken(h) ==
  /\ handler[h].pc = "refresh"
  /\ \/ /\ Rotates(h)
        /\ handler' = [handler EXCEPT ![h].pc = "rotate", ![h].turn = turnAt'[handler[h].grant]]
        /\ UNCHANGED <<lock, faults>>
     \/ /\ ~Honoured(h)
        /\ Becomes(h, "revoked")
        /\ UNCHANGED <<lock, faults, external>>
     \/ \* unreachable, refused, or no client registered
        /\ faults < MaxFaults /\ faults' = faults + 1
        /\ Concludes(h, "connection")
        /\ UNCHANGED external
  /\ UNCHANGED <<kind, row, runs, late, consents, now, history>>

\* The blocking end of access_token: the rotated tokens, or the stop.
StoreRotated(h) ==
  /\ handler[h].pc = "rotate"
  /\ row' = UpdateCredential(handler[h].grant, handler[h].turn)
  /\ IF Linked THEN Becomes(h, "sent") /\ UNCHANGED lock ELSE Concludes(h, "undecided")
  /\ UNCHANGED <<kind, runs, late, consents, now, faults, external, history>>

StopRevoked(h) ==
  /\ handler[h].pc = "revoked"
  /\ row' = Stop("credentials")
  /\ Concludes(h, "credential")
  /\ UNCHANGED <<kind, runs, late, consents, now, faults, external, history>>

-----------------------------------------------------------------------------
(* The upstream's answer, and what the gate makes of it.                   *)

\* External: the server refuses a grant that is not valid; it may also not
\* be reached, take too long or answer oddly.
Answers(g) == (IF g \in valid THEN {"pass"} ELSE {"credential"})
              \cup (IF faults < MaxFaults THEN {"connection", "undecided"} ELSE {})

\* A typed or consented credential that passes is stored, one that does
\* not is not judged by the gate; a submission tells the gate nothing.
Candidate(h) == handler[h].what \in {"replace", "add", "reconnect", "first"}
Denies(h) ==
  IF handler[h].what \in {"reconnect", "first"} /\ ~handler[h].gone
  THEN handler' = [handler EXCEPT ![h].pc = "tell", ![h].out = "undecided"] /\ Release(h)
  ELSE Ends(h)

Answered(h, out) ==
  \/ ~Candidate(h) /\ Concludes(h, out)
  \/ Candidate(h) /\ out = "pass" /\ Becomes(h, "store") /\ UNCHANGED lock
  \/ Candidate(h) /\ out # "pass" /\ Denies(h)

Check(h) ==
  /\ handler[h].pc = "sent"
  /\ ~(handler[h].what \in {"replace", "reconnect"} /\ ~Linked)
  /\ \E out \in Answers(handler[h].grant) :
       /\ faults' = IF out \in {"connection", "undecided"} THEN faults + 1 ELSE faults
       /\ Answered(h, out)
  /\ UNCHANGED <<kind, row, runs, late, consents, now, external, history>>

\* target_of: the row left while a candidate waited for the lock.
TargetGone(h) ==
  /\ handler[h].pc = "sent" /\ handler[h].what \in {"replace", "reconnect"} /\ ~Linked
  /\ Denies(h)
  /\ UNCHANGED <<kind, row, runs, late, consents, now, faults, external, history>>

Resumes(h) == handler[h].what \in {"retry", "probe"}

\* apply: what the outcome does to the memory; the row follows in a step
\* of its own.
Apply(h) ==
  /\ handler[h].pc = "settle"
  /\ LET out == handler[h].out  counted == Count(handler[h].at) IN
       \/ /\ out = "pass" /\ (Resumes(h) \/ runs # NoRun)
          /\ runs' = NoRun /\ Becomes(h, "resume") /\ UNCHANGED lock
       \/ /\ \/ out = "undecided"
             \/ out = "pass" /\ ~Resumes(h) /\ runs = NoRun
          /\ Ends(h) /\ UNCHANGED runs
       \/ /\ out = "credential"
          /\ runs' = NoRun /\ Becomes(h, "stop") /\ UNCHANGED lock
       \/ /\ out = "connection" /\ counted.windows >= MAX_REFUSED_RUN
          /\ runs' = NoRun /\ Becomes(h, "stop") /\ UNCHANGED lock
       \/ /\ out = "connection" /\ counted.windows < MAX_REFUSED_RUN
          /\ runs' = counted /\ Ends(h)
  /\ UNCHANGED <<kind, row, late, consents, now, faults, external, history>>

StopRow(h) ==
  /\ handler[h].pc = "stop"
  /\ row' = Stop(IF handler[h].out = "credential" THEN "credentials" ELSE "connection")
  /\ Ends(h)
  /\ UNCHANGED <<kind, runs, late, consents, now, faults, external, history>>

\* passed: the memory first, then the row.
Passed(h) ==
  /\ handler[h].pc = "passed"
  /\ runs' = NoRun
  /\ Becomes(h, "resume")
  /\ UNCHANGED <<kind, row, lock, late, consents, now, faults, external, history>>

ResumeRow(h) ==
  /\ handler[h].pc = "resume"
  /\ row' = Resume
  /\ IF handler[h].what = "reconnect" /\ ~handler[h].gone
     THEN /\ handler' = [handler EXCEPT ![h].pc = "tell",
                           ![h].out = IF Linked THEN "pass" ELSE "undecided"]
          /\ Release(h)
     ELSE Ends(h)
  /\ UNCHANGED <<kind, runs, late, consents, now, faults, external, history>>

\* replace_credential and accounts::add.  A row this consent's account
\* does not have yet is another account's when ours was linked meanwhile.
StoreTokens(h) ==
  /\ handler[h].pc = "store"
  /\ LET what == handler[h].what  g == handler[h].grant IN
       \/ /\ what \in {"replace", "reconnect"} /\ Linked
          /\ row' = ReplaceCredential(g, what = "reconnect") /\ chosen' = g
          /\ stored' = stored \cup ({handler[h].consent} \cap Consents)
          /\ Becomes(h, "passed") /\ UNCHANGED lock
       \/ /\ what \in {"replace", "reconnect"} /\ ~Linked
          /\ Denies(h)
          /\ UNCHANGED <<row, chosen, stored>>
       \/ /\ what \in {"add", "first"}
          /\ row' = IF row.status = "new" THEN Add(g, what = "first") ELSE row
          /\ chosen' = IF row.status = "new" THEN g ELSE chosen
          /\ stored' = stored \cup ({handler[h].consent} \cap Consents)
          /\ IF what = "first" /\ ~handler[h].gone
             THEN handler' = [handler EXCEPT ![h].pc = "tell", ![h].out = "pass"] /\ UNCHANGED lock
             ELSE Ends(h)
  /\ UNCHANGED <<kind, runs, late, consents, now, faults, external, cut, ended>>

-----------------------------------------------------------------------------
(* Consents.                                                               *)

Alive(c)  == now - consents[c].born < CONSENT_TTL
Filed     == {c \in Consents : consents[c].stage \notin {"unborn", "left"}}

\* A start files the consent and drops the expired ones.
StartConsent(c) ==
  /\ consents[c].stage = "unborn" /\ kind = "imap"
  /\ row.status = "new" \/ (Linked /\ row.oauth)
  /\ consents' = [d \in Consents |->
       IF d = c THEN [stage |-> "Waiting", born |-> now, reconnect |-> Linked]
       ELSE IF d \in Filed /\ ~Alive(d) THEN Left ELSE consents[d]]
  /\ UNCHANGED <<kind, row, gate, handler, late, now, faults, external, history>>

\* So many more starts of the same user that this consent gives way; the
\* settled ones go before the open ones, but open ones go too.
GivesWay(c) ==
  /\ c \in Filed
  /\ consents' = [consents EXCEPT ![c] = Left]
  /\ UNCHANGED <<kind, row, gate, handler, late, now, faults, external, history>>

\* A claim takes the consent once; the browser may call back again.
Callback(h, c) ==
  /\ handler[h].pc = "idle"
  /\ consents[c].stage = "Waiting" /\ Alive(c)
  /\ consents' = [consents EXCEPT ![c].stage = "Exchanging"]
  /\ handler' = [handler EXCEPT ![h] = [Idle EXCEPT !.pc = "exchange", !.consent = c,
                    !.what = IF consents[c].reconnect THEN "reconnect" ELSE "first"]]
  /\ UNCHANGED <<kind, row, gate, late, now, faults, external, history>>

\* The code becomes tokens, or the consent is denied: by the user, by the
\* provider, or for want of a refresh token.
Exchange(h) ==
  /\ handler[h].pc = "exchange"
  /\ \/ /\ grants < MaxGrants
        /\ grants' = grants + 1 /\ valid' = valid \cup {grants + 1}
        /\ handler' = [handler EXCEPT ![h].grant = grants + 1,
                         ![h].pc = IF handler[h].what = "reconnect" THEN "hold" ELSE "sent"]
     \/ /\ handler' = [handler EXCEPT ![h].pc = "tell", ![h].out = "undecided"]
        /\ UNCHANGED <<grants, valid>>
  /\ UNCHANGED <<kind, row, gate, late, consents, now, faults, turnAt, history>>

SettleConsent(h) ==
  /\ handler[h].pc = "tell"
  /\ LET c == handler[h].consent IN
       consents' = IF c \notin Filed THEN consents
                   ELSE [consents EXCEPT ![c].stage =
                           IF handler[h].out = "pass" THEN "Done" ELSE "Denied"]
  /\ handler' = [handler EXCEPT ![h] = Idle]
  /\ UNCHANGED <<kind, row, gate, late, now, faults, external, history>>

\* Mutant: a consent the callback has claimed can still be ended.
EndConsentClaimed(c) ==
  /\ consents[c].stage \in {"Waiting", "Exchanging"} /\ Alive(c)
  /\ consents' = [consents EXCEPT ![c] = Left]
  /\ ended' = ended \cup {c}
  /\ UNCHANGED <<kind, row, gate, handler, late, now, faults, external, chosen, cut, stored>>

EndConsent(c) ==
  /\ consents[c].stage = "Waiting" /\ Alive(c)
  /\ consents' = [consents EXCEPT ![c] = Left]
  /\ ended' = ended \cup {c}
  /\ UNCHANGED <<kind, row, gate, handler, late, now, faults, external, chosen, cut, stored>>

-----------------------------------------------------------------------------
(* Removal, and what nobody asked for.                                     *)

\* The row leaves and the gate forgets the run and the lock; who holds or
\* awaits the old lock finds the row gone.
RemoveAccount ==
  /\ Linked
  /\ row' = Remove
  /\ runs' = NoRun /\ lock' = Free
  /\ UNCHANGED <<kind, handler, late, consents, now, faults, external, history>>

\* A credential that passed is about to replace the row's.
ChangesRow(h) == handler[h].pc = "store" /\ handler[h].what \in {"replace", "reconnect"}

\* The awaiting future is dropped: the client went away.  A blocking task
\* runs on without the lock; a request at the provider may have been taken.
Drop(h) ==
  /\ h # Probe /\ ~handler[h].gone
  /\ handler[h].what \notin {"connect", "submit"}
  /\ faults < MaxFaults /\ faults' = faults + 1
  /\ \/ /\ handler[h].pc \in {"hold", "read", "refresh", "sent", "exchange"}
        /\ handler' = [handler EXCEPT ![h] = Idle]
        /\ UNCHANGED <<late, external, cut>>
     \/ /\ handler[h].pc = "refresh" /\ Rotates(h) /\ cut' = TRUE
        /\ handler' = [handler EXCEPT ![h] = Idle]
        /\ UNCHANGED late
     \/ /\ handler[h].pc = "rotate" /\ cut' = TRUE
        /\ late' = late \cup {[grant |-> handler[h].grant, turn |-> handler[h].turn]}
        /\ handler' = [handler EXCEPT ![h] = Idle]
        /\ UNCHANGED external
     \/ /\ handler[h].pc \in {"settle", "stop", "store", "passed", "resume"}
        /\ handler' = [handler EXCEPT ![h].gone = TRUE]
        /\ cut' = (cut \/ ChangesRow(h))
        /\ UNCHANGED <<late, external>>
  /\ Release(h)
  /\ UNCHANGED <<kind, row, runs, consents, now, chosen, ended, stored>>

\* The connector's own deadline drops the sign-in and counts a refused
\* connection, or just ends a submission.
Elapsed(h) ==
  /\ handler[h].what \in {"connect", "submit"}
  /\ faults < MaxFaults /\ faults' = faults + 1
  /\ \/ /\ handler[h].pc \in {"read", "refresh", "sent"}
        /\ UNCHANGED <<late, external, cut>>
     \/ /\ handler[h].pc = "refresh" /\ Rotates(h) /\ cut' = TRUE
        /\ UNCHANGED late
     \/ /\ handler[h].pc = "rotate" /\ cut' = TRUE
        /\ late' = late \cup {[grant |-> handler[h].grant, turn |-> handler[h].turn]}
        /\ UNCHANGED external
  /\ IF handler[h].what = "connect" THEN Settles(h, "connection") /\ UNCHANGED lock ELSE Ends(h)
  /\ UNCHANGED <<kind, row, runs, consents, now, chosen, ended, stored>>

LateRotated ==
  \E l \in late :
    /\ row' = UpdateCredential(l.grant, l.turn)
    /\ late' = late \ {l}
    /\ UNCHANGED <<kind, gate, handler, consents, now, faults, external, history>>

\* A restart forgets the memory: runs, locks, consents and handlers.
Restart ==
  /\ faults < MaxFaults /\ faults' = faults + 1
  /\ runs' = NoRun /\ lock' = Free /\ late' = {}
  /\ handler' = [h \in All |-> Idle]
  /\ consents' = [c \in Consents |->
                    IF c \in Filed THEN Left ELSE consents[c]]
  /\ cut' = (cut \/ late # {} \/ \E h \in All : handler[h].pc = "rotate")
  /\ UNCHANGED <<kind, row, now, external, chosen, ended, stored>>

Tick ==
  /\ now < MaxNow /\ now' = now + 1
  /\ UNCHANGED <<kind, row, gate, handler, late, consents, faults, external, history>>

\* External: an access token runs out; the user or the provider withdraws
\* a grant.
Expire ==
  /\ Linked /\ row.oauth /\ row.live /\ row.turn < MaxTurns
  /\ row' = [row EXCEPT !.live = FALSE]
  /\ UNCHANGED <<kind, gate, handler, late, consents, now, faults, external, history>>

Revoke ==
  /\ faults < MaxFaults /\ faults' = faults + 1
  /\ \E g \in valid : valid' = valid \ {g}
  /\ UNCHANGED <<kind, row, gate, handler, late, consents, now, grants, turnAt, history>>

-----------------------------------------------------------------------------
Init ==
  /\ kind \in {"jmap", "imap"}
  /\ row \in [status: {"new", "linked"}, stop: {"none"}, oauth: BOOLEAN,
              grant: {0, 1}, turn: {0}, live: {TRUE}]
  /\ row.status = "new" => row.grant = 0 /\ ~row.oauth
  /\ row.status = "linked" => row.grant = 1
  /\ row.oauth => kind = "imap"
  /\ runs = NoRun /\ lock = Free /\ late = {}
  /\ handler = [h \in All |-> Idle]
  /\ consents = [c \in Consents |-> [stage |-> "unborn", born |-> 0, reconnect |-> FALSE]]
  /\ now = 0 /\ faults = 0
  /\ grants = row.grant /\ valid = 1..row.grant
  /\ turnAt = [g \in Grants |-> 0]
  /\ chosen = row.grant /\ cut = FALSE /\ ended = {} /\ stored = {}

Starts(h) ==
  \/ Retry(h) \/ Forward(h) \/ Connect(h) \/ ReplaceCredentials(h) \/ AddAccount(h)
  \/ \E c \in Consents : Callback(h, c)

Steps(h) ==
  \/ CheckStored(h) \/ AccessToken(h) \/ StoreRotated(h) \/ StopRevoked(h)
  \/ Check(h) \/ TargetGone(h) \/ Apply(h) \/ StopRow(h) \/ Passed(h) \/ ResumeRow(h)
  \/ StoreTokens(h) \/ Exchange(h) \/ SettleConsent(h)

Next ==
  \/ \E h \in Handlers : Starts(h)
  \/ \E h \in All : Hold(h) \/ Steps(h) \/ Drop(h) \/ Elapsed(h)
  \/ ProbeOnce
  \/ \E c \in Consents : StartConsent(c) \/ GivesWay(c) \/ EndConsent(c)
  \/ RemoveAccount \/ LateRotated
  \/ Restart \/ Tick \/ Expire \/ Revoke

Spec == Init /\ [][Next]_vars

\* The runtime polls every handler that is ready, the account lock serves
\* who waits in order, and the probe ticks as long as the process lives.
Fairness ==
  /\ \A h \in All : WF_vars(Steps(h)) /\ SF_vars(Hold(h))
  /\ WF_vars(ProbeOnce)

FairSpec == Spec /\ Fairness
-----------------------------------------------------------------------------
(* What must hold.                                                         *)

\* As long as no refresh was cut off and no write outlived the lock its
\* handler held, the row holds the credential the user stored last and the
\* refresh token the provider takes next: no refresh under the account's
\* lock loses a rotated token or writes the tokens of a credential that was
\* replaced meanwhile (gate/mod.rs, hold; oauth/refresh.rs, access_token).
\* Where a client leaves while the task that replaces its credential runs,
\* the next attempt gets the lock before the task is done, and what it
\* refreshed may be written over the new credential.
CredentialStands ==
  Linked /\ ~cut =>
    /\ row.grant = chosen
    /\ \/ row.turn = turnAt[row.grant]
       \/ \E h \in All : /\ handler[h].pc = "rotate" /\ lock = h
                         /\ handler[h].grant = row.grant
                         /\ handler[h].turn = turnAt[row.grant]

\* A consent does what the card is told: one that was ended stores nothing,
\* one that reads done has stored its tokens, one that reads denied has not
\* (unless the account left under it), and two callbacks never work on the
\* same consent (oauth/consents.rs, claim, settle and end; api/oauth.rs,
\* finish).
ConsentHolds ==
  /\ ended \cap stored = {}
  /\ \A c \in Consents : consents[c].stage = "Done" => c \in stored
  /\ \A c \in Consents : consents[c].stage = "Denied" /\ Linked => c \notin stored
  /\ \A h, i \in All : handler[h].consent \in Consents /\ handler[h].consent = handler[i].consent => h = i

\* The probe brings back an account stopped on refused connections once
\* its server answers again: it resumes, or it is stopped for a reason the
\* user must act on, or it is removed (gate/reconnect.rs, probe_once).
ProbeResumes == row.stop = "connection" ~> row.stop # "connection"

=============================================================================
