-------------------------- MODULE AccountGateProofs -------------------------
(***************************************************************************)
(* What AccountGate shows for every number of handlers, every number of    *)
(* consents and every bound on faults, grants and turns of a token.        *)
(***************************************************************************)
EXTENDS AccountGate, TLAPS

-----------------------------------------------------------------------------
(* Types *)

\* An attempt that is not there is well formed.
LEMMA IdleType ==
    Idle \in Attempts
  BY GateAssumption DEF Idle, Attempts, Kinds, Places, Outs

\* Changing one handler keeps them handlers.
LEMMA OneHandler ==
    ASSUME TypeOK, NEW h \in All, NEW q \in Attempts, handler' = [handler EXCEPT ![h] = q]
    PROVE  /\ handler' \in [All -> Attempts] /\ handler'[h] = q
           /\ \A i \in All \ {h} : handler'[i] = handler[i]
  BY DEF TypeOK

\* What ends an attempt or hands on its outcome.
LEMMA ConcludesType ==
    ASSUME TypeOK, NEW h \in All, NEW out \in Outs, Concludes(h, out)
    PROVE  handler' \in [All -> Attempts] /\ lock' \in All \cup {Free}
  BY IdleType DEF TypeOK, Concludes, Ends, Settles, Release, Attempts, Places

\* A candidate that is not stored, and whoever is told of it.
LEMMA DeniesType ==
    ASSUME TypeOK, NEW h \in All, Denies(h)
    PROVE  handler' \in [All -> Attempts] /\ lock' \in All \cup {Free}
  BY IdleType DEF TypeOK, Denies, Ends, Release, Attempts, Places, Outs

\* A handler that goes on.
LEMMA BecomesType ==
    ASSUME TypeOK, NEW h \in All, NEW pc \in Places, Becomes(h, pc)
    PROVE  handler' \in [All -> Attempts]
  BY DEF TypeOK, Becomes, Attempts

\* A handler that ends lets go of the lock.
LEMMA EndsType ==
    ASSUME TypeOK, NEW h \in All, Ends(h)
    PROVE  handler' \in [All -> Attempts] /\ lock' \in All \cup {Free}
  BY IdleType DEF TypeOK, Ends, Release

\* The row as its transactions leave it.
LEMMA RowType ==
    ASSUME TypeOK, NEW g \in 0..MaxGrants, NEW t \in 0..MaxTurns, NEW o \in BOOLEAN,
           NEW cause \in {"credentials", "connection"}
    PROVE  /\ Add(g, o) \in Rows /\ Stop(cause) \in Rows /\ Resume \in Rows
           /\ ReplaceCredential(g, o) \in Rows /\ UpdateCredential(g, t) \in Rows
           /\ Remove \in Rows
<1>1. row \in Rows /\ 0 \in 0..MaxTurns /\ 0 \in 0..MaxGrants
  BY GateAssumption DEF TypeOK
<1>2. Add(g, o) \in Rows /\ Stop(cause) \in Rows /\ Resume \in Rows
  BY <1>1 DEF Rows, Add, Stop, Resume, Linked
<1>3. ReplaceCredential(g, o) \in Rows /\ UpdateCredential(g, t) \in Rows
  BY <1>1 DEF Rows, ReplaceCredential, UpdateCredential, Linked
<1>4. Remove \in Rows
  BY <1>1 DEF Rows, Remove
<1> QED
  BY <1>2, <1>3, <1>4

\* The run an outcome is counted in.
LEMMA CountType ==
    ASSUME TypeOK, NEW at \in 0..MaxNow, Count(at).windows < MAX_REFUSED_RUN
    PROVE  Count(at) \in Runs
<1>1. runs \in Runs /\ MAX_REFUSED_RUN \in Nat \ {0}
  BY GateAssumption DEF TypeOK
<1> QED
  BY <1>1 DEF Count, Runs

\* An attempt begins well formed.
LEMMA BeginType ==
    ASSUME TypeOK, NEW h \in All, NEW what \in Kinds, NEW pc \in Places,
           NEW g \in 0..MaxGrants, NEW o \in BOOLEAN, Begin(h, what, pc, g, o),
           grants' \in 0..MaxGrants, valid' \in SUBSET Grants, turnAt' = turnAt
    PROVE  TypeOK'
<1> DEFINE q == [Idle EXCEPT !.what = what, !.pc = pc, !.grant = g, !.oauth = o]
<1>1. q \in Attempts
  BY IdleType DEF Attempts
<1>2. handler' = [handler EXCEPT ![h] = q]
  BY DEF Begin
<1> HIDE DEF q
<1>3. handler' \in [All -> Attempts]
  BY <1>1, <1>2, OneHandler
<1> QED
  BY <1>3 DEF Begin, TypeOK, gate, history

\* Where an attempt begins.
LEMMA StartsType ==
    ASSUME TypeOK, NEW h \in Handlers, Starts(h)
    PROVE  TypeOK'
<1>1. /\ h \in All /\ row.grant \in 0..MaxGrants /\ row.oauth \in BOOLEAN
      /\ 0 \in 0..MaxGrants /\ {"hold", "sent"} \subseteq Places
      /\ {"retry", "proxy", "connect", "submit", "replace", "add"} \subseteq Kinds
  BY GateAssumption DEF All, TypeOK, Rows, Places, Kinds
<1>2. CASE Retry(h)
  BY <1>1, <1>2, BeginType DEF Retry, external, TypeOK
<1>3. CASE Forward(h)
  BY <1>1, <1>3, BeginType DEF Forward, external, TypeOK
<1>4. CASE Connect(h)
  <2>1. PICK what \in {"connect", "submit"} : Begin(h, what, "hold", row.grant, row.oauth)
    BY <1>4 DEF Connect
  <2> QED
    BY <1>1, <1>4, <2>1, BeginType DEF Connect, external, TypeOK
<1>5. CASE ReplaceCredentials(h) \/ AddAccount(h)
  <2>1. /\ grants' \in 0..MaxGrants /\ grants + 1 \in 0..MaxGrants
        /\ valid' \in SUBSET Grants /\ turnAt' = turnAt
    <3>1. Typed
      BY <1>5 DEF ReplaceCredentials, AddAccount
    <3>2. grants < MaxGrants /\ grants' = grants + 1 /\ grants \in 0..MaxGrants
      BY <3>1 DEF Typed, TypeOK
    <3>3. grants + 1 \in Grants /\ grants + 1 \in 0..MaxGrants
      BY <3>2, GateAssumption DEF Grants
    <3> QED
      BY <3>1, <3>2, <3>3 DEF Typed, TypeOK
  <2> QED
    BY <1>1, <1>5, <2>1, BeginType DEF ReplaceCredentials, AddAccount
<1>6. ASSUME NEW c \in Consents, Callback(h, c) PROVE TypeOK'
  <2> DEFINE q == [Idle EXCEPT !.pc = "exchange", !.consent = c,
                     !.what = IF consents[c].reconnect THEN "reconnect" ELSE "first"]
  <2>1. q \in Attempts
    BY IdleType DEF Attempts, Places, Kinds
  <2>2. handler' = [handler EXCEPT ![h] = q]
    BY <1>6 DEF Callback
  <2> HIDE DEF q
  <2>3. handler' \in [All -> Attempts]
    BY <1>1, <2>1, <2>2, OneHandler
  <2>4. consents' \in [Consents -> Entries]
    BY <1>6 DEF Callback, TypeOK, Entries
  <2> QED
    BY <1>6, <2>3, <2>4 DEF Callback, TypeOK, gate, external, history
<1> QED
  BY <1>2, <1>3, <1>4, <1>5, <1>6 DEF Starts

\* What a handler is to do next, and with which credential.
LEMMA CredentialType ==
    ASSUME TypeOK, NEW h \in All,
           Hold(h) \/ CheckStored(h) \/ AccessToken(h) \/ StoreRotated(h) \/ StopRevoked(h)
    PROVE  TypeOK'
<1>1. handler \in [All -> Attempts] /\ handler[h] \in Attempts
      /\ handler[h].grant \in 0..MaxGrants /\ handler[h].turn \in 0..MaxTurns
  BY DEF TypeOK, Attempts
<1>2. {"credential", "connection", "undecided"} \subseteq Outs
      /\ {"read", "sent", "refresh", "rotate", "revoked"} \subseteq Places
  BY DEF Outs, Places
<1>3. CASE Hold(h)
  <2>1. AfterHold(h) \in Places
    BY <1>2 DEF AfterHold
  <2>2. handler' \in [All -> Attempts] /\ lock' \in All
    BY <1>3, <2>1, BecomesType DEF Hold
  <2> QED
    BY <1>3, <2>2 DEF Hold, TypeOK, external, history
<1>4. CASE CheckStored(h)
  <2>1. handler' \in [All -> Attempts] /\ lock' \in All \cup {Free}
    <3>1. CASE \E out \in {"credential", "undecided"} : Concludes(h, out)
      BY <1>2, <3>1, ConcludesType
    <3>2. CASE /\ handler' = [handler EXCEPT ![h].grant = row.grant, ![h].turn = row.turn,
                                ![h].pc = IF row.oauth /\ ~row.live THEN "refresh" ELSE "sent"]
               /\ lock' = lock
      BY <1>1, <1>2, <3>2 DEF TypeOK, Attempts, Rows
    <3> QED
      BY <1>4, <3>1, <3>2 DEF CheckStored
  <2> QED
    BY <1>4, <2>1 DEF CheckStored, TypeOK, external, history
<1>5. CASE AccessToken(h)
  <2>1. handler' \in [All -> Attempts] /\ lock' \in All \cup {Free} /\ faults' \in 0..MaxFaults
        /\ grants' = grants /\ valid' = valid /\ turnAt' \in [Grants -> 0..MaxTurns]
    <3>1. CASE /\ Rotates(h) /\ UNCHANGED <<lock, faults>>
               /\ handler' = [handler EXCEPT ![h].pc = "rotate",
                                             ![h].turn = turnAt'[handler[h].grant]]
      <4>1. handler[h].grant \in Grants
        BY <3>1 DEF Rotates, Honoured, TypeOK
      <4>2. turnAt' \in [Grants -> 0..MaxTurns] /\ grants' = grants /\ valid' = valid
        BY <1>1, <3>1, <4>1 DEF Rotates, TypeOK
      <4>3. turnAt'[handler[h].grant] \in 0..MaxTurns
        BY <4>1, <4>2
      <4>4. handler' \in [All -> Attempts]
        BY <1>1, <1>2, <3>1, <4>3 DEF Attempts
      <4> QED
        BY <3>1, <4>2, <4>4 DEF TypeOK
    <3>2. CASE Becomes(h, "revoked") /\ UNCHANGED <<lock, faults, external>>
      BY <1>2, <3>2, BecomesType DEF TypeOK, external
    <3>3. CASE /\ faults < MaxFaults /\ faults' = faults + 1 /\ Concludes(h, "connection")
               /\ UNCHANGED external
      <4>1. faults' \in 0..MaxFaults
        BY <3>3, GateAssumption DEF TypeOK
      <4> QED
        BY <1>2, <3>3, <4>1, ConcludesType DEF TypeOK, external
    <3> QED
      BY <1>5, <3>1, <3>2, <3>3 DEF AccessToken
  <2> QED
    BY <1>5, <2>1 DEF AccessToken, TypeOK, history
<1>6. CASE StoreRotated(h)
  <2>1. row' \in Rows
    BY <1>1, <1>6, RowType DEF StoreRotated
  <2>2. handler' \in [All -> Attempts] /\ lock' \in All \cup {Free}
    BY <1>2, <1>6, BecomesType, ConcludesType DEF StoreRotated, TypeOK
  <2> QED
    BY <1>6, <2>1, <2>2 DEF StoreRotated, TypeOK, external, history
<1>7. CASE StopRevoked(h)
  <2>1. row' \in Rows
    BY <1>1, <1>7, RowType DEF StopRevoked
  <2>2. handler' \in [All -> Attempts] /\ lock' \in All \cup {Free}
    BY <1>2, <1>7, ConcludesType DEF StopRevoked
  <2> QED
    BY <1>7, <2>1, <2>2 DEF StopRevoked, TypeOK, external, history
<1> QED
  BY <1>3, <1>4, <1>5, <1>6, <1>7

\* The upstream's answer, and what is made of it.
LEMMA OutcomeType ==
    ASSUME TypeOK, NEW h \in All,
           Check(h) \/ TargetGone(h) \/ Apply(h) \/ StopRow(h) \/ Passed(h)
    PROVE  TypeOK'
<1>1. handler[h] \in Attempts /\ handler[h].at \in 0..MaxNow
  BY DEF TypeOK, Attempts
<1>2. /\ {"pass", "credential", "connection", "undecided"} \subseteq Outs
      /\ {"store", "stop", "resume"} \subseteq Places
      /\ NoRun \in Runs
  BY GateAssumption DEF Outs, Places, NoRun, Runs
<1>3. CASE Check(h)
  <2>1. PICK out \in Answers(handler[h].grant) :
          /\ faults' = IF out \in {"connection", "undecided"} THEN faults + 1 ELSE faults
          /\ Answered(h, out)
    BY <1>3 DEF Check
  <2>2. out \in Outs /\ (out \in {"connection", "undecided"} => faults < MaxFaults)
    BY <1>2, <2>1 DEF Answers
  <2>3. faults' \in 0..MaxFaults
    BY <2>1, <2>2, GateAssumption DEF TypeOK
  <2>4. handler' \in [All -> Attempts] /\ lock' \in All \cup {Free}
    BY <1>2, <2>1, <2>2, ConcludesType, BecomesType, DeniesType DEF Answered, TypeOK
  <2> QED
    BY <1>3, <2>3, <2>4 DEF Check, TypeOK, external, history
<1>4. CASE TargetGone(h)
  <2>1. handler' \in [All -> Attempts] /\ lock' \in All \cup {Free}
    BY <1>4, DeniesType DEF TargetGone
  <2> QED
    BY <1>4, <2>1 DEF TargetGone, TypeOK, external, history
<1>5. CASE Apply(h)
  <2>1. handler' \in [All -> Attempts] /\ lock' \in All \cup {Free} /\ runs' \in Runs
    <3>1. CASE /\ \E pc \in {"resume", "stop"} : Becomes(h, pc)
               /\ runs' = NoRun /\ lock' = lock
      BY <1>2, <3>1, BecomesType DEF TypeOK
    <3>2. CASE Ends(h) /\ runs' = runs
      BY <3>2, EndsType DEF TypeOK
    <3>3. CASE /\ Ends(h) /\ runs' = Count(handler[h].at)
               /\ Count(handler[h].at).windows < MAX_REFUSED_RUN
      BY <1>1, <3>3, EndsType, CountType
    <3> QED
      BY <1>5, <3>1, <3>2, <3>3 DEF Apply
  <2> QED
    BY <1>5, <2>1 DEF Apply, TypeOK, external, history
<1>6. CASE StopRow(h)
  <2>1. row' \in Rows
    <3>1. \E cause \in {"credentials", "connection"} : row' = Stop(cause)
      BY <1>6 DEF StopRow
    <3>2. 0 \in 0..MaxGrants /\ 0 \in 0..MaxTurns
      BY GateAssumption
    <3> QED
      BY <3>1, <3>2, RowType
  <2>2. handler' \in [All -> Attempts] /\ lock' \in All \cup {Free}
    BY <1>6, EndsType DEF StopRow
  <2> QED
    BY <1>6, <2>1, <2>2 DEF StopRow, TypeOK, external, history
<1>7. CASE Passed(h)
  <2>1. handler' \in [All -> Attempts]
    BY <1>2, <1>7, BecomesType DEF Passed
  <2> QED
    BY <1>2, <1>7, <2>1 DEF Passed, TypeOK, external, history
<1> QED
  BY <1>3, <1>4, <1>5, <1>6, <1>7

\* What is written to the row, and told to the card.
LEMMA StoreType ==
    ASSUME TypeOK, NEW h \in All,
           ResumeRow(h) \/ StoreTokens(h) \/ Exchange(h) \/ SettleConsent(h)
    PROVE  TypeOK'
<1>1. /\ handler \in [All -> Attempts] /\ handler[h] \in Attempts
      /\ handler[h].grant \in 0..MaxGrants
      /\ row \in Rows /\ 0 \in 0..MaxGrants /\ 0 \in 0..MaxTurns
      /\ lock \in All \cup {Free}
  BY GateAssumption DEF TypeOK, Attempts
<1>2. {"pass", "undecided"} \subseteq Outs /\ {"tell", "passed", "hold", "sent"} \subseteq Places
  BY DEF Outs, Places
<1>3. ASSUME NEW out \in Outs, NEW pc \in Places
      PROVE  [handler EXCEPT ![h].pc = pc, ![h].out = out] \in [All -> Attempts]
  BY <1>1 DEF Attempts
<1>4. Release(h) => lock' \in All \cup {Free}
  BY <1>1 DEF Release
<1>5. CASE ResumeRow(h)
  <2>1. row' \in Rows
    BY <1>1, <1>5, RowType DEF ResumeRow
  <2>2. handler' \in [All -> Attempts] /\ lock' \in All \cup {Free}
    <3>1. CASE Ends(h)
      BY <3>1, EndsType
    <3>2. CASE /\ handler' = [handler EXCEPT ![h].pc = "tell",
                                ![h].out = IF Linked THEN "pass" ELSE "undecided"]
               /\ Release(h)
      <4>1. (IF Linked THEN "pass" ELSE "undecided") \in Outs
        BY <1>2
      <4> QED
        BY <1>2, <1>3, <1>4, <3>2, <4>1
    <3> QED
      BY <1>5, <3>1, <3>2 DEF ResumeRow
  <2> QED
    BY <1>5, <2>1, <2>2 DEF ResumeRow, TypeOK, external, history
<1>6. CASE StoreTokens(h)
  <2>1. row' \in Rows /\ chosen' \in 0..MaxGrants /\ stored' \in SUBSET Consents
    <3>1. row' \in {row} \cup {Add(handler[h].grant, o) : o \in BOOLEAN}
                   \cup {ReplaceCredential(handler[h].grant, o) : o \in BOOLEAN}
      BY <1>6 DEF StoreTokens
    <3>2. row' \in Rows
      BY <1>1, <3>1, RowType
    <3>3. chosen' \in {chosen, handler[h].grant}
          /\ stored' \in {stored, stored \cup ({handler[h].consent} \cap Consents)}
      BY <1>6 DEF StoreTokens
    <3> QED
      BY <1>1, <3>2, <3>3 DEF TypeOK
  <2>2. handler' \in [All -> Attempts] /\ lock' \in All \cup {Free}
    <3>1. CASE Becomes(h, "passed") /\ lock' = lock
      BY <1>1, <1>2, <3>1, BecomesType
    <3>2. CASE Denies(h)
      BY <3>2, DeniesType
    <3>3. CASE /\ handler' = [handler EXCEPT ![h].pc = "tell", ![h].out = "pass"]
               /\ lock' = lock
      BY <1>1, <1>2, <1>3, <3>3
    <3>4. CASE Ends(h)
      BY <3>4, EndsType
    <3> QED
      BY <1>6, <3>1, <3>2, <3>3, <3>4 DEF StoreTokens
  <2> QED
    BY <1>6, <2>1, <2>2 DEF StoreTokens, TypeOK, external
<1>7. CASE Exchange(h)
  <2>1. /\ handler' \in [All -> Attempts]
        /\ grants' \in 0..MaxGrants /\ valid' \in SUBSET Grants
    <3>1. CASE /\ grants < MaxGrants
               /\ grants' = grants + 1 /\ valid' = valid \cup {grants + 1}
               /\ handler' = [handler EXCEPT ![h].grant = grants + 1,
                                ![h].pc = IF handler[h].what = "reconnect" THEN "hold" ELSE "sent"]
      <4>1. grants + 1 \in 0..MaxGrants /\ grants + 1 \in Grants
        BY <3>1, GateAssumption DEF TypeOK, Grants
      <4>2. handler' \in [All -> Attempts]
        BY <1>1, <1>2, <3>1, <4>1 DEF Attempts
      <4> QED
        BY <3>1, <4>1, <4>2 DEF TypeOK
    <3>2. CASE /\ handler' = [handler EXCEPT ![h].pc = "tell", ![h].out = "undecided"]
               /\ UNCHANGED <<grants, valid>>
      BY <1>2, <1>3, <3>2 DEF TypeOK
    <3> QED
      BY <1>7, <3>1, <3>2 DEF Exchange
  <2> QED
    BY <1>7, <2>1 DEF Exchange, TypeOK, gate, history
<1>8. CASE SettleConsent(h)
  <2>1. handler' \in [All -> Attempts]
    BY <1>1, <1>8, IdleType DEF SettleConsent
  <2>2. consents' \in [Consents -> Entries]
    BY <1>8 DEF SettleConsent, TypeOK, Entries, Filed
  <2> QED
    BY <1>8, <2>1, <2>2 DEF SettleConsent, TypeOK, gate, external, history
<1> QED
  BY <1>5, <1>6, <1>7, <1>8

\* A handler that is dropped, or runs out of time.
LEMMA DroppedType ==
    ASSUME TypeOK, NEW h \in All, Drop(h) \/ Elapsed(h)
    PROVE  TypeOK'
<1>1. /\ handler \in [All -> Attempts] /\ handler[h] \in Attempts
      /\ handler[h].grant \in 0..MaxGrants /\ handler[h].turn \in 0..MaxTurns
  BY DEF TypeOK, Attempts
<1>2. faults' \in 0..MaxFaults
  BY GateAssumption DEF Drop, Elapsed, TypeOK
<1>3. /\ late' \in SUBSET [grant: 0..MaxGrants, turn: 0..MaxTurns]
      /\ cut' \in BOOLEAN
      /\ grants' = grants /\ valid' = valid /\ turnAt' \in [Grants -> 0..MaxTurns]
  <2>1. late' \in {late, late \cup {[grant |-> handler[h].grant, turn |-> handler[h].turn]}}
        /\ cut' \in {cut, TRUE, cut \/ ChangesRow(h)}
        /\ (UNCHANGED external \/ Rotates(h))
    BY DEF Drop, Elapsed
  <2>2. cut' \in BOOLEAN
    BY <2>1 DEF TypeOK
  <2>3. Rotates(h) => turnAt' \in [Grants -> 0..MaxTurns] /\ grants' = grants /\ valid' = valid
    BY <1>1 DEF Rotates, TypeOK
  <2> QED
    BY <1>1, <2>1, <2>2, <2>3 DEF TypeOK, external
<1>4. handler' \in [All -> Attempts] /\ lock' \in All \cup {Free}
  <2>1. CASE Drop(h)
    <3>1. handler' \in {[handler EXCEPT ![h] = Idle], [handler EXCEPT ![h].gone = TRUE]}
          /\ Release(h)
      BY <2>1 DEF Drop
    <3>2. [handler EXCEPT ![h] = Idle] \in [All -> Attempts]
      BY <1>1, IdleType
    <3>3. [handler EXCEPT ![h].gone = TRUE] \in [All -> Attempts]
      BY <1>1 DEF Attempts
    <3> QED
      BY <3>1, <3>2, <3>3 DEF Release, TypeOK
  <2>2. CASE Elapsed(h)
    <3>1. Concludes(h, "connection")
      BY <2>2 DEF Elapsed, Concludes
    <3>2. "connection" \in Outs
      BY DEF Outs
    <3> QED
      BY <3>1, <3>2, ConcludesType
  <2> QED
    BY <2>1, <2>2
<1> QED
  BY <1>2, <1>3, <1>4 DEF Drop, Elapsed, TypeOK

\* The consents, the removal and what nobody asked for.
LEMMA ElseType ==
    ASSUME TypeOK,
           \/ ProbeOnce \/ RemoveAccount \/ LateRotated
           \/ Restart \/ Tick \/ Expire \/ Revoke
           \/ \E c \in Consents : StartConsent(c) \/ GivesWay(c) \/ EndConsent(c)
    PROVE  TypeOK'
<1>1. /\ 0 \in 0..MaxGrants /\ 0 \in 0..MaxTurns /\ 0 \in 0..MaxNow
      /\ NoRun \in Runs /\ Left \in Entries
  BY GateAssumption DEF NoRun, Runs, Left, Entries
<1>2. CASE ProbeOnce
  <2>1. Probe \in All /\ "probe" \in Kinds /\ "hold" \in Places
    BY DEF All, Kinds, Places
  <2> QED
    BY <1>1, <1>2, <2>1, BeginType DEF ProbeOnce, external, TypeOK
<1>3. CASE RemoveAccount
  <2>1. row' \in Rows
    BY <1>1, <1>3, RowType DEF RemoveAccount
  <2> QED
    BY <1>1, <1>3, <2>1 DEF RemoveAccount, TypeOK, external, history
<1>4. CASE LateRotated
  <2>1. PICK l \in late : row' = UpdateCredential(l.grant, l.turn) /\ late' = late \ {l}
    BY <1>4 DEF LateRotated
  <2>2. l.grant \in 0..MaxGrants /\ l.turn \in 0..MaxTurns
    BY <2>1 DEF TypeOK
  <2>3. row' \in Rows
    BY <2>1, <2>2, RowType
  <2> QED
    BY <1>4, <2>1, <2>3 DEF LateRotated, TypeOK, gate, external, history
<1>5. CASE Restart
  <2>1. handler' \in [All -> Attempts]
    BY <1>5, IdleType DEF Restart
  <2>2. consents' \in [Consents -> Entries]
    BY <1>1, <1>5 DEF Restart, TypeOK
  <2>3. cut' \in BOOLEAN /\ faults' \in 0..MaxFaults
    BY <1>5, GateAssumption DEF Restart, TypeOK
  <2> QED
    BY <1>1, <1>5, <2>1, <2>2, <2>3 DEF Restart, TypeOK, external
<1>6. CASE Tick
  BY <1>6, GateAssumption DEF Tick, TypeOK, gate, external, history
<1>7. CASE Expire
  BY <1>7 DEF Expire, TypeOK, Rows, gate, external, history
<1>8. CASE Revoke
  BY <1>8, GateAssumption DEF Revoke, TypeOK, gate, history
<1>9. ASSUME NEW c \in Consents, StartConsent(c) PROVE TypeOK'
  <2>1. [stage |-> "Waiting", born |-> now, reconnect |-> Linked] \in Entries
    BY DEF Entries, TypeOK, Linked
  <2>2. consents' \in [Consents -> Entries]
    BY <1>1, <1>9, <2>1 DEF StartConsent, TypeOK
  <2> QED
    BY <1>9, <2>2 DEF StartConsent, TypeOK, gate, external, history
<1>10. ASSUME NEW c \in Consents, GivesWay(c) \/ EndConsent(c) PROVE TypeOK'
  <2>1. consents' \in [Consents -> Entries] /\ ended' \in SUBSET Consents
    BY <1>1, <1>10 DEF GivesWay, EndConsent, TypeOK, history
  <2> QED
    BY <1>10, <2>1 DEF GivesWay, EndConsent, TypeOK, gate, external, history
<1> QED
  BY <1>2, <1>3, <1>4, <1>5, <1>6, <1>7, <1>8, <1>9, <1>10

\* Every variable keeps its type, step by step.
LEMMA NextType ==
    TypeOK /\ [Next]_vars => TypeOK'
<1> SUFFICES ASSUME TypeOK, [Next]_vars PROVE TypeOK'
  OBVIOUS
<1>1. ASSUME NEW h \in Handlers, Starts(h) PROVE TypeOK'
  BY <1>1, StartsType
<1>2. ASSUME NEW h \in All, Hold(h) \/ Steps(h) PROVE TypeOK'
  BY <1>2, CredentialType, OutcomeType, StoreType DEF Steps
<1>3. ASSUME NEW h \in All, Drop(h) \/ Elapsed(h) PROVE TypeOK'
  BY <1>3, DroppedType
<1>4. CASE UNCHANGED vars
  BY <1>4 DEF vars, TypeOK, gate, external, history
<1> QED
  BY <1>1, <1>2, <1>3, <1>4, ElseType DEF Next

\* A new process starts from a row of the store and an empty memory.
LEMMA InitType ==
    Init => TypeOK
<1> SUFFICES ASSUME Init PROVE TypeOK
  OBVIOUS
<1>1. /\ 0 \in 0..MaxGrants /\ 0 \in 0..MaxTurns /\ 0 \in 0..MaxNow
      /\ 0 \in 0..MaxFaults /\ 1 \in 0..MaxGrants /\ NoRun \in Runs
  BY GateAssumption DEF NoRun, Runs
<1>2. row \in Rows /\ row.grant \in {0, 1}
  BY <1>1 DEF Init, Rows
<1>3. valid \in SUBSET Grants
  BY <1>2, GateAssumption DEF Init, Grants
<1>4. consents \in [Consents -> Entries]
  BY <1>1 DEF Init, Entries
<1> QED
  BY <1>1, <1>2, <1>3, <1>4, IdleType DEF Init, TypeOK

\* The account, its gate and its consents keep their types, for any number
\* of handlers.
THEOREM GateTypeCorrect ==
    Spec => []TypeOK
  BY InitType, NextType, PTL DEF Spec

-----------------------------------------------------------------------------
(* The lock and the credential                                             *)
(*                                                                         *)
(* CredentialStands is not inductive alone.  A refresh must find the row   *)
(* as it read it, so whoever works on the row of a linked account holds    *)
(* the lock (OneOwner); a credential on its way must be one no refresh has *)
(* used yet (GrantsApart); and an account that is still to be added has    *)
(* nobody waiting for it (Unlinked), an addition taking no lock.           *)

\* Who goes without the account's lock.
Lockless == {"add", "first", "proxy"}

\* An attempt that works on the row, or on what it read there.
Owning(q) ==
  \/ q.pc \in {"read", "refresh", "rotate", "revoked"}
  \/ q.pc = "sent" /\ q.what \notin Lockless
  \/ q.pc = "store" /\ q.what \notin Lockless /\ ~q.gone

Candidates == {"replace", "add", "reconnect", "first"}

\* An attempt with a credential that is to be stored.
Carrying(q) == q.what \in Candidates /\ q.pc \in {"hold", "sent", "store"}

\* Where each kind of attempt can be.
Way(q) ==
  /\ q.pc = "hold" => q.what \notin Lockless
  /\ q.pc = "store" => q.what \in Candidates
  /\ q.what = "proxy" => q.pc \in {"sent", "settle", "stop", "resume"}
  /\ q.what \in Candidates =>
       /\ ~q.oauth
       /\ q.pc \in {"hold", "sent", "store", "passed", "resume", "exchange", "tell"}
  /\ q.what \in {"add", "first"} => q.pc \in {"sent", "store", "exchange", "tell"}
  /\ q.pc \in {"exchange", "tell"} => q.what \in {"reconnect", "first"}
  /\ q.pc = "passed" => q.what \in {"replace", "reconnect"}

\* An attempt that goes on without its client where it may yet replace the
\* credential.
Adrift(q) == /\ q.gone /\ q.pc \notin {"settle", "stop", "passed", "resume"}
             /\ ~(q.pc = "store" /\ q.what \in {"add", "first"})

Ways == \A h \in All : Way(handler[h]) /\ (Adrift(handler[h]) => cut)

OneOwner == Linked => \A h \in All : Owning(handler[h]) => lock = h

Waits(q) == q.pc = "idle" \/ q.what \in {"add", "first"}

Unlinked == row.status = "new" =>
  /\ row.grant = 0 /\ row.turn = 0
  /\ \A h \in All : Waits(handler[h])
  /\ \A c \in Consents : ~consents[c].reconnect

Whole == row.status # "removed" /\ ~cut

GrantsApart == Whole =>
  /\ late = {} /\ row.grant <= grants
  /\ \A g \in Grants : g > grants => turnAt[g] = 0
  /\ \A h \in All : Carrying(handler[h]) =>
       /\ handler[h].grant \in 1..grants /\ handler[h].grant # row.grant
       /\ turnAt[handler[h].grant] = 0
  /\ \A h, i \in All : Carrying(handler[h]) /\ Carrying(handler[i])
                         /\ handler[h].grant = handler[i].grant => h = i

\* A refresh goes by the row, and its answer is what the row is to become.
Refreshing(q) ==
  /\ q.pc \in {"refresh", "rotate"} => q.grant = row.grant
  /\ q.pc = "refresh" => q.turn = row.turn
  /\ q.pc = "rotate" => q.turn = turnAt[row.grant]

Agree == Linked /\ ~cut =>
  /\ row.grant \in Grants /\ row.grant = chosen
  /\ \A h \in All : Refreshing(handler[h])
  /\ (\A h \in All : handler[h].pc # "rotate") => row.turn = turnAt[row.grant]

LockInv == Ways /\ OneOwner /\ Unlinked /\ GrantsApart /\ Agree

\* What an attempt that does not change the credential leaves as it is.
Settled == /\ row'.status = row.status /\ row'.grant = row.grant /\ row'.turn = row.turn
           /\ UNCHANGED <<late, consents, grants, turnAt, chosen, cut>>

\* A step of one attempt that changes no credential.
LEMMA QuietStep ==
    ASSUME TypeOK, LockInv, NEW h \in All, NEW q \in Attempts,
           handler' = [handler EXCEPT ![h] = q], Settled,
           \A i \in All \ {h} : lock = i => lock' = i,
           Linked /\ Owning(q) => lock' = h,
           Way(q), Adrift(q) => cut,
           row.status = "new" => Waits(q),
           Carrying(q) => Carrying(handler[h]) /\ q.grant = handler[h].grant,
           q.pc # "rotate", Linked /\ ~cut => Refreshing(q) /\ handler[h].pc # "rotate"
    PROVE  LockInv'
<1>1. handler'[h] = q /\ \A i \in All \ {h} : handler'[i] = handler[i]
  BY OneHandler
<1>2. Ways'
  BY <1>1 DEF LockInv, Ways, Way, Adrift, Settled
<1>3. OneOwner'
  BY <1>1 DEF LockInv, OneOwner, Owning, Settled, Linked
<1>4. Unlinked'
  BY <1>1 DEF LockInv, Unlinked, Waits, Settled
<1>5. GrantsApart'
  BY <1>1 DEF LockInv, GrantsApart, Whole, Carrying, Settled
<1>6. Agree'
  BY <1>1 DEF LockInv, Agree, Refreshing, Settled, Linked
<1> QED
  BY <1>2, <1>3, <1>4, <1>5, <1>6 DEF LockInv

\* An attempt that ends gives up the lock and whatever it carried.
LEMMA EndsQuiet ==
    ASSUME TypeOK, LockInv, NEW h \in All, Settled,
           Linked /\ ~cut => handler[h].pc # "rotate",
           handler' = [handler EXCEPT ![h] = Idle], Release(h) \/ lock' = lock
    PROVE  LockInv'
<1>1. \A i \in All \ {h} : lock = i => lock' = i
  BY DEF Release
<1>2. /\ ~Owning(Idle) /\ Way(Idle) /\ ~Adrift(Idle) /\ Waits(Idle) /\ ~Carrying(Idle)
      /\ Idle.pc # "rotate" /\ Refreshing(Idle)
  BY DEF Idle, Owning, Way, Adrift, Waits, Carrying, Refreshing, Lockless, Candidates
<1> QED
  BY <1>1, <1>2, IdleType, QuietStep

\* An attempt whose outcome goes to the gate changes no credential.
LEMMA ConcludesQuiet ==
    ASSUME TypeOK, LockInv, NEW h \in All, NEW out \in Outs, Concludes(h, out), Settled,
           handler[h].pc # "idle", handler[h].what \notin Candidates,
           Linked /\ ~cut => handler[h].pc # "rotate"
    PROVE  LockInv'
<1>1. CASE Ends(h)
  BY <1>1, EndsQuiet DEF Ends
<1>2. CASE Settles(h, out) /\ lock' = lock
  <2> DEFINE q == [handler[h] EXCEPT !.pc = "settle", !.out = out, !.at = now]
  <2>1. q \in Attempts /\ q.what = handler[h].what /\ q.pc = "settle"
    BY DEF TypeOK, Attempts, Places
  <2>2. handler' = [handler EXCEPT ![h] = q]
    BY <1>2 DEF Settles, TypeOK, Attempts
  <2> HIDE DEF q
  <2>3. ~Owning(q) /\ ~Adrift(q) /\ ~Carrying(q) /\ Refreshing(q)
    BY <2>1 DEF Owning, Adrift, Carrying, Refreshing
  <2>4. Way(q)
    BY <2>1 DEF Way, Candidates
  <2>5. row.status # "new"
    BY DEF LockInv, Unlinked, Waits, Candidates
  <2> QED
    BY <1>2, <2>1, <2>2, <2>3, <2>4, <2>5, QuietStep
<1> QED
  BY <1>1, <1>2 DEF Concludes

\* A candidate that is not stored changes no credential.
LEMMA DeniesQuiet ==
    ASSUME TypeOK, LockInv, NEW h \in All, Denies(h), Settled, handler[h].pc \in {"sent", "store"}
    PROVE  LockInv'
<1>1. CASE Ends(h)
  BY <1>1, EndsQuiet DEF Ends
<1>2. CASE /\ handler[h].what \in {"reconnect", "first"} /\ ~handler[h].gone /\ Release(h)
           /\ handler' = [handler EXCEPT ![h].pc = "tell", ![h].out = "undecided"]
  <2> DEFINE q == [handler[h] EXCEPT !.pc = "tell", !.out = "undecided"]
  <2>1. /\ q \in Attempts /\ q.what = handler[h].what /\ q.pc = "tell"
        /\ q.oauth = handler[h].oauth /\ q.gone = handler[h].gone
    BY DEF TypeOK, Attempts, Places, Outs
  <2>2. handler' = [handler EXCEPT ![h] = q]
    BY <1>2 DEF TypeOK, Attempts
  <2> HIDE DEF q
  <2>3. ~Owning(q) /\ ~Adrift(q) /\ ~Carrying(q) /\ Refreshing(q)
    BY <1>2, <2>1 DEF Owning, Adrift, Carrying, Refreshing
  <2>4. Way(q)
    BY <1>2, <2>1 DEF LockInv, Ways, Way, Candidates, Lockless
  <2>5. row.status = "new" => Waits(q)
    BY <2>1 DEF LockInv, Unlinked, Waits
  <2>6. \A i \in All \ {h} : lock = i => lock' = i
    BY <1>2 DEF Release
  <2> QED
    BY <2>1, <2>2, <2>3, <2>4, <2>5, <2>6, QuietStep
<1> QED
  BY <1>1, <1>2 DEF Denies

\* An attempt that goes on and changes no credential.
LEMMA BecomesQuiet ==
    ASSUME TypeOK, LockInv, NEW h \in All, NEW pc \in Places, Becomes(h, pc), lock' = lock, Settled,
           handler[h].pc \notin {"idle", "rotate"}, pc \notin {"idle", "refresh", "rotate"},
           Way([handler[h] EXCEPT !.pc = pc]),
           Carrying([handler[h] EXCEPT !.pc = pc]) => Carrying(handler[h]),
           Owning([handler[h] EXCEPT !.pc = pc]) => Owning(handler[h]),
           Adrift([handler[h] EXCEPT !.pc = pc]) => cut
    PROVE  LockInv'
<1> DEFINE q == [handler[h] EXCEPT !.pc = pc]
<1>1. /\ q \in Attempts /\ q.what = handler[h].what /\ q.pc = pc /\ q.grant = handler[h].grant
  BY DEF TypeOK, Attempts
<1>2. handler' = [handler EXCEPT ![h] = q]
  BY DEF Becomes, TypeOK, Attempts
<1>3. /\ Way(q) /\ (Carrying(q) => Carrying(handler[h]))
      /\ (Owning(q) => Owning(handler[h])) /\ (Adrift(q) => cut)
  OBVIOUS
<1> HIDE DEF q
<1>4. Refreshing(q)
  BY <1>1 DEF Refreshing
<1>5. row.status = "new" => Waits(q)
  BY <1>1 DEF LockInv, Unlinked, Waits
<1>6. Linked /\ Owning(q) => lock' = h
  BY <1>3 DEF LockInv, OneOwner
<1> QED
  BY <1>1, <1>2, <1>3, <1>4, <1>5, <1>6, QuietStep

\* A stop and a resume are of the account, not of its credential.
LEMMA StopKeeps ==
    ASSUME TypeOK, NEW cause
    PROVE  /\ Stop(cause).status = row.status /\ Stop(cause).grant = row.grant
           /\ Stop(cause).turn = row.turn
           /\ Resume.status = row.status /\ Resume.grant = row.grant /\ Resume.turn = row.turn
  BY DEF Stop, Resume, Linked, TypeOK, Rows

\* An attempt that begins with what the row holds, or is to read it.
LEMMA BeginQuiet ==
    ASSUME TypeOK, LockInv, Linked, NEW h \in All, NEW what \in Kinds \ Candidates,
           NEW pc \in {"hold", "sent"}, NEW g \in 0..MaxGrants, NEW o \in BOOLEAN,
           Begin(h, what, pc, g, o), UNCHANGED external,
           pc = "hold" <=> what # "proxy"
    PROVE  LockInv'
<1> DEFINE q == [Idle EXCEPT !.what = what, !.pc = pc, !.grant = g, !.oauth = o]
<1>1. q \in Attempts /\ q.what = what /\ q.pc = pc /\ ~q.gone
  BY IdleType DEF Attempts, Places, Idle
<1>2. handler' = [handler EXCEPT ![h] = q] /\ handler[h].pc = "idle" /\ lock' = lock /\ Settled
  BY DEF Begin, gate, history, external, Settled
<1> HIDE DEF q
<1>3. ~Owning(q) /\ ~Adrift(q) /\ ~Carrying(q) /\ Refreshing(q)
  BY <1>1 DEF Owning, Adrift, Carrying, Refreshing, Lockless
<1>4. Way(q)
  BY <1>1 DEF Way, Candidates, Lockless
<1>5. row.status # "new"
  BY DEF Linked
<1> QED
  BY <1>1, <1>2, <1>3, <1>4, <1>5, QuietStep

\* A new credential, typed or consented to, is one no refresh has used.
LEMMA CarryStep ==
    ASSUME TypeOK, LockInv, NEW h \in All, NEW q \in Attempts,
           handler' = [handler EXCEPT ![h] = q], handler[h].pc # "rotate",
           q.grant = grants + 1, grants < MaxGrants, grants' = grants + 1,
           q.pc \in {"hold", "sent"}, Way(q), ~Owning(q), Adrift(q) => cut,
           row.status = "new" => Waits(q),
           UNCHANGED <<row, lock, late, consents, turnAt, chosen, cut>>
    PROVE  LockInv'
<1>1. handler'[h] = q /\ \A i \in All \ {h} : handler'[i] = handler[i]
  BY OneHandler
<1>2. Ways'
  BY <1>1 DEF LockInv, Ways, Way, Adrift
<1>3. OneOwner'
  BY <1>1 DEF LockInv, OneOwner, Owning, Linked
<1>4. Unlinked'
  BY <1>1 DEF LockInv, Unlinked, Waits
<1>5. GrantsApart'
  <2> SUFFICES ASSUME Whole PROVE GrantsApart'
    BY DEF GrantsApart, Whole
  <2>1. /\ late = {} /\ row.grant <= grants
        /\ \A g \in Grants : g > grants => turnAt[g] = 0
        /\ \A i \in All : Carrying(handler[i]) =>
             /\ handler[i].grant \in 1..grants /\ handler[i].grant # row.grant
             /\ turnAt[handler[i].grant] = 0
        /\ \A i, j \in All : Carrying(handler[i]) /\ Carrying(handler[j])
                               /\ handler[i].grant = handler[j].grant => i = j
    BY DEF LockInv, GrantsApart
  <2>2. grants \in Nat /\ grants + 1 \in Grants /\ row.grant \in Nat
    BY GateAssumption DEF TypeOK, Grants, Rows
  <2>3. grants + 1 # row.grant /\ turnAt[grants + 1] = 0
    BY <2>1, <2>2
  <2>4. ASSUME NEW i \in All, Carrying(handler'[i])
        PROVE  /\ handler'[i].grant \in 1..grants' /\ handler'[i].grant # row.grant
               /\ turnAt[handler'[i].grant] = 0
               /\ i # h => handler'[i].grant # grants + 1
    <3>1. CASE i = h
      BY <1>1, <2>2, <2>3, <3>1
    <3>2. CASE i # h
      <4>1. /\ handler[i].grant \in 1..grants /\ handler[i].grant # row.grant
            /\ turnAt[handler[i].grant] = 0 /\ handler'[i] = handler[i]
        BY <1>1, <2>1, <2>4, <3>2
      <4> QED
        BY <2>2, <4>1
    <3> QED
      BY <3>1, <3>2
  <2>5. ASSUME NEW i \in All, NEW j \in All, Carrying(handler'[i]), Carrying(handler'[j]),
               handler'[i].grant = handler'[j].grant
        PROVE  i = j
    BY <1>1, <2>1, <2>4, <2>5
  <2>6. \A g \in Grants : g > grants' => turnAt[g] = 0
    BY <2>1, <2>2 DEF Grants
  <2>7. row.grant <= grants'
    BY <2>1, <2>2
  <2> QED
    BY <2>1, <2>4, <2>5, <2>6, <2>7 DEF GrantsApart, Carrying
<1>6. Agree'
  <2>1. Refreshing(q) /\ q.pc # "rotate"
    BY DEF Refreshing
  <2> QED
    BY <1>1, <2>1 DEF LockInv, Agree, Refreshing, Linked
<1> QED
  BY <1>2, <1>3, <1>4, <1>5, <1>6 DEF LockInv

\* Where an attempt begins.
LEMMA StartsLock ==
    ASSUME TypeOK, LockInv, NEW h \in Handlers, Starts(h)
    PROVE  LockInv'
<1>1. /\ h \in All /\ row.grant \in 0..MaxGrants /\ row.oauth \in BOOLEAN /\ 0 \in 0..MaxGrants
      /\ {"retry", "proxy", "connect", "submit"} \subseteq Kinds \ Candidates
  BY GateAssumption DEF All, TypeOK, Rows, Kinds, Candidates
<1>2. CASE Retry(h)
  BY <1>1, <1>2, BeginQuiet DEF Retry
<1>3. CASE Forward(h)
  BY <1>1, <1>3, BeginQuiet DEF Forward
<1>4. CASE Connect(h)
  <2>1. PICK what \in {"connect", "submit"} : Begin(h, what, "hold", row.grant, row.oauth)
    BY <1>4 DEF Connect
  <2> QED
    BY <1>1, <1>4, <2>1, BeginQuiet DEF Connect
<1>5. CASE ReplaceCredentials(h) \/ AddAccount(h)
  <2>1. PICK what \in {"replace", "add"}, pc \in {"hold", "sent"} :
          /\ Begin(h, what, pc, grants + 1, FALSE) /\ Typed
          /\ what = "replace" => pc = "hold" /\ Linked
          /\ what = "add" => pc = "sent"
    BY <1>5 DEF ReplaceCredentials, AddAccount
  <2> DEFINE q == [Idle EXCEPT !.what = what, !.pc = pc, !.grant = grants + 1, !.oauth = FALSE]
  <2>2. grants < MaxGrants /\ grants' = grants + 1 /\ turnAt' = turnAt
    BY <2>1 DEF Typed
  <2>3. grants + 1 \in 0..MaxGrants
    BY <2>2, GateAssumption DEF TypeOK
  <2>4. /\ q \in Attempts /\ q.what = what /\ q.pc = pc /\ q.grant = grants + 1
        /\ q.oauth = FALSE /\ ~q.gone
    BY <2>3, IdleType DEF Attempts, Places, Kinds, Idle
  <2>5. /\ handler' = [handler EXCEPT ![h] = q] /\ handler[h].pc = "idle"
        /\ UNCHANGED <<row, lock, late, consents, chosen, cut>>
    BY <2>1 DEF Begin, gate, history
  <2> HIDE DEF q
  <2>6. Way(q) /\ ~Owning(q) /\ ~Adrift(q)
    BY <2>1, <2>4 DEF Way, Owning, Adrift, Candidates, Lockless
  <2>7. row.status = "new" => Waits(q)
    BY <2>1, <2>4 DEF Waits, Linked
  <2> QED
    BY <1>1, <2>1, <2>2, <2>4, <2>5, <2>6, <2>7, CarryStep
<1>6. ASSUME NEW c \in Consents, Callback(h, c) PROVE LockInv'
  <2> DEFINE q == [Idle EXCEPT !.pc = "exchange", !.consent = c,
                     !.what = IF consents[c].reconnect THEN "reconnect" ELSE "first"]
  <2>1. /\ q \in Attempts /\ q.pc = "exchange" /\ q.what \in {"reconnect", "first"}
        /\ q.oauth = FALSE /\ ~q.gone /\ (q.what = "reconnect" <=> consents[c].reconnect)
    BY IdleType DEF Attempts, Places, Kinds, Idle, TypeOK, Entries
  <2>2. /\ handler' = [handler EXCEPT ![h] = q] /\ handler[h].pc = "idle"
        /\ UNCHANGED <<row, lock, late, grants, turnAt, chosen, cut>>
        /\ consents' = [consents EXCEPT ![c].stage = "Exchanging"]
    BY <1>6 DEF Callback, gate, external, history
  <2> HIDE DEF q
  <2>3. handler'[h] = q /\ \A i \in All \ {h} : handler'[i] = handler[i]
    BY <1>1, <2>1, <2>2, OneHandler
  <2>4. /\ ~Owning(q) /\ ~Adrift(q) /\ ~Carrying(q) /\ Refreshing(q) /\ Way(q)
        /\ q.pc # "rotate"
    BY <2>1 DEF Owning, Adrift, Carrying, Refreshing, Lockless, Way, Candidates
  <2>5. \A d \in Consents : consents'[d].reconnect = consents[d].reconnect
    BY <2>2 DEF TypeOK, Entries
  <2>6. row.status = "new" => Waits(q)
    BY <2>1 DEF LockInv, Unlinked, Waits
  <2>7. Ways' /\ OneOwner'
    BY <2>2, <2>3, <2>4 DEF LockInv, Ways, Way, Adrift, OneOwner, Owning, Linked
  <2>8. Unlinked'
    BY <2>2, <2>3, <2>5, <2>6 DEF LockInv, Unlinked, Waits
  <2>9. GrantsApart'
    BY <2>2, <2>3, <2>4 DEF LockInv, GrantsApart, Whole, Carrying
  <2>10. Agree'
    BY <2>2, <2>3, <2>4 DEF LockInv, Agree, Refreshing, Linked
  <2> QED
    BY <2>7, <2>8, <2>9, <2>10 DEF LockInv
<1> QED
  BY <1>2, <1>3, <1>4, <1>5, <1>6 DEF Starts

\* Who waits gets the lock once nobody works on the row.
LEMMA HoldLock ==
    ASSUME TypeOK, LockInv, NEW h \in All, Hold(h)
    PROVE  LockInv'
<1> DEFINE pc == AfterHold(h)
           q == [handler[h] EXCEPT !.pc = pc]
<1>1. pc \in {"read", "sent"} /\ (handler[h].what \in Candidates => pc = "sent")
  BY DEF AfterHold, LockInv, Ways, Way, Hold, Candidates
<1>2. /\ q \in Attempts /\ q.what = handler[h].what /\ q.pc = pc /\ q.grant = handler[h].grant
      /\ q.oauth = handler[h].oauth /\ q.gone = handler[h].gone
  BY <1>1 DEF TypeOK, Attempts, Places
<1>3. /\ handler' = [handler EXCEPT ![h] = q] /\ handler[h].pc = "hold"
      /\ lock = Free /\ lock' = h /\ Settled
  BY DEF Hold, Becomes, TypeOK, Attempts, Settled, external, history
<1> HIDE DEF pc, q
<1>4. Way(handler[h]) /\ (Adrift(handler[h]) => cut)
  BY DEF LockInv, Ways
<1>5. Way(q) /\ (Adrift(q) => cut) /\ Refreshing(q)
  BY <1>1, <1>2, <1>3, <1>4 DEF Way, Adrift, Refreshing, Candidates, Lockless
<1>6. Carrying(q) => Carrying(handler[h])
  BY <1>2, <1>3 DEF Carrying
<1>7. row.status = "new" => Waits(q)
  BY <1>2, <1>3 DEF LockInv, Unlinked, Waits
<1>8. \A i \in All : lock # i
  BY <1>3, GateAssumption DEF All
<1> QED
  BY <1>1, <1>2, <1>3, <1>5, <1>6, <1>7, <1>8, QuietStep

\* A check reads the credential it is to send; only who reads the row gets
\* to refresh it.
LEMMA CheckStoredLock ==
    ASSUME TypeOK, LockInv, NEW h \in All, CheckStored(h)
    PROVE  LockInv'
<1>1. /\ handler[h].pc = "read" /\ Way(handler[h]) /\ handler[h].what \notin Candidates
      /\ {"credential", "undecided"} \subseteq Outs /\ Settled
  BY DEF CheckStored, LockInv, Ways, Way, Outs, Settled, external, history
<1>2. CASE \E out \in {"credential", "undecided"} : Concludes(h, out)
  BY <1>1, <1>2, ConcludesQuiet
<1>3. CASE /\ Linked /\ lock' = lock
           /\ handler' = [handler EXCEPT ![h].grant = row.grant, ![h].turn = row.turn,
                            ![h].pc = IF row.oauth /\ ~row.live THEN "refresh" ELSE "sent"]
  <2> DEFINE pc == IF row.oauth /\ ~row.live THEN "refresh" ELSE "sent"
             q == [handler[h] EXCEPT !.grant = row.grant, !.turn = row.turn, !.pc = pc]
  <2>1. /\ pc \in {"refresh", "sent"} /\ handler[h] \in Attempts
        /\ row.grant \in 0..MaxGrants /\ row.turn \in 0..MaxTurns
    BY DEF TypeOK, Rows
  <2>3. handler' = [handler EXCEPT ![h] = q]
    BY <1>3 DEF TypeOK, Attempts
  <2> HIDE DEF pc
  <2>2. /\ q \in Attempts /\ q.what = handler[h].what /\ q.pc = pc
        /\ q.grant = row.grant /\ q.turn = row.turn /\ q.gone = handler[h].gone
    BY <2>1 DEF Attempts, Places
  <2> HIDE DEF q
  <2>4. (Adrift(q) => cut) /\ ~Carrying(q) /\ Refreshing(q)
    BY <1>1, <2>1, <2>2 DEF LockInv, Ways, Adrift, Carrying, Refreshing
  <2>5. Way(q)
    BY <1>1, <2>1, <2>2 DEF Way, Candidates, Lockless
  <2>6. lock = h /\ row.status # "new"
    BY <1>1, <1>3 DEF LockInv, OneOwner, Owning, Linked
  <2> QED
    BY <1>1, <1>3, <2>1, <2>2, <2>3, <2>4, <2>5, <2>6, QuietStep
<1> QED
  BY <1>2, <1>3 DEF CheckStored

\* A refresh redeems the row's own token, and what comes back is the token
\* the provider takes next.
LEMMA AccessTokenLock ==
    ASSUME TypeOK, LockInv, NEW h \in All, AccessToken(h)
    PROVE  LockInv'
<1>1. /\ handler[h].pc = "refresh" /\ Way(handler[h]) /\ handler[h].what \notin Candidates
      /\ "connection" \in Outs /\ "revoked" \in Places
      /\ UNCHANGED <<row, late, consents, chosen, cut>>
  BY DEF AccessToken, LockInv, Ways, Way, Outs, Places, history
<1>2. CASE Becomes(h, "revoked") /\ UNCHANGED <<lock, faults, external>>
  <2>1. /\ Way([handler[h] EXCEPT !.pc = "revoked"])
        /\ ~Carrying([handler[h] EXCEPT !.pc = "revoked"])
        /\ Adrift([handler[h] EXCEPT !.pc = "revoked"]) => Adrift(handler[h])
        /\ Owning(handler[h]) /\ (Adrift(handler[h]) => cut)
    BY <1>1 DEF LockInv, Ways, Way, Carrying, Adrift, Owning, Candidates, Lockless, TypeOK, Attempts
  <2>2. Settled
    BY <1>1, <1>2 DEF Settled, external
  <2> QED
    BY <1>1, <1>2, <2>1, <2>2, BecomesQuiet
<1>3. CASE Concludes(h, "connection") /\ UNCHANGED external
  <2>1. Settled
    BY <1>1, <1>3 DEF Settled, external
  <2> QED
    BY <1>1, <1>3, <2>1, ConcludesQuiet
<1>4. CASE /\ Rotates(h) /\ lock' = lock
           /\ handler' = [handler EXCEPT ![h].pc = "rotate", ![h].turn = turnAt'[handler[h].grant]]
  <2> DEFINE g == handler[h].grant
             q == [handler[h] EXCEPT !.pc = "rotate", !.turn = turnAt'[g]]
  <2>1. PICK t \in 0..MaxTurns : turnAt' = [turnAt EXCEPT ![g] = t]
    BY <1>4 DEF Rotates
  <2>2. /\ g \in Grants /\ turnAt[g] = handler[h].turn /\ grants' = grants
        /\ turnAt \in [Grants -> 0..MaxTurns]
    BY <1>4 DEF Rotates, Honoured, TypeOK
  <2>3. turnAt'[g] = t /\ \A x \in Grants \ {g} : turnAt'[x] = turnAt[x]
    BY <2>1, <2>2
  <2>4. /\ q \in Attempts /\ q.what = handler[h].what /\ q.pc = "rotate" /\ q.grant = g /\ q.turn = t
        /\ q.gone = handler[h].gone
    BY <2>3 DEF TypeOK, Attempts, Places
  <2>5. handler' = [handler EXCEPT ![h] = q]
    BY <1>4 DEF TypeOK, Attempts
  <2> HIDE DEF q
  <2>6. handler'[h] = q /\ \A i \in All \ {h} : handler'[i] = handler[i]
    BY <2>4, <2>5, OneHandler
  <2>7. (Adrift(q) => cut) /\ ~Carrying(q) /\ Way(q)
    BY <1>1, <2>4 DEF LockInv, Ways, Adrift, Carrying, Way, Candidates, Lockless
  <2>8. Ways'
    BY <1>1, <2>6, <2>7 DEF LockInv, Ways, Way, Adrift
  <2>9. OneOwner'
    <3>1. Linked => lock = h
      BY <1>1 DEF LockInv, OneOwner, Owning
    <3> QED
      BY <1>1, <1>4, <2>6, <3>1 DEF LockInv, OneOwner, Owning, Linked
  <2>10. Unlinked'
    BY <1>1, <2>4, <2>6 DEF LockInv, Unlinked, Waits
  <2>11. ASSUME Linked, ~cut PROVE g = row.grant /\ lock = h
                                   /\ \A i \in All \ {h} : handler[i].pc \notin {"refresh", "rotate"}
    BY <1>1, <2>11 DEF LockInv, Agree, Refreshing, OneOwner, Owning
  <2>12. row.status # "new"
    BY <1>1 DEF LockInv, Unlinked, Waits, Candidates
  <2>13. Whole => Linked /\ ~cut
    BY <2>12 DEF Whole, Linked, TypeOK, Rows
  <2>14. GrantsApart'
    <3> SUFFICES ASSUME Whole PROVE GrantsApart'
      BY <1>1 DEF GrantsApart, Whole
    <3>1. /\ late = {} /\ row.grant <= grants
          /\ \A x \in Grants : x > grants => turnAt[x] = 0
          /\ \A i \in All : Carrying(handler[i]) =>
               /\ handler[i].grant \in 1..grants /\ handler[i].grant # row.grant
               /\ turnAt[handler[i].grant] = 0
          /\ \A i, j \in All : Carrying(handler[i]) /\ Carrying(handler[j])
                                 /\ handler[i].grant = handler[j].grant => i = j
      BY DEF LockInv, GrantsApart
    <3>2. g = row.grant /\ g \in Nat /\ grants \in Nat
      BY <2>2, <2>11, <2>13, GateAssumption DEF TypeOK, Grants
    <3>3. \A x \in Grants : x > grants => turnAt'[x] = 0
      BY <2>3, <3>1, <3>2 DEF Grants
    <3>4. ASSUME NEW i \in All, Carrying(handler'[i])
          PROVE  /\ handler'[i] = handler[i] /\ Carrying(handler[i])
                 /\ turnAt'[handler[i].grant] = 0
      <4>1. i # h /\ handler'[i] = handler[i]
        BY <2>6, <2>7, <3>4
      <4>2. handler[i].grant \in 1..grants /\ handler[i].grant # g
            /\ turnAt[handler[i].grant] = 0
        BY <3>1, <3>2, <3>4, <4>1
      <4>3. handler[i].grant \in Grants
        BY <4>2, GateAssumption DEF TypeOK, Grants
      <4> QED
        BY <2>3, <3>4, <4>1, <4>2, <4>3
    <3> QED
      BY <1>1, <2>2, <3>1, <3>3, <3>4 DEF GrantsApart, Carrying
  <2>15. Agree'
    <3> SUFFICES ASSUME Linked, ~cut PROVE Agree'
      BY <1>1 DEF Agree, Linked
    <3>1. ASSUME NEW i \in All PROVE Refreshing(handler[i])'
      <4>1. CASE i = h
        BY <1>1, <2>3, <2>4, <2>6, <2>11, <4>1 DEF Refreshing
      <4>2. CASE i # h
        <5>1. handler'[i].pc \notin {"refresh", "rotate"}
          BY <2>6, <2>11, <4>2
        <5> QED
          BY <5>1 DEF Refreshing
      <4> QED
        BY <4>1, <4>2
    <3> QED
      BY <1>1, <2>4, <2>6, <3>1 DEF LockInv, Agree, Linked
  <2> QED
    BY <2>8, <2>9, <2>10, <2>14, <2>15 DEF LockInv
<1> QED
  BY <1>2, <1>3, <1>4 DEF AccessToken

\* The end of a refresh: the row becomes what the provider takes next.
LEMMA StoreRotatedLock ==
    ASSUME TypeOK, LockInv, NEW h \in All, StoreRotated(h)
    PROVE  LockInv'
<1>1. /\ handler[h].pc = "rotate" /\ Way(handler[h]) /\ handler[h].what \notin Candidates
      /\ UNCHANGED <<late, consents, grants, turnAt, chosen, cut>>
      /\ row' = UpdateCredential(handler[h].grant, handler[h].turn)
  BY DEF StoreRotated, LockInv, Ways, Way, external, history
<1>2. CASE ~Linked /\ Concludes(h, "undecided")
  <2>1. Settled /\ "undecided" \in Outs
    BY <1>1, <1>2 DEF Settled, UpdateCredential, Outs
  <2> QED
    BY <1>1, <1>2, <2>1, ConcludesQuiet
<1>3. CASE Linked /\ Becomes(h, "sent") /\ lock' = lock
  <2> DEFINE q == [handler[h] EXCEPT !.pc = "sent"]
  <2>1. /\ q \in Attempts /\ q.what = handler[h].what /\ q.pc = "sent"
        /\ q.gone = handler[h].gone
    BY DEF TypeOK, Attempts, Places
  <2>2. handler' = [handler EXCEPT ![h] = q]
    BY <1>3 DEF Becomes, TypeOK, Attempts
  <2> HIDE DEF q
  <2>3. handler'[h] = q /\ \A i \in All \ {h} : handler'[i] = handler[i]
    BY <2>1, <2>2, OneHandler
  <2>4. Way(q) /\ ~Carrying(q) /\ (Adrift(q) => cut)
    BY <1>1, <2>1 DEF LockInv, Ways, Way, Adrift, Carrying, Candidates, Lockless
  <2>5. lock = h /\ \A i \in All \ {h} : handler[i].pc \notin {"refresh", "rotate"}
    BY <1>1, <1>3 DEF LockInv, OneOwner, Owning
  <2>6. /\ row'.status = "linked" /\ row'.grant = handler[h].grant /\ row'.turn = handler[h].turn
    BY <1>1, <1>3 DEF UpdateCredential, TypeOK, Rows, Linked
  <2>7. ~cut => row'.grant = row.grant /\ row'.turn = turnAt[row.grant]
    BY <1>1, <1>3, <2>6 DEF LockInv, Agree, Refreshing
  <2>8. Ways' /\ OneOwner' /\ Unlinked'
    BY <1>1, <1>3, <2>3, <2>4, <2>5, <2>6 DEF LockInv, Ways, Way, Adrift, OneOwner, Owning, Linked, Unlinked
  <2>9. GrantsApart'
    BY <1>1, <1>3, <2>3, <2>4, <2>6, <2>7 DEF LockInv, GrantsApart, Whole, Carrying, Linked
  <2>10. Agree'
    <3>1. \A i \in All : handler'[i].pc \notin {"refresh", "rotate"}
      BY <2>1, <2>3, <2>5
    <3> QED
      BY <1>1, <1>3, <2>7, <3>1 DEF LockInv, Agree, Refreshing, Linked
  <2> QED
    BY <2>8, <2>9, <2>10 DEF LockInv
<1> QED
  BY <1>2, <1>3 DEF StoreRotated

\* What comes of the upstream's answer touches no credential until one is
\* stored.
LEMMA OutcomeLock ==
    ASSUME TypeOK, LockInv, NEW h \in All,
           \/ StopRevoked(h) \/ Check(h) \/ TargetGone(h)
           \/ Apply(h) \/ StopRow(h) \/ Passed(h)
    PROVE  LockInv'
<1>1. Way(handler[h]) /\ (Adrift(handler[h]) => cut) /\ handler[h] \in Attempts
  BY DEF LockInv, Ways, TypeOK
<1>2. Settled
  BY StopKeeps DEF StopRevoked, Check, TargetGone, Apply, StopRow, Passed, Settled, external, history
<1>3. CASE StopRevoked(h)
  <2>1. "credential" \in Outs /\ handler[h].what \notin Candidates /\ handler[h].pc = "revoked"
    BY <1>1, <1>3 DEF StopRevoked, Way, Outs
  <2> QED
    BY <1>2, <1>3, <2>1, ConcludesQuiet DEF StopRevoked
<1>4. CASE Check(h)
  <2>1. PICK out \in Answers(handler[h].grant) : Answered(h, out)
    BY <1>4 DEF Check
  <2>2. out \in Outs /\ handler[h].pc = "sent" /\ "store" \in Places
    BY <1>4, <2>1 DEF Check, Answers, Outs, Places
  <2>3. CASE ~Candidate(h) /\ Concludes(h, out)
    BY <1>2, <2>2, <2>3, ConcludesQuiet DEF Candidate, Candidates
  <2>4. CASE Candidate(h) /\ Becomes(h, "store") /\ lock' = lock
    <3>1. handler[h].what \in Candidates /\ Carrying(handler[h])
      BY <2>2, <2>4 DEF Candidate, Candidates, Carrying
    <3>2. /\ Way([handler[h] EXCEPT !.pc = "store"])
          /\ Owning([handler[h] EXCEPT !.pc = "store"]) => Owning(handler[h])
          /\ Adrift([handler[h] EXCEPT !.pc = "store"]) => Adrift(handler[h])
      BY <1>1, <2>2, <3>1 DEF Way, Owning, Adrift, Candidates, Lockless, Attempts
    <3> QED
      BY <1>1, <1>2, <2>2, <2>4, <3>1, <3>2, BecomesQuiet
  <2>5. CASE Denies(h)
    BY <1>2, <2>2, <2>5, DeniesQuiet
  <2> QED
    BY <2>1, <2>3, <2>4, <2>5 DEF Answered
<1>5. CASE TargetGone(h)
  BY <1>2, <1>5, DeniesQuiet DEF TargetGone
<1>6. CASE Apply(h)
  <2>1. /\ handler[h].pc = "settle" /\ handler[h].what \notin Candidates
        /\ "stop" \in Places /\ "resume" \in Places
    BY <1>1, <1>6 DEF Apply, Way, Places
  <2>2. CASE Ends(h)
    BY <1>2, <2>1, <2>2, EndsQuiet DEF Ends
  <2>3. ASSUME NEW pc \in {"stop", "resume"}, Becomes(h, pc), lock' = lock
        PROVE  LockInv'
    <3>1. /\ Way([handler[h] EXCEPT !.pc = pc]) /\ ~Carrying([handler[h] EXCEPT !.pc = pc])
          /\ ~Owning([handler[h] EXCEPT !.pc = pc]) /\ ~Adrift([handler[h] EXCEPT !.pc = pc])
      BY <1>1, <2>1, <2>3 DEF Way, Owning, Adrift, Carrying, Candidates, Lockless, Attempts
    <3> QED
      BY <1>2, <2>1, <2>3, <3>1, BecomesQuiet
  <2> QED
    BY <1>6, <2>2, <2>3 DEF Apply
<1>7. CASE StopRow(h)
  BY <1>2, <1>7, EndsQuiet DEF StopRow, Ends
<1>8. CASE Passed(h)
  <2>1. handler[h].pc = "passed" /\ Becomes(h, "resume") /\ lock' = lock /\ "resume" \in Places
    BY <1>8 DEF Passed, Places
  <2>2. /\ Way([handler[h] EXCEPT !.pc = "resume"]) /\ ~Carrying([handler[h] EXCEPT !.pc = "resume"])
        /\ ~Owning([handler[h] EXCEPT !.pc = "resume"]) /\ ~Adrift([handler[h] EXCEPT !.pc = "resume"])
    BY <1>1, <2>1 DEF Way, Owning, Adrift, Carrying, Candidates, Lockless, Attempts
  <2> QED
    BY <1>2, <2>1, <2>2, BecomesQuiet
<1> QED
  BY <1>3, <1>4, <1>5, <1>6, <1>7, <1>8

\* A resume, and the callback that is told of it.
LEMMA ResumeLock ==
    ASSUME TypeOK, LockInv, NEW h \in All, ResumeRow(h)
    PROVE  LockInv'
<1>1. handler[h].pc = "resume" /\ Settled
  BY StopKeeps DEF ResumeRow, Settled, external, history
<1>2. CASE Ends(h)
  BY <1>1, <1>2, EndsQuiet DEF Ends
<1>3. CASE /\ handler[h].what = "reconnect" /\ ~handler[h].gone /\ Release(h)
           /\ handler' = [handler EXCEPT ![h].pc = "tell",
                            ![h].out = IF Linked THEN "pass" ELSE "undecided"]
  <2> DEFINE out == IF Linked THEN "pass" ELSE "undecided"
             q == [handler[h] EXCEPT !.pc = "tell", !.out = out]
  <2>1. handler' = [handler EXCEPT ![h] = q]
    BY <1>3 DEF TypeOK, Attempts
  <2>2. out \in Outs
    BY DEF Outs
  <2> HIDE DEF out
  <2>3. /\ q \in Attempts /\ q.what = handler[h].what /\ q.pc = "tell"
        /\ q.oauth = handler[h].oauth /\ q.gone = handler[h].gone
    BY <2>2 DEF TypeOK, Attempts, Places
  <2> HIDE DEF q
  <2>4. ~Owning(q) /\ ~Adrift(q) /\ ~Carrying(q) /\ Refreshing(q)
    BY <1>3, <2>3 DEF Owning, Adrift, Carrying, Refreshing
  <2>5. Way(q)
    BY <1>3, <2>3 DEF LockInv, Ways, Way, Candidates, Lockless
  <2>6. row.status = "new" => Waits(q)
    BY <1>1, <1>3 DEF LockInv, Unlinked, Waits
  <2>7. \A i \in All \ {h} : lock = i => lock' = i
    BY <1>3 DEF Release
  <2> QED
    BY <1>1, <2>1, <2>3, <2>4, <2>5, <2>6, <2>7, QuietStep
<1> QED
  BY <1>2, <1>3 DEF ResumeRow

\* A credential that is stored: the row has it from now on, nobody is
\* refreshing the one it replaces, and no refresh has used it yet.
LEMMA StoreStep ==
    ASSUME TypeOK, LockInv, NEW h \in All, NEW q \in Attempts,
           handler' = [handler EXCEPT ![h] = q], Carrying(handler[h]),
           row'.status = "linked", row'.grant = handler[h].grant, row'.turn = 0,
           chosen' = handler[h].grant, row.status # "removed",
           UNCHANGED <<late, grants, turnAt, cut>>,
           \A i \in All \ {h} : Owning(handler[i]) => lock' = i,
           ~cut => \A i \in All \ {h} : handler[i].pc \notin {"refresh", "rotate"},
           Way(q), ~Owning(q), ~Adrift(q), ~Carrying(q)
    PROVE  LockInv'
<1>1. handler'[h] = q /\ \A i \in All \ {h} : handler'[i] = handler[i]
  BY OneHandler
<1>2. Ways' /\ OneOwner' /\ Unlinked'
  BY <1>1 DEF LockInv, Ways, Way, Adrift, OneOwner, Owning, Unlinked
<1>3. ASSUME ~cut PROVE GrantsApart'
  <2>1. /\ late = {} /\ row.grant <= grants
        /\ \A g \in Grants : g > grants => turnAt[g] = 0
        /\ \A i \in All : Carrying(handler[i]) =>
             /\ handler[i].grant \in 1..grants /\ handler[i].grant # row.grant
             /\ turnAt[handler[i].grant] = 0
        /\ \A i, j \in All : Carrying(handler[i]) /\ Carrying(handler[j])
                               /\ handler[i].grant = handler[j].grant => i = j
    BY <1>3 DEF LockInv, GrantsApart, Whole
  <2>2. row'.grant <= grants
    BY <2>1 DEF TypeOK
  <2>3. ASSUME NEW i \in All, Carrying(handler'[i])
        PROVE  Carrying(handler[i]) /\ handler'[i] = handler[i] /\ handler[i].grant # row'.grant
    BY <1>1, <2>1, <2>3
  <2> QED
    BY <2>1, <2>2, <2>3 DEF GrantsApart, Carrying
<1>4. ASSUME ~cut PROVE Agree'
  <2>1. \A i \in All : handler'[i].pc \notin {"refresh", "rotate"}
    BY <1>1, <1>4 DEF Owning
  <2>2. handler[h].grant \in 1..grants /\ turnAt[handler[h].grant] = 0
    BY <1>4 DEF LockInv, GrantsApart, Whole
  <2>3. handler[h].grant \in Grants
    BY <2>2, GateAssumption DEF TypeOK, Grants
  <2> QED
    BY <2>1, <2>2, <2>3 DEF Agree, Refreshing
<1>5. cut => GrantsApart' /\ Agree'
  BY DEF GrantsApart, Whole, Agree
<1> QED
  BY <1>2, <1>3, <1>4, <1>5 DEF LockInv

\* A typed or consented credential is stored under the lock, or as the
\* first one of an account nobody can be working on.
LEMMA StoreTokensLock ==
    ASSUME TypeOK, LockInv, NEW h \in All, StoreTokens(h)
    PROVE  LockInv'
<1>1. /\ handler[h].pc = "store" /\ handler[h].what \in Candidates /\ Carrying(handler[h])
      /\ handler[h] \in Attempts /\ ~handler[h].oauth /\ (Adrift(handler[h]) => cut)
      /\ UNCHANGED <<late, consents, grants, turnAt, cut>>
  BY DEF StoreTokens, LockInv, Ways, Way, Carrying, TypeOK, external
<1>2. CASE /\ handler[h].what \in {"replace", "reconnect"} /\ Linked
           /\ row' = ReplaceCredential(handler[h].grant, handler[h].what = "reconnect")
           /\ chosen' = handler[h].grant /\ Becomes(h, "passed") /\ lock' = lock
  <2> DEFINE q == [handler[h] EXCEPT !.pc = "passed"]
  <2>1. /\ q \in Attempts /\ q.what = handler[h].what /\ q.pc = "passed" /\ q.oauth = handler[h].oauth
    BY <1>1 DEF Attempts, Places
  <2>2. handler' = [handler EXCEPT ![h] = q]
    BY <1>2 DEF Becomes, TypeOK, Attempts
  <2> HIDE DEF q
  <2>3. Way(q) /\ ~Owning(q) /\ ~Adrift(q) /\ ~Carrying(q)
    BY <1>1, <1>2, <2>1 DEF Way, Owning, Adrift, Carrying, Candidates, Lockless
  <2>4. row'.status = "linked" /\ row'.grant = handler[h].grant /\ row'.turn = 0 /\ row.status # "removed"
    BY <1>2 DEF ReplaceCredential, Linked, TypeOK, Rows
  <2>5. \A i \in All \ {h} : Owning(handler[i]) => lock' = i
    BY <1>2 DEF LockInv, OneOwner
  <2>6. ASSUME ~cut, NEW i \in All \ {h} PROVE handler[i].pc \notin {"refresh", "rotate"}
    <3>1. Owning(handler[h])
      BY <1>1, <1>2, <2>6 DEF Adrift, Owning, Lockless
    <3>2. ~Owning(handler[i])
      BY <1>2, <3>1 DEF LockInv, OneOwner
    <3> QED
      BY <3>2 DEF Owning
  <2> QED
    BY <1>1, <1>2, <2>1, <2>2, <2>3, <2>4, <2>5, <2>6, StoreStep
<1>3. CASE Denies(h) /\ UNCHANGED <<row, chosen, stored>>
  <2>1. Settled
    BY <1>1, <1>3 DEF Settled
  <2> QED
    BY <1>1, <1>3, <2>1, DeniesQuiet
<1>4. CASE /\ handler[h].what \in {"add", "first"}
           /\ row' = IF row.status = "new" THEN Add(handler[h].grant, handler[h].what = "first") ELSE row
           /\ chosen' = IF row.status = "new" THEN handler[h].grant ELSE chosen
           /\ IF handler[h].what = "first" /\ ~handler[h].gone
              THEN handler' = [handler EXCEPT ![h].pc = "tell", ![h].out = "pass"] /\ UNCHANGED lock
              ELSE Ends(h)
  <2>1. PICK q \in Attempts : /\ handler' = [handler EXCEPT ![h] = q] /\ (lock' = lock \/ Release(h))
                              /\ ~q.oauth /\ ~q.gone
                              /\ \/ q.pc = "idle" /\ q.what = "retry"
                                 \/ q.pc = "tell" /\ q.what = "first"
    <3>1. CASE Ends(h)
      <4>1. Idle \in Attempts /\ ~Idle.oauth /\ ~Idle.gone /\ Idle.pc = "idle" /\ Idle.what = "retry"
        BY IdleType DEF Idle
      <4> QED
        BY <3>1, <4>1 DEF Ends
    <3>2. CASE /\ handler[h].what = "first" /\ ~handler[h].gone /\ lock' = lock
               /\ handler' = [handler EXCEPT ![h].pc = "tell", ![h].out = "pass"]
      <4> DEFINE r == [handler[h] EXCEPT !.pc = "tell", !.out = "pass"]
      <4>1. /\ r \in Attempts /\ r.pc = "tell" /\ r.what = handler[h].what
            /\ r.oauth = handler[h].oauth /\ r.gone = handler[h].gone
        BY <1>1 DEF Attempts, Places, Outs
      <4>2. handler' = [handler EXCEPT ![h] = r]
        BY <3>2 DEF TypeOK, Attempts
      <4> QED
        BY <1>1, <3>2, <4>1, <4>2
    <3> QED
      BY <1>4, <3>1, <3>2
  <2>2. Way(q) /\ ~Owning(q) /\ ~Adrift(q) /\ ~Carrying(q) /\ Waits(q) /\ Refreshing(q) /\ q.pc # "rotate"
    BY <2>1 DEF Way, Owning, Adrift, Carrying, Waits, Candidates, Lockless, Refreshing
  <2>3. CASE row.status = "new"
    <3>1. \A i \in All : /\ Way(handler[i]) /\ Waits(handler[i])
      BY <2>3 DEF LockInv, Unlinked, Ways
    <3>2. \A i \in All : ~Owning(handler[i]) /\ handler[i].pc \notin {"refresh", "rotate"}
      BY <3>1 DEF Way, Waits, Owning, Lockless
    <3>3. row'.status = "linked" /\ row'.grant = handler[h].grant /\ row'.turn = row.turn
          /\ chosen' = handler[h].grant
      BY <1>4, <2>3 DEF Add, TypeOK, Rows
    <3>4. row.turn = 0
      BY <2>3 DEF LockInv, Unlinked
    <3> QED
      BY <1>1, <2>1, <2>2, <2>3, <3>2, <3>3, <3>4, StoreStep
  <2>4. CASE row.status # "new"
    <3>1. Settled
      BY <1>1, <1>4, <2>4 DEF Settled
    <3>2. \A i \in All \ {h} : lock = i => lock' = i
      BY <2>1 DEF Release
    <3> QED
      BY <1>1, <2>1, <2>2, <2>4, <3>1, <3>2, QuietStep
  <2> QED
    BY <2>3, <2>4
<1> QED
  BY <1>2, <1>3, <1>4 DEF StoreTokens

\* The callback's first and last step.
LEMMA CallbackLock ==
    ASSUME TypeOK, LockInv, NEW h \in All, Exchange(h) \/ SettleConsent(h)
    PROVE  LockInv'
<1>1. Way(handler[h]) /\ (Adrift(handler[h]) => cut) /\ handler[h] \in Attempts
  BY DEF LockInv, Ways, TypeOK
<1>2. CASE /\ Exchange(h) /\ grants < MaxGrants /\ grants' = grants + 1
           /\ handler' = [handler EXCEPT ![h].grant = grants + 1,
                            ![h].pc = IF handler[h].what = "reconnect" THEN "hold" ELSE "sent"]
  <2> DEFINE pc == IF handler[h].what = "reconnect" THEN "hold" ELSE "sent"
             q == [handler[h] EXCEPT !.grant = grants + 1, !.pc = pc]
  <2>1. handler' = [handler EXCEPT ![h] = q]
    BY <1>2 DEF TypeOK, Attempts
  <2>2. /\ pc \in {"hold", "sent"} /\ (pc = "hold" <=> handler[h].what = "reconnect")
        /\ grants + 1 \in 0..MaxGrants /\ handler[h].pc = "exchange"
        /\ UNCHANGED <<row, lock, late, consents, turnAt, chosen, cut>>
    BY <1>2, GateAssumption DEF Exchange, TypeOK, gate, history
  <2> HIDE DEF pc
  <2>3. /\ q \in Attempts /\ q.what = handler[h].what /\ q.pc = pc /\ q.grant = grants + 1
        /\ q.oauth = handler[h].oauth /\ q.gone = handler[h].gone
    BY <1>1, <2>2 DEF Attempts, Places
  <2> HIDE DEF q
  <2>4. handler[h].what \in {"reconnect", "first"}
    BY <1>1, <2>2 DEF Way
  <2>5. Way(q) /\ ~Owning(q) /\ (Adrift(q) => cut)
    BY <1>1, <2>2, <2>3, <2>4 DEF Way, Owning, Adrift, Candidates, Lockless
  <2>6. row.status = "new" => Waits(q)
    BY <2>2, <2>3 DEF LockInv, Unlinked, Waits
  <2> QED
    BY <1>2, <2>1, <2>2, <2>3, <2>5, <2>6, CarryStep
<1>3. CASE /\ Exchange(h) /\ UNCHANGED <<grants, valid>>
           /\ handler' = [handler EXCEPT ![h].pc = "tell", ![h].out = "undecided"]
  <2> DEFINE q == [handler[h] EXCEPT !.pc = "tell", !.out = "undecided"]
  <2>1. /\ q \in Attempts /\ q.what = handler[h].what /\ q.pc = "tell"
        /\ q.oauth = handler[h].oauth /\ q.gone = handler[h].gone
    BY <1>1 DEF Attempts, Places, Outs
  <2>2. handler' = [handler EXCEPT ![h] = q]
    BY <1>3 DEF TypeOK, Attempts
  <2>3. handler[h].pc = "exchange" /\ Settled /\ lock' = lock
    BY <1>3 DEF Exchange, Settled, gate, history
  <2> HIDE DEF q
  <2>4. Way(q) /\ ~Owning(q) /\ (Adrift(q) => cut) /\ ~Carrying(q) /\ Refreshing(q)
    BY <1>1, <2>1, <2>3 DEF Way, Owning, Adrift, Carrying, Refreshing, Candidates, Lockless
  <2>5. row.status = "new" => Waits(q)
    BY <2>1, <2>3 DEF LockInv, Unlinked, Waits
  <2> QED
    BY <2>1, <2>2, <2>3, <2>4, <2>5, QuietStep
<1>4. CASE SettleConsent(h)
  <2>1. /\ handler[h].pc = "tell" /\ handler' = [handler EXCEPT ![h] = Idle]
        /\ UNCHANGED <<row, lock, late, grants, turnAt, chosen, cut>>
        /\ \A c \in Consents : consents'[c].reconnect = consents[c].reconnect
    BY <1>4 DEF SettleConsent, gate, external, history, TypeOK, Entries
  <2>2. handler'[h] = Idle /\ \A i \in All \ {h} : handler'[i] = handler[i]
    BY <2>1, IdleType, OneHandler
  <2>3. /\ ~Owning(Idle) /\ ~Adrift(Idle) /\ ~Carrying(Idle) /\ Refreshing(Idle) /\ Way(Idle)
        /\ Waits(Idle) /\ Idle.pc # "rotate"
    BY DEF Idle, Owning, Adrift, Carrying, Refreshing, Lockless, Way, Candidates, Waits
  <2>4. Ways' /\ OneOwner'
    BY <2>1, <2>2, <2>3 DEF LockInv, Ways, Way, Adrift, OneOwner, Owning, Linked
  <2>5. Unlinked'
    BY <2>1, <2>2, <2>3 DEF LockInv, Unlinked, Waits
  <2>6. GrantsApart'
    BY <2>1, <2>2, <2>3 DEF LockInv, GrantsApart, Whole, Carrying
  <2>7. Agree'
    BY <2>1, <2>2, <2>3 DEF LockInv, Agree, Refreshing, Linked
  <2> QED
    BY <2>4, <2>5, <2>6, <2>7 DEF LockInv
<1> QED
  BY <1>2, <1>3, <1>4 DEF Exchange

\* Once a refresh is cut off nothing is claimed of the credential, but the
\* lock still has one owner.
LEMMA CutStep ==
    ASSUME TypeOK, LockInv, NEW h \in All, NEW q \in Attempts,
           handler' = [handler EXCEPT ![h] = q], cut' = TRUE, UNCHANGED <<row, consents>>,
           \A i \in All \ {h} : lock = i => lock' = i,
           Way(q), ~Owning(q), row.status = "new" => Waits(q)
    PROVE  LockInv'
<1>1. handler'[h] = q /\ \A i \in All \ {h} : handler'[i] = handler[i]
  BY OneHandler
<1>2. Ways' /\ OneOwner' /\ Unlinked'
  BY <1>1 DEF LockInv, Ways, Way, Adrift, OneOwner, Owning, Linked, Unlinked, Waits
<1>3. GrantsApart' /\ Agree'
  BY DEF GrantsApart, Whole, Agree
<1> QED
  BY <1>2, <1>3 DEF LockInv

\* A client that leaves, and the connector's own deadline.
LEMMA DroppedLock ==
    ASSUME TypeOK, LockInv, NEW h \in All, Drop(h) \/ Elapsed(h)
    PROVE  LockInv'
<1>1. /\ Way(handler[h]) /\ (Adrift(handler[h]) => cut) /\ handler[h] \in Attempts
      /\ UNCHANGED <<row, consents, chosen>>
  BY DEF LockInv, Ways, TypeOK, Drop, Elapsed
<1>2. Way(Idle) /\ ~Owning(Idle) /\ Waits(Idle)
  BY DEF Idle, Way, Owning, Waits, Candidates, Lockless
<1>3. CASE Drop(h)
  <2>1. \A i \in All \ {h} : lock = i => lock' = i
    BY <1>3 DEF Drop, Release
  <2>2. CASE /\ handler[h].pc \in {"hold", "read", "refresh", "sent", "exchange"}
             /\ handler' = [handler EXCEPT ![h] = Idle] /\ UNCHANGED <<late, external, cut>>
    <3>1. Settled
      BY <1>1, <2>2 DEF Settled, external
    <3> QED
      BY <1>3, <2>2, <3>1, EndsQuiet DEF Drop
  <2>3. CASE cut' = TRUE /\ handler' = [handler EXCEPT ![h] = Idle]
    BY <1>1, <1>2, <2>1, <2>3, IdleType, CutStep
  <2>4. CASE /\ handler[h].pc \in {"settle", "stop", "store", "passed", "resume"}
             /\ handler' = [handler EXCEPT ![h].gone = TRUE]
             /\ cut' = (cut \/ ChangesRow(h)) /\ UNCHANGED <<late, external>>
    <3> DEFINE q == [handler[h] EXCEPT !.gone = TRUE]
    <3>1. /\ q \in Attempts /\ q.what = handler[h].what /\ q.pc = handler[h].pc
          /\ q.oauth = handler[h].oauth /\ q.grant = handler[h].grant /\ q.gone = TRUE
      BY <1>1 DEF Attempts
    <3>2. handler' = [handler EXCEPT ![h] = q]
      BY <2>4 DEF TypeOK, Attempts
    <3> HIDE DEF q
    <3>3. Way(q)
      BY <1>1, <3>1 DEF Way
    <3>4. ~Owning(q)
      BY <2>4, <3>1 DEF Owning
    <3>5. row.status = "new" => Waits(q)
      BY <3>1 DEF LockInv, Unlinked, Waits
    <3>6. CASE ChangesRow(h)
      BY <1>1, <2>1, <2>4, <3>1, <3>2, <3>3, <3>4, <3>5, <3>6, CutStep
    <3>7. CASE ~ChangesRow(h)
      <4>1. cut' = cut /\ Settled
        <5>1. cut' = cut
          BY <2>4, <3>7 DEF TypeOK
        <5> QED
          BY <1>1, <2>4, <5>1 DEF Settled, external
      <4>2. ~Adrift(q)
        BY <1>1, <2>4, <3>1, <3>7 DEF Way, Adrift, ChangesRow, Candidates
      <4>3. Carrying(q) => Carrying(handler[h])
        BY <3>1 DEF Carrying
      <4>4. Refreshing(q)
        BY <2>4, <3>1 DEF Refreshing
      <4> QED
        BY <2>1, <2>4, <3>1, <3>2, <3>3, <3>4, <3>5, <4>1, <4>2, <4>3, <4>4, QuietStep
    <3> QED
      BY <3>6, <3>7
  <2> QED
    BY <1>3, <2>2, <2>3, <2>4 DEF Drop
<1>4. CASE Elapsed(h)
  <2>1. Concludes(h, "connection") /\ "connection" \in Outs
    BY <1>4 DEF Elapsed, Concludes, Outs
  <2>2. handler[h].what \notin Candidates /\ handler[h].pc # "idle" /\ handler[h].what # "proxy"
    BY <1>4 DEF Elapsed, Candidates
  <2>3. CASE handler[h].pc \in {"read", "refresh", "sent"} /\ UNCHANGED <<late, external, cut>>
    <3>1. Settled
      BY <1>1, <2>3 DEF Settled, external
    <3> QED
      BY <2>1, <2>2, <2>3, <3>1, ConcludesQuiet
  <2>4. CASE cut' = TRUE
    <3>1. CASE Ends(h)
      <4>1. \A i \in All \ {h} : lock = i => lock' = i
        BY <3>1 DEF Ends, Release
      <4> QED
        BY <1>1, <1>2, <2>4, <3>1, <4>1, IdleType, CutStep DEF Ends
    <3>2. CASE Settles(h, "connection") /\ lock' = lock
      <4> DEFINE q == [handler[h] EXCEPT !.pc = "settle", !.out = "connection", !.at = now]
      <4>1. q \in Attempts /\ q.what = handler[h].what /\ q.pc = "settle"
        BY <2>1 DEF TypeOK, Attempts, Places
      <4>2. handler' = [handler EXCEPT ![h] = q]
        BY <3>2 DEF Settles, TypeOK, Attempts
      <4> HIDE DEF q
      <4>3. Way(q) /\ ~Owning(q)
        BY <2>2, <4>1 DEF Way, Owning, Candidates
      <4>4. row.status # "new"
        BY <2>2 DEF LockInv, Unlinked, Waits, Candidates
      <4> QED
        BY <1>1, <2>4, <3>2, <4>1, <4>2, <4>3, <4>4, CutStep
    <3> QED
      BY <2>1, <3>1, <3>2 DEF Concludes
  <2> QED
    BY <1>4, <2>3, <2>4 DEF Elapsed
<1> QED
  BY <1>3, <1>4

\* What leaves every attempt where it is.
LEMMA StayStep ==
    ASSUME TypeOK, LockInv,
           row'.status = row.status, row'.grant = row.grant, row'.turn = row.turn,
           UNCHANGED <<handler, lock, late, grants, turnAt, chosen, cut>>,
           row.status = "new" => \A c \in Consents : ~consents'[c].reconnect
    PROVE  LockInv'
<1>1. Ways' /\ OneOwner' /\ Unlinked'
  BY DEF LockInv, Ways, Way, Adrift, OneOwner, Owning, Linked, Unlinked, Waits
<1>2. GrantsApart'
  BY DEF LockInv, GrantsApart, Whole, Carrying
<1>3. Agree'
  BY DEF LockInv, Agree, Refreshing, Linked
<1> QED
  BY <1>1, <1>2, <1>3 DEF LockInv

\* The consents, the removal and what nobody asked for.
LEMMA ElseLock ==
    ASSUME TypeOK, LockInv,
           \/ ProbeOnce \/ RemoveAccount \/ LateRotated
           \/ Restart \/ Tick \/ Expire \/ Revoke
           \/ \E c \in Consents : StartConsent(c) \/ GivesWay(c) \/ EndConsent(c)
    PROVE  LockInv'
<1>1. CASE ProbeOnce
  <2>1. /\ Probe \in All /\ "probe" \in Kinds \ Candidates /\ 0 \in 0..MaxGrants
    BY GateAssumption DEF All, Kinds, Candidates
  <2> QED
    BY <1>1, <2>1, BeginQuiet DEF ProbeOnce
<1>2. CASE RemoveAccount
  <2>1. row'.status = "removed" /\ UNCHANGED <<handler, cut>>
    BY <1>2 DEF RemoveAccount, Remove, TypeOK, Rows, history
  <2> QED
    BY <2>1 DEF LockInv, Ways, Way, Adrift, OneOwner, Unlinked, GrantsApart, Whole, Agree, Linked
<1>3. CASE LateRotated
  <2>1. /\ late # {} /\ UNCHANGED <<handler, lock, consents, grants, turnAt, chosen, cut>>
        /\ \E g, t : row' = UpdateCredential(g, t)
    BY <1>3 DEF LateRotated, gate, external, history
  <2>2. row.status = "removed" \/ cut
    BY <2>1 DEF LockInv, GrantsApart, Whole
  <2>3. row'.status = row.status /\ (row.status = "new" => row' = row)
    BY <2>1 DEF UpdateCredential, Linked, TypeOK, Rows
  <2>4. Ways' /\ OneOwner' /\ Unlinked'
    BY <2>1, <2>3 DEF LockInv, Ways, Way, Adrift, OneOwner, Owning, Linked, Unlinked, Waits
  <2>5. GrantsApart' /\ Agree'
    BY <2>1, <2>2, <2>3 DEF GrantsApart, Whole, Agree, Linked
  <2> QED
    BY <2>4, <2>5 DEF LockInv
<1>4. CASE Restart
  <2>1. /\ UNCHANGED <<row, grants, turnAt, chosen>> /\ late' = {}
        /\ handler' = [h \in All |-> Idle]
        /\ consents' = [c \in Consents |-> IF c \in Filed THEN Left ELSE consents[c]]
        /\ cut' = (cut \/ late # {} \/ \E h \in All : handler[h].pc = "rotate")
    BY <1>4 DEF Restart, external
  <2>2. \A h \in All : handler'[h] = Idle
    BY <2>1
  <2>3. /\ ~Owning(Idle) /\ ~Adrift(Idle) /\ ~Carrying(Idle) /\ Refreshing(Idle) /\ Way(Idle)
        /\ Waits(Idle) /\ Idle.pc \notin {"refresh", "rotate"}
    BY DEF Idle, Owning, Adrift, Carrying, Refreshing, Lockless, Way, Candidates, Waits
  <2>4. ~cut' => ~cut /\ \A h \in All : handler[h].pc # "rotate"
    BY <2>1
  <2>5. \A c \in Consents : consents'[c].reconnect => consents[c].reconnect
    BY <2>1 DEF Left
  <2>6. Ways' /\ OneOwner'
    BY <2>2, <2>3 DEF Ways, Way, Adrift, OneOwner, Owning
  <2>7. Unlinked'
    BY <2>1, <2>2, <2>3, <2>5 DEF LockInv, Unlinked, Waits
  <2>8. GrantsApart'
    BY <2>1, <2>2, <2>3, <2>4 DEF LockInv, GrantsApart, Whole, Carrying
  <2>9. Agree'
    BY <2>1, <2>2, <2>3, <2>4 DEF LockInv, Agree, Refreshing, Linked
  <2> QED
    BY <2>6, <2>7, <2>8, <2>9 DEF LockInv
<1>5. CASE Tick \/ Expire \/ Revoke
  <2>1. /\ row'.status = row.status /\ row'.grant = row.grant /\ row'.turn = row.turn
        /\ UNCHANGED <<handler, lock, late, grants, turnAt, chosen, cut, consents>>
    BY <1>5 DEF Tick, Expire, Revoke, gate, external, history, TypeOK, Rows
  <2> QED
    BY <2>1, StayStep DEF LockInv, Unlinked
<1>6. ASSUME NEW c \in Consents, StartConsent(c) \/ GivesWay(c) \/ EndConsent(c)
      PROVE  LockInv'
  <2>1. /\ row' = row /\ UNCHANGED <<handler, lock, late, grants, turnAt, chosen, cut>>
    BY <1>6 DEF StartConsent, GivesWay, EndConsent, gate, external, history
  <2>2. row.status = "new" => \A d \in Consents : ~consents'[d].reconnect
    <3> SUFFICES ASSUME row.status = "new", NEW d \in Consents PROVE ~consents'[d].reconnect
      OBVIOUS
    <3>1. ~consents[d].reconnect /\ ~Linked /\ ~Left.reconnect
      BY DEF LockInv, Unlinked, Linked, Left
    <3>2. CASE StartConsent(c)
      BY <3>1, <3>2 DEF StartConsent
    <3>3. CASE GivesWay(c) \/ EndConsent(c)
      <4>1. consents' = [consents EXCEPT ![c] = Left]
        BY <3>3 DEF GivesWay, EndConsent
      <4> QED
        BY <3>1, <4>1 DEF TypeOK
    <3> QED
      BY <1>6, <3>2, <3>3
  <2> QED
    BY <2>1, <2>2, StayStep
<1> QED
  BY <1>1, <1>2, <1>3, <1>4, <1>5, <1>6

\* The lock has one owner and the credential stands, step by step.
LEMMA NextLock ==
    TypeOK /\ LockInv /\ [Next]_vars => LockInv'
<1> SUFFICES ASSUME TypeOK, LockInv, [Next]_vars PROVE LockInv'
  OBVIOUS
<1>1. ASSUME NEW h \in Handlers, Starts(h) PROVE LockInv'
  BY <1>1, StartsLock
<1>2. ASSUME NEW h \in All, Hold(h) \/ Steps(h) PROVE LockInv'
  BY <1>2, HoldLock, CheckStoredLock, AccessTokenLock, StoreRotatedLock, OutcomeLock, ResumeLock,
     StoreTokensLock, CallbackLock DEF Steps
<1>3. ASSUME NEW h \in All, Drop(h) \/ Elapsed(h) PROVE LockInv'
  BY <1>3, DroppedLock
<1>4. CASE UNCHANGED vars
  <2>1. UNCHANGED <<row, handler, lock, late, grants, turnAt, chosen, cut, consents>>
    BY <1>4 DEF vars, gate, external, history
  <2> QED
    BY <2>1, StayStep DEF LockInv, Unlinked
<1> QED
  BY <1>1, <1>2, <1>3, <1>4, ElseLock DEF Next

\* A new process has no attempt under way, and the row it starts from holds
\* a credential the provider takes.
LEMMA InitLock ==
    Init => TypeOK /\ LockInv
<1> SUFFICES ASSUME Init PROVE LockInv
  BY InitType
<1>1. \A h \in All : handler[h] = Idle
  BY DEF Init
<1>2. /\ ~Owning(Idle) /\ ~Adrift(Idle) /\ ~Carrying(Idle) /\ Refreshing(Idle) /\ Way(Idle)
      /\ Waits(Idle) /\ Idle.pc \notin {"refresh", "rotate"}
  BY DEF Idle, Owning, Adrift, Carrying, Refreshing, Lockless, Way, Candidates, Waits
<1>3. /\ row.status # "removed" /\ row.turn = 0 /\ row.grant \in {0, 1} /\ grants = row.grant
      /\ late = {} /\ chosen = row.grant /\ turnAt = [g \in Grants |-> 0]
      /\ row.status = "new" => row.grant = 0
      /\ row.status = "linked" => row.grant = 1
      /\ \A c \in Consents : ~consents[c].reconnect
  BY DEF Init
<1>4. 1 \in Grants
  BY GateAssumption DEF Grants
<1>5. Ways /\ OneOwner /\ Unlinked
  BY <1>1, <1>2, <1>3 DEF Ways, OneOwner, Unlinked
<1>6. GrantsApart /\ Agree
  BY <1>1, <1>2, <1>3, <1>4 DEF GrantsApart, Agree, Linked
<1> QED
  BY <1>5, <1>6 DEF LockInv

\* Unless a refresh or a replacement was cut off, the row of a linked
\* account holds the credential the user stored last and the refresh token
\* the provider takes next, or the holder of the lock has it and is about to
\* write it; for any number of handlers, consents, grants and turns.
THEOREM CredentialsStand ==
    Spec => []CredentialStands
<1>1. TypeOK /\ LockInv => CredentialStands
  <2> SUFFICES ASSUME TypeOK, LockInv, Linked, ~cut PROVE CredentialStands
    BY DEF CredentialStands
  <2>1. CASE \A h \in All : handler[h].pc # "rotate"
    BY <2>1 DEF LockInv, Agree, CredentialStands
  <2>2. ASSUME NEW h \in All, handler[h].pc = "rotate" PROVE CredentialStands
    BY <2>2 DEF LockInv, OneOwner, Owning, Agree, Refreshing, CredentialStands
  <2> QED
    BY <2>1, <2>2
<1>2. TypeOK /\ LockInv /\ [Next]_vars => TypeOK' /\ LockInv'
  BY NextType, NextLock
<1> QED
  BY <1>1, <1>2, InitLock, PTL DEF Spec

-----------------------------------------------------------------------------
(* The consents                                                            *)
(*                                                                         *)
(* What a card is told follows from what its callback has done, so the     *)
(* invariant says of every callback what it has: a claimed consent is of   *)
(* no other callback, nobody ended it, and its tokens are in the store     *)
(* once the callback is past its write and not before.                     *)

Before == {"exchange", "hold", "sent", "store"}

Consented == {"reconnect", "first"}

\* What an attempt has of a consent.
Claim(q) ==
  /\ q.what \in Consented <=> q.consent \in Consents
  /\ q.consent \in Consents =>
       /\ consents[q.consent].stage \in {"Exchanging", "left"}
       /\ q.consent \notin ended
       /\ q.pc \in Before => q.consent \notin stored
       /\ q.pc \in {"passed", "resume"} => q.consent \in stored
       /\ q.pc = "tell" => IF q.out = "pass" THEN q.consent \in stored
                           ELSE q.consent \notin stored \/ row.status = "removed"

Claims == \A h \in All : Claim(handler[h])

ClaimsApart == \A h, i \in All :
  handler[h].consent \in Consents /\ handler[h].consent = handler[i].consent => h = i

\* What each stage says of the store.
Books == \A c \in Consents :
  /\ consents[c].stage \in {"unborn", "Waiting"} => c \notin stored /\ c \notin ended
  /\ c \in ended => c \notin stored /\ consents[c].stage = "left"
  /\ consents[c].stage = "Done" => c \in stored
  /\ consents[c].stage = "Denied" => c \notin stored \/ row.status = "removed"

ConsentInv == Claims /\ ClaimsApart /\ Books

\* A removed account stays removed.
StaysRemoved == row.status = "removed" => row'.status = "removed"

\* A step of one attempt that writes no tokens and tells nobody.
LEMMA ClaimStep ==
    ASSUME ConsentInv, handler \in [All -> Attempts], NEW h \in All, NEW q \in Attempts,
           handler' = [handler EXCEPT ![h] = q], UNCHANGED <<consents, ended, stored>>,
           StaysRemoved, q.consent \in Consents => q.consent = handler[h].consent, Claim(q)
    PROVE  ConsentInv'
<1>1. handler'[h] = q /\ \A i \in All \ {h} : handler'[i] = handler[i]
  OBVIOUS
<1>2. Claims'
  <2> SUFFICES ASSUME NEW i \in All PROVE Claim(handler[i])'
    BY DEF Claims
  <2>1. CASE i = h
    BY <1>1, <2>1 DEF Claim, StaysRemoved
  <2>2. CASE i # h
    BY <1>1, <2>2 DEF ConsentInv, Claims, Claim, StaysRemoved
  <2> QED
    BY <2>1, <2>2
<1>3. ClaimsApart'
  BY <1>1 DEF ConsentInv, ClaimsApart
<1>4. Books'
  BY DEF ConsentInv, Books, StaysRemoved
<1> QED
  BY <1>2, <1>3, <1>4 DEF ConsentInv

\* How an attempt moves on with its claim.
Goes(p, q) ==
  /\ q.what = p.what /\ q.consent = p.consent
  /\ \/ p.what \notin Consented
     \/ p.pc \in Before /\ q.pc \in Before
     \/ {p.pc, q.pc} \subseteq {"passed", "resume"}
     \/ p.pc \in Before /\ q.pc = "tell" /\ q.out # "pass"
     \/ p.pc = "resume" /\ q.pc = "tell" /\ (q.out = "pass" \/ row.status = "removed")

\* An attempt that moves on like that, or ends, keeps what the consents say.
LEMMA GoesStep ==
    ASSUME ConsentInv, handler \in [All -> Attempts], NEW h \in All, NEW q \in Attempts,
           handler' = [handler EXCEPT ![h] = q], UNCHANGED <<consents, ended, stored>>,
           StaysRemoved, Goes(handler[h], q) \/ q = Idle
    PROVE  ConsentInv'
<1>1. Claim(handler[h])
  BY DEF ConsentInv, Claims
<1>2. Claim(Idle) /\ Idle.consent \notin Consents
  BY GateAssumption DEF Claim, Idle, Consented
<1>3. Goes(handler[h], q) => Claim(q) /\ q.consent = handler[h].consent
  BY <1>1 DEF Goes, Claim, Before
<1> QED
  BY <1>2, <1>3, ClaimStep

\* An outcome that goes to the gate is no callback's.
LEMMA ConcludesClaim ==
    ASSUME TypeOK, ConsentInv, NEW h \in All, NEW out \in Outs, Concludes(h, out),
           handler[h].what \notin Consented, UNCHANGED <<consents, ended, stored>>, StaysRemoved
    PROVE  ConsentInv'
<1>1. handler \in [All -> Attempts] /\ now \in 0..MaxNow /\ handler[h] \in Attempts
  BY DEF TypeOK
<1>2. CASE Ends(h)
  BY <1>1, <1>2, IdleType, GoesStep DEF Ends
<1>3. CASE Settles(h, out)
  <2> DEFINE q == [handler[h] EXCEPT !.pc = "settle", !.out = out, !.at = now]
  <2>1. q \in Attempts /\ Goes(handler[h], q)
    BY <1>1 DEF Attempts, Places, Goes
  <2>2. handler' = [handler EXCEPT ![h] = q]
    BY <1>1, <1>3 DEF Settles, Attempts
  <2> HIDE DEF q
  <2> QED
    BY <1>1, <2>1, <2>2, GoesStep
<1> QED
  BY <1>2, <1>3 DEF Concludes

\* A callback that goes on stays on its side of the write.
LEMMA BecomesClaim ==
    ASSUME TypeOK, ConsentInv, NEW h \in All, NEW pc \in Places, Becomes(h, pc),
           \/ handler[h].what \notin Consented
           \/ handler[h].pc \in Before /\ pc \in Before
           \/ {handler[h].pc, pc} \subseteq {"passed", "resume"},
           UNCHANGED <<consents, ended, stored>>, StaysRemoved
    PROVE  ConsentInv'
<1> DEFINE q == [handler[h] EXCEPT !.pc = pc]
<1>1. handler \in [All -> Attempts] /\ handler[h] \in Attempts
  BY DEF TypeOK
<1>2. q \in Attempts /\ q.what = handler[h].what /\ q.consent = handler[h].consent /\ q.pc = pc
  BY <1>1 DEF Attempts
<1>3. handler' = [handler EXCEPT ![h] = q]
  BY <1>1 DEF Becomes, Attempts
<1> HIDE DEF q
<1>4. Goes(handler[h], q)
  BY <1>2 DEF Goes
<1> QED
  BY <1>1, <1>2, <1>3, <1>4, GoesStep

\* A candidate that is denied was not written.
LEMMA DeniesClaim ==
    ASSUME TypeOK, ConsentInv, NEW h \in All, Denies(h), handler[h].pc \in Before,
           UNCHANGED <<consents, ended, stored>>, StaysRemoved
    PROVE  ConsentInv'
<1>1. handler \in [All -> Attempts] /\ handler[h] \in Attempts
  BY DEF TypeOK
<1>2. CASE Ends(h)
  BY <1>1, <1>2, IdleType, GoesStep DEF Ends
<1>3. CASE handler' = [handler EXCEPT ![h].pc = "tell", ![h].out = "undecided"]
  <2> DEFINE q == [handler[h] EXCEPT !.pc = "tell", !.out = "undecided"]
  <2>1. /\ q \in Attempts /\ q.what = handler[h].what /\ q.consent = handler[h].consent
        /\ q.pc = "tell" /\ q.out = "undecided"
    BY <1>1 DEF Attempts, Places, Outs
  <2>2. handler' = [handler EXCEPT ![h] = q]
    BY <1>1, <1>3 DEF Attempts
  <2> HIDE DEF q
  <2>3. Goes(handler[h], q)
    BY <2>1 DEF Goes
  <2> QED
    BY <1>1, <2>1, <2>2, <2>3, GoesStep
<1> QED
  BY <1>2, <1>3 DEF Denies

\* Where an attempt begins; a callback claims a consent nobody has.
LEMMA StartsClaim ==
    ASSUME TypeOK, LockInv, ConsentInv, NEW h \in Handlers, Starts(h)
    PROVE  ConsentInv'
<1>1. handler \in [All -> Attempts] /\ h \in All
  BY DEF TypeOK, All
<1>2. ASSUME NEW what \in Kinds \ Consented, NEW pc \in {"hold", "sent"},
             NEW g \in 0..MaxGrants, NEW o \in BOOLEAN, Begin(h, what, pc, g, o)
      PROVE  ConsentInv'
  <2> DEFINE q == [Idle EXCEPT !.what = what, !.pc = pc, !.grant = g, !.oauth = o]
  <2>1. q \in Attempts /\ q.what = what /\ q.consent = None
    BY IdleType DEF Attempts, Places, Idle
  <2>2. /\ handler' = [handler EXCEPT ![h] = q] /\ UNCHANGED <<consents, ended, stored>>
        /\ StaysRemoved
    BY <1>2 DEF Begin, history, StaysRemoved
  <2> HIDE DEF q
  <2>3. Claim(q) /\ q.consent \notin Consents
    BY <2>1, GateAssumption DEF Claim
  <2> QED
    BY <1>1, <2>1, <2>2, <2>3, ClaimStep
<1>3. ASSUME NEW c \in Consents, Callback(h, c) PROVE ConsentInv'
  <2> DEFINE q == [Idle EXCEPT !.pc = "exchange", !.consent = c,
                     !.what = IF consents[c].reconnect THEN "reconnect" ELSE "first"]
  <2>1. /\ q \in Attempts /\ q.pc = "exchange" /\ q.what \in Consented /\ q.consent = c
    BY IdleType DEF Attempts, Places, Kinds, Idle, Consented
  <2>2. /\ handler' = [handler EXCEPT ![h] = q] /\ UNCHANGED <<row, ended, stored>>
        /\ consents[c].stage = "Waiting" /\ consents' = [consents EXCEPT ![c].stage = "Exchanging"]
    BY <1>3 DEF Callback, history
  <2> HIDE DEF q
  <2>3. handler'[h] = q /\ \A i \in All \ {h} : handler'[i] = handler[i]
    BY <1>1, <2>2
  <2>4. /\ consents'[c].stage = "Exchanging" /\ c \notin stored /\ c \notin ended
        /\ \A d \in Consents \ {c} : consents'[d] = consents[d]
    BY <2>2 DEF TypeOK, Entries, ConsentInv, Books
  <2>5. \A i \in All : handler[i].consent # c
    BY <2>2 DEF ConsentInv, Claims, Claim
  <2>6. Claims'
    <3> SUFFICES ASSUME NEW i \in All PROVE Claim(handler[i])'
      BY DEF Claims
    <3>1. CASE i = h
      BY <2>1, <2>2, <2>3, <2>4, <3>1 DEF Claim
    <3>2. CASE i # h
      <4>1. Claim(handler[i]) /\ handler[i].consent # c /\ handler'[i] = handler[i]
        BY <2>3, <2>5, <3>2 DEF ConsentInv, Claims
      <4> QED
        BY <2>2, <2>4, <4>1 DEF Claim
    <3> QED
      BY <3>1, <3>2
  <2>7. ClaimsApart'
    BY <2>1, <2>3, <2>5 DEF ConsentInv, ClaimsApart
  <2>8. Books'
    BY <2>2, <2>4 DEF ConsentInv, Books
  <2> QED
    BY <2>6, <2>7, <2>8 DEF ConsentInv
<1>4. {"retry", "proxy", "connect", "submit", "replace", "add"} \subseteq Kinds \ Consented
  BY DEF Kinds, Consented
<1>5. row.grant \in 0..MaxGrants /\ row.oauth \in BOOLEAN /\ 0 \in 0..MaxGrants
      /\ (Typed => grants + 1 \in 0..MaxGrants)
  BY GateAssumption DEF TypeOK, Rows, Typed
<1>6. Retry(h) \/ Forward(h) \/ Connect(h) => ConsentInv'
  BY <1>2, <1>4, <1>5 DEF Retry, Forward, Connect
<1>7. ReplaceCredentials(h) \/ AddAccount(h) => ConsentInv'
  BY <1>2, <1>4, <1>5 DEF ReplaceCredentials, AddAccount
<1> QED
  BY <1>3, <1>6, <1>7 DEF Starts

\* The steps of an attempt that write no tokens and tell nobody.
LEMMA StepsClaim ==
    ASSUME TypeOK, LockInv, ConsentInv, NEW h \in All,
           \/ Hold(h) \/ CheckStored(h) \/ AccessToken(h) \/ StoreRotated(h) \/ StopRevoked(h)
           \/ Check(h) \/ TargetGone(h) \/ Apply(h) \/ StopRow(h) \/ Passed(h)
           \/ ResumeRow(h) \/ Exchange(h) \/ Drop(h) \/ Elapsed(h)
    PROVE  ConsentInv'
<1>1. /\ handler \in [All -> Attempts] /\ handler[h] \in Attempts /\ Way(handler[h])
      /\ {"credential", "connection", "undecided", "pass"} \subseteq Outs
      /\ {"read", "sent", "revoked", "store", "stop", "resume"} \subseteq Places
  BY DEF TypeOK, LockInv, Ways, Outs, Places
<1>2. UNCHANGED <<consents, ended, stored>>
  BY DEF Hold, CheckStored, AccessToken, StoreRotated, StopRevoked, Check, TargetGone, Apply,
         StopRow, Passed, ResumeRow, Exchange, Drop, Elapsed, history
<1>3. StaysRemoved
  <2>1. row' = row \/ (\E g, t : row' = UpdateCredential(g, t)) \/ (\E cause : row' = Stop(cause)) \/ row' = Resume
    BY DEF Hold, CheckStored, AccessToken, StoreRotated, StopRevoked, Check, TargetGone, Apply,
           StopRow, Passed, ResumeRow, Exchange, Drop, Elapsed
  <2> QED
    BY <2>1 DEF StaysRemoved, UpdateCredential, Stop, Resume, Linked
<1>4. ASSUME Ends(h) \/ handler' = [handler EXCEPT ![h] = Idle] PROVE ConsentInv'
  BY <1>1, <1>2, <1>3, <1>4, IdleType, GoesStep DEF Ends
<1>5. CASE Hold(h)
  <2>1. AfterHold(h) \in {"read", "sent"} /\ Becomes(h, AfterHold(h)) /\ handler[h].pc = "hold"
        /\ (handler[h].what \in Consented => AfterHold(h) = "sent")
    BY <1>1, <1>5 DEF Hold, AfterHold, Way, Candidates, Consented
  <2> HIDE DEF AfterHold
  <2> QED
    BY <1>1, <1>2, <1>3, <2>1, BecomesClaim DEF Before
<1>6. CASE CheckStored(h)
  <2>1. handler[h].what \notin Consented
    BY <1>1, <1>6 DEF CheckStored, Way, Candidates, Consented
  <2>2. CASE \E out \in {"credential", "undecided"} : Concludes(h, out)
    BY <1>1, <1>2, <1>3, <2>1, <2>2, ConcludesClaim
  <2>3. CASE handler' = [handler EXCEPT ![h].grant = row.grant, ![h].turn = row.turn,
                           ![h].pc = IF row.oauth /\ ~row.live THEN "refresh" ELSE "sent"]
    <3> DEFINE pc == IF row.oauth /\ ~row.live THEN "refresh" ELSE "sent"
               q == [handler[h] EXCEPT !.grant = row.grant, !.turn = row.turn, !.pc = pc]
    <3>1. pc \in Places /\ row.grant \in 0..MaxGrants /\ row.turn \in 0..MaxTurns
      BY DEF Places, TypeOK, Rows
    <3>2. handler' = [handler EXCEPT ![h] = q]
      BY <1>1, <2>3 DEF Attempts
    <3> HIDE DEF pc
    <3>3. q \in Attempts /\ q.what = handler[h].what /\ q.consent = handler[h].consent
      BY <1>1, <3>1 DEF Attempts
    <3> HIDE DEF q
    <3>4. Goes(handler[h], q)
      BY <2>1, <3>3 DEF Goes
    <3> QED
      BY <1>1, <1>2, <1>3, <3>2, <3>3, <3>4, GoesStep
  <2> QED
    BY <1>6, <2>2, <2>3 DEF CheckStored
<1>7. CASE AccessToken(h)
  <2>1. handler[h].what \notin Consented
    BY <1>1, <1>7 DEF AccessToken, Way, Candidates, Consented
  <2>2. CASE Becomes(h, "revoked")
    BY <1>1, <1>2, <1>3, <2>1, <2>2, BecomesClaim
  <2>3. CASE Concludes(h, "connection")
    BY <1>1, <1>2, <1>3, <2>1, <2>3, ConcludesClaim
  <2>4. CASE /\ Rotates(h)
             /\ handler' = [handler EXCEPT ![h].pc = "rotate", ![h].turn = turnAt'[handler[h].grant]]
    <3> DEFINE t == turnAt'[handler[h].grant]
               q == [handler[h] EXCEPT !.pc = "rotate", !.turn = t]
    <3>1. t \in 0..MaxTurns /\ "rotate" \in Places
      BY <2>4 DEF Rotates, Honoured, TypeOK, Places
    <3>2. handler' = [handler EXCEPT ![h] = q]
      BY <1>1, <2>4 DEF Attempts
    <3> HIDE DEF t
    <3>3. q \in Attempts /\ q.what = handler[h].what /\ q.consent = handler[h].consent
      BY <1>1, <3>1 DEF Attempts
    <3> HIDE DEF q
    <3>4. Goes(handler[h], q)
      BY <2>1, <3>3 DEF Goes
    <3> QED
      BY <1>1, <1>2, <1>3, <3>2, <3>3, <3>4, GoesStep
  <2> QED
    BY <1>7, <2>2, <2>3, <2>4 DEF AccessToken
<1>8. CASE StoreRotated(h) \/ StopRevoked(h)
  <2>1. handler[h].what \notin Consented
    BY <1>1, <1>8 DEF StoreRotated, StopRevoked, Way, Candidates, Consented
  <2>2. Becomes(h, "sent") \/ Concludes(h, "undecided") \/ Concludes(h, "credential")
    BY <1>8 DEF StoreRotated, StopRevoked
  <2> QED
    BY <1>1, <1>2, <1>3, <2>1, <2>2, BecomesClaim, ConcludesClaim
<1>9. CASE Check(h)
  <2>1. PICK out \in Answers(handler[h].grant) : Answered(h, out)
    BY <1>9 DEF Check
  <2>2. out \in Outs /\ handler[h].pc = "sent" /\ handler[h].pc \in Before /\ "store" \in Before
    BY <1>1, <1>9, <2>1 DEF Check, Answers, Before
  <2>3. CASE ~Candidate(h) /\ Concludes(h, out)
    BY <1>2, <1>3, <2>2, <2>3, ConcludesClaim DEF Candidate, Consented
  <2>4. CASE Becomes(h, "store")
    BY <1>1, <1>2, <1>3, <2>2, <2>4, BecomesClaim
  <2>5. CASE Denies(h)
    BY <1>2, <1>3, <2>2, <2>5, DeniesClaim
  <2> QED
    BY <2>1, <2>3, <2>4, <2>5 DEF Answered
<1>10. CASE TargetGone(h)
  BY <1>2, <1>3, <1>10, DeniesClaim DEF TargetGone, Before
<1>11. CASE Apply(h) \/ StopRow(h)
  <2>1. Ends(h) \/ (Apply(h) /\ (Becomes(h, "stop") \/ Becomes(h, "resume")))
    BY <1>11 DEF Apply, StopRow
  <2>2. Apply(h) => handler[h].what \notin Consented
    BY <1>1 DEF Apply, Way, Candidates, Consented
  <2> QED
    BY <1>1, <1>2, <1>3, <1>4, <2>1, <2>2, BecomesClaim
<1>12. CASE Passed(h)
  BY <1>1, <1>2, <1>3, <1>12, BecomesClaim DEF Passed
<1>13. CASE ResumeRow(h)
  <2>1. CASE /\ handler[h].what = "reconnect"
             /\ handler' = [handler EXCEPT ![h].pc = "tell",
                              ![h].out = IF Linked THEN "pass" ELSE "undecided"]
    <3> DEFINE out == IF Linked THEN "pass" ELSE "undecided"
               q == [handler[h] EXCEPT !.pc = "tell", !.out = out]
    <3>1. handler' = [handler EXCEPT ![h] = q]
      BY <1>1, <2>1 DEF Attempts
    <3>2. row.status # "new" /\ handler[h].pc = "resume"
      BY <1>13, <2>1 DEF ResumeRow, LockInv, Unlinked, Waits
    <3>3. out \in Outs /\ "tell" \in Places /\ (out = "pass" \/ row.status = "removed")
      BY <3>2 DEF Outs, Places, Linked, TypeOK, Rows
    <3> HIDE DEF out
    <3>4. /\ q \in Attempts /\ q.what = handler[h].what /\ q.consent = handler[h].consent
          /\ q.pc = "tell" /\ q.out = out
      BY <1>1, <3>3 DEF Attempts
    <3> HIDE DEF q
    <3>5. Goes(handler[h], q)
      BY <3>2, <3>3, <3>4 DEF Goes
    <3> QED
      BY <1>1, <1>2, <1>3, <3>1, <3>4, <3>5, GoesStep
  <2> QED
    BY <1>4, <1>13, <2>1 DEF ResumeRow
<1>14. CASE Exchange(h)
  <2>1. handler[h].pc = "exchange"
    BY <1>14 DEF Exchange
  <2>2. CASE handler' = [handler EXCEPT ![h].pc = "tell", ![h].out = "undecided"]
    <3> DEFINE q == [handler[h] EXCEPT !.pc = "tell", !.out = "undecided"]
    <3>1. /\ q \in Attempts /\ q.what = handler[h].what /\ q.consent = handler[h].consent
          /\ q.pc = "tell" /\ q.out = "undecided"
      BY <1>1 DEF Attempts, Places
    <3>2. handler' = [handler EXCEPT ![h] = q]
      BY <1>1, <2>2 DEF Attempts
    <3> HIDE DEF q
    <3>3. Goes(handler[h], q)
      BY <2>1, <3>1 DEF Goes, Before
    <3> QED
      BY <1>1, <1>2, <1>3, <3>1, <3>2, <3>3, GoesStep
  <2>3. CASE /\ grants < MaxGrants
             /\ handler' = [handler EXCEPT ![h].grant = grants + 1,
                              ![h].pc = IF handler[h].what = "reconnect" THEN "hold" ELSE "sent"]
    <3> DEFINE pc == IF handler[h].what = "reconnect" THEN "hold" ELSE "sent"
               q == [handler[h] EXCEPT !.grant = grants + 1, !.pc = pc]
    <3>1. handler' = [handler EXCEPT ![h] = q]
      BY <1>1, <2>3 DEF Attempts
    <3>2. pc \in {"hold", "sent"} /\ grants + 1 \in 0..MaxGrants
      BY <2>3, GateAssumption DEF TypeOK
    <3> HIDE DEF pc
    <3>3. /\ q \in Attempts /\ q.what = handler[h].what /\ q.consent = handler[h].consent
          /\ q.pc = pc
      BY <1>1, <3>2 DEF Attempts, Places
    <3> HIDE DEF q
    <3>4. Goes(handler[h], q)
      BY <2>1, <3>2, <3>3 DEF Goes, Before
    <3> QED
      BY <1>1, <1>2, <1>3, <3>1, <3>3, <3>4, GoesStep
  <2> QED
    BY <1>14, <2>2, <2>3 DEF Exchange
<1>15. CASE Drop(h)
  <2>1. CASE handler' = [handler EXCEPT ![h].gone = TRUE]
                /\ handler[h].pc \in {"settle", "stop", "store", "passed", "resume"}
    <3> DEFINE q == [handler[h] EXCEPT !.gone = TRUE]
    <3>1. /\ q \in Attempts /\ q.what = handler[h].what /\ q.consent = handler[h].consent
          /\ q.pc = handler[h].pc
      BY <1>1 DEF Attempts
    <3>2. handler' = [handler EXCEPT ![h] = q]
      BY <1>1, <2>1 DEF Attempts
    <3> HIDE DEF q
    <3>3. Goes(handler[h], q)
      BY <1>1, <2>1, <3>1 DEF Goes, Way, Before, Consented, Candidates
    <3> QED
      BY <1>1, <1>2, <1>3, <3>1, <3>2, <3>3, GoesStep
  <2> QED
    BY <1>4, <1>15, <2>1 DEF Drop
<1>16. CASE Elapsed(h)
  <2>1. Concludes(h, "connection") /\ handler[h].what \notin Consented
    BY <1>16 DEF Elapsed, Concludes, Consented
  <2> QED
    BY <1>1, <1>2, <1>3, <2>1, ConcludesClaim
<1> QED
  BY <1>5, <1>6, <1>7, <1>8, <1>9, <1>10, <1>11, <1>12, <1>13, <1>14, <1>15, <1>16

\* The write of a consent's tokens: its callback is past it, and no other
\* attempt has the consent.
LEMMA StoreTokensClaim ==
    ASSUME TypeOK, LockInv, ConsentInv, NEW h \in All, StoreTokens(h)
    PROVE  ConsentInv'
<1> DEFINE c == handler[h].consent
<1>1. /\ handler \in [All -> Attempts] /\ handler[h] \in Attempts /\ Claim(handler[h])
      /\ handler[h].pc = "store" /\ UNCHANGED <<consents, ended>> /\ "store" \in Before
  BY DEF TypeOK, ConsentInv, Claims, StoreTokens, Before
<1>2. StaysRemoved
  BY DEF StoreTokens, StaysRemoved, Linked, ReplaceCredential, Add
<1>3. CASE Denies(h) /\ stored' = stored
  BY <1>1, <1>2, <1>3, DeniesClaim
<1>4. ASSUME NEW q \in Attempts, handler' = [handler EXCEPT ![h] = q],
             stored' = stored \cup ({c} \cap Consents),
             \/ q = Idle
             \/ /\ q.what = handler[h].what /\ q.consent = c
                /\ q.pc = "passed" \/ (q.pc = "tell" /\ q.out = "pass")
      PROVE  ConsentInv'
  <2>1. handler'[h] = q /\ \A i \in All \ {h} : handler'[i] = handler[i]
    BY <1>1, <1>4
  <2>2. \A d \in Consents : d \in stored' <=> d \in stored \/ d = c
    BY <1>4
  <2>3. c \in Consents => consents[c].stage \in {"Exchanging", "left"} /\ c \notin ended
    BY <1>1 DEF Claim
  <2>4. Claims'
    <3> SUFFICES ASSUME NEW i \in All PROVE Claim(handler[i])'
      BY DEF Claims
    <3>1. CASE i = h
      <4>1. CASE q = Idle
        <5>1. handler'[i].what = "retry" /\ handler'[i].consent = None
          BY <2>1, <3>1, <4>1 DEF Idle
        <5> QED
          BY <5>1, GateAssumption DEF Claim, Consented
      <4>2. CASE /\ q.what = handler[h].what /\ q.consent = c
                 /\ q.pc = "passed" \/ (q.pc = "tell" /\ q.out = "pass")
        BY <1>1, <2>1, <2>2, <3>1, <4>2 DEF Claim, Before
      <4> QED
        BY <1>4, <4>1, <4>2
    <3>2. CASE i # h
      <4>1. /\ Claim(handler[i]) /\ handler'[i] = handler[i]
            /\ handler[i].consent \in Consents => handler[i].consent # c
        BY <2>1, <3>2 DEF ConsentInv, Claims, ClaimsApart
      <4> QED
        BY <1>1, <1>2, <2>2, <4>1 DEF Claim, StaysRemoved
    <3> QED
      BY <3>1, <3>2
  <2>5. ClaimsApart'
    <3>1. q.consent \in Consents => q.consent = c
      BY <1>4, GateAssumption DEF Idle
    <3> QED
      BY <2>1, <3>1 DEF ConsentInv, ClaimsApart
  <2>6. Books'
    BY <1>1, <1>2, <2>2, <2>3 DEF ConsentInv, Books, StaysRemoved
  <2> QED
    BY <2>4, <2>5, <2>6 DEF ConsentInv
<1>5. CASE Becomes(h, "passed") /\ stored' = stored \cup ({c} \cap Consents)
  <2> DEFINE q == [handler[h] EXCEPT !.pc = "passed"]
  <2>1. q \in Attempts /\ q.what = handler[h].what /\ q.consent = c /\ q.pc = "passed"
    BY <1>1 DEF Attempts, Places
  <2>2. handler' = [handler EXCEPT ![h] = q]
    BY <1>1, <1>5 DEF Becomes, Attempts
  <2> HIDE DEF q
  <2> QED
    BY <1>4, <1>5, <2>1, <2>2
<1>6. CASE /\ handler' = [handler EXCEPT ![h].pc = "tell", ![h].out = "pass"]
           /\ stored' = stored \cup ({c} \cap Consents)
  <2> DEFINE q == [handler[h] EXCEPT !.pc = "tell", !.out = "pass"]
  <2>1. /\ q \in Attempts /\ q.what = handler[h].what /\ q.consent = c
        /\ q.pc = "tell" /\ q.out = "pass"
    BY <1>1 DEF Attempts, Places, Outs
  <2>2. handler' = [handler EXCEPT ![h] = q]
    BY <1>1, <1>6 DEF Attempts
  <2> HIDE DEF q
  <2> QED
    BY <1>4, <1>6, <2>1, <2>2
<1>7. CASE Ends(h) /\ stored' = stored \cup ({c} \cap Consents)
  BY <1>4, <1>7, IdleType DEF Ends
<1> QED
  BY <1>3, <1>5, <1>6, <1>7 DEF StoreTokens

\* The card is told what the callback did.
LEMMA SettleClaim ==
    ASSUME TypeOK, ConsentInv, NEW h \in All, SettleConsent(h)
    PROVE  ConsentInv'
<1> DEFINE c == handler[h].consent
           stage == IF handler[h].out = "pass" THEN "Done" ELSE "Denied"
<1>1. /\ handler \in [All -> Attempts] /\ Claim(handler[h]) /\ handler[h].pc = "tell"
      /\ UNCHANGED <<row, ended, stored>> /\ handler' = [handler EXCEPT ![h] = Idle]
      /\ consents' = IF c \notin Filed THEN consents ELSE [consents EXCEPT ![c].stage = stage]
  BY DEF TypeOK, ConsentInv, Claims, SettleConsent, history
<1>2. CASE consents' = consents
  <2>1. StaysRemoved
    BY <1>1 DEF StaysRemoved
  <2> QED
    BY <1>1, <1>2, <2>1, IdleType, GoesStep
<1>3. CASE c \in Filed /\ consents' = [consents EXCEPT ![c].stage = stage]
  <2>1. handler'[h] = Idle /\ \A i \in All \ {h} : handler'[i] = handler[i]
    BY <1>1
  <2>2. /\ c \in Consents /\ consents[c].stage = "Exchanging" /\ c \notin ended
        /\ stage = "Done" => c \in stored
        /\ stage = "Denied" => c \notin stored \/ row.status = "removed"
    BY <1>1, <1>3 DEF Filed, Claim
  <2>3. stage \in {"Done", "Denied"}
    OBVIOUS
  <2> HIDE DEF stage
  <2>4. /\ consents'[c].stage = stage /\ \A d \in Consents \ {c} : consents'[d] = consents[d]
    BY <1>3, <2>2 DEF TypeOK, Entries
  <2>5. Claims'
    <3> SUFFICES ASSUME NEW i \in All PROVE Claim(handler[i])'
      BY DEF Claims
    <3>1. CASE i = h
      <4>1. handler'[i].what = "retry" /\ handler'[i].consent = None
        BY <2>1, <3>1 DEF Idle
      <4> QED
        BY <4>1, GateAssumption DEF Claim, Consented
    <3>2. CASE i # h
      <4>1. /\ Claim(handler[i]) /\ handler'[i] = handler[i]
            /\ handler[i].consent # c
        BY <2>1, <2>2, <3>2 DEF ConsentInv, Claims, ClaimsApart
      <4> QED
        BY <1>1, <2>4, <4>1 DEF Claim
    <3> QED
      BY <3>1, <3>2
  <2>6. ClaimsApart'
    <3>1. Idle.consent \notin Consents
      BY GateAssumption DEF Idle
    <3> QED
      BY <2>1, <3>1 DEF ConsentInv, ClaimsApart
  <2>7. Books'
    <3> SUFFICES ASSUME NEW d \in Consents
                 PROVE  /\ consents'[d].stage \in {"unborn", "Waiting"} => d \notin stored /\ d \notin ended
                        /\ d \in ended => d \notin stored /\ consents'[d].stage = "left"
                        /\ consents'[d].stage = "Done" => d \in stored
                        /\ consents'[d].stage = "Denied" => d \notin stored \/ row.status = "removed"
      BY <1>1 DEF Books
    <3>1. CASE d = c
      BY <2>2, <2>3, <2>4, <3>1
    <3>2. CASE d # c
      BY <2>4, <3>2 DEF ConsentInv, Books
    <3> QED
      BY <3>1, <3>2
  <2> QED
    BY <2>5, <2>6, <2>7 DEF ConsentInv
<1> QED
  BY <1>1, <1>2, <1>3

\* The consents alone move: one is filed, ended or gone.
LEMMA EntriesClaim ==
    ASSUME TypeOK, ConsentInv, UNCHANGED <<handler, stored>>, StaysRemoved,
           ended' \in SUBSET Consents,
           \A c \in Consents :
             /\ \/ consents'[c].stage \in {consents[c].stage, "left"}
                \/ consents[c].stage = "unborn" /\ consents'[c].stage = "Waiting"
             /\ c \in ended' => c \in ended \/ (consents[c].stage = "Waiting" /\ consents'[c].stage = "left")
    PROVE  ConsentInv'
<1>1. Claims'
  <2> SUFFICES ASSUME NEW i \in All PROVE Claim(handler[i])'
    BY DEF Claims
  <2>1. Claim(handler[i])
    BY DEF ConsentInv, Claims
  <2> QED
    BY <2>1 DEF Claim, StaysRemoved
<1>2. ClaimsApart'
  BY DEF ConsentInv, ClaimsApart
<1>3. Books'
  BY DEF ConsentInv, Books, StaysRemoved
<1> QED
  BY <1>1, <1>2, <1>3 DEF ConsentInv

\* The consents, the removal and what nobody asked for.
LEMMA ElseClaim ==
    ASSUME TypeOK, LockInv, ConsentInv,
           \/ ProbeOnce \/ RemoveAccount \/ LateRotated
           \/ Restart \/ Tick \/ Expire \/ Revoke \/ UNCHANGED vars
           \/ \E c \in Consents : StartConsent(c) \/ GivesWay(c) \/ EndConsent(c)
    PROVE  ConsentInv'
<1>1. CASE ProbeOnce
  <2> DEFINE q == [Idle EXCEPT !.what = "probe", !.pc = "hold", !.grant = 0, !.oauth = FALSE]
  <2>1. q \in Attempts /\ q.what = "probe" /\ q.consent = None
    BY IdleType, GateAssumption DEF Attempts, Places, Kinds, Idle
  <2>2. /\ handler' = [handler EXCEPT ![Probe] = q] /\ UNCHANGED <<consents, ended, stored>>
        /\ StaysRemoved /\ Probe \in All
    BY <1>1 DEF ProbeOnce, Begin, history, StaysRemoved, All
  <2> HIDE DEF q
  <2>3. Claim(q) /\ q.consent \notin Consents
    BY <2>1, GateAssumption DEF Claim, Consented
  <2> QED
    BY <2>1, <2>2, <2>3, ClaimStep DEF TypeOK
<1>2. CASE RemoveAccount \/ LateRotated \/ Tick \/ Expire \/ Revoke \/ UNCHANGED vars
  <2>1. UNCHANGED <<handler, consents, ended, stored>>
    BY <1>2 DEF RemoveAccount, LateRotated, Tick, Expire, Revoke, vars, gate, external, history
  <2>2. StaysRemoved
    BY <1>2 DEF RemoveAccount, Remove, LateRotated, UpdateCredential, Tick, Expire, Revoke, vars,
                StaysRemoved, Linked
  <2> QED
    BY <2>1, <2>2, EntriesClaim DEF TypeOK
<1>3. CASE Restart
  <2>1. /\ UNCHANGED <<row, ended, stored>> /\ handler' = [h \in All |-> Idle]
        /\ consents' = [c \in Consents |-> IF c \in Filed THEN Left ELSE consents[c]]
    BY <1>3 DEF Restart
  <2>2. \A c \in Consents : consents'[c].stage \in {consents[c].stage, "left"}
    BY <2>1 DEF Left
  <2>3. Claims' /\ ClaimsApart'
    <3>1. Idle.consent \notin Consents /\ Idle.what \notin Consented
      BY GateAssumption DEF Idle, Consented
    <3> QED
      BY <2>1, <3>1 DEF Claims, Claim, ClaimsApart
  <2>4. Books'
    BY <2>1, <2>2 DEF ConsentInv, Books
  <2> QED
    BY <2>3, <2>4 DEF ConsentInv
<1>4. ASSUME NEW c \in Consents, StartConsent(c) PROVE ConsentInv'
  <2>1. /\ UNCHANGED <<handler, row, stored, ended>> /\ consents[c].stage = "unborn"
        /\ consents' = [d \in Consents |->
             IF d = c THEN [stage |-> "Waiting", born |-> now, reconnect |-> Linked]
             ELSE IF d \in Filed /\ ~Alive(d) THEN Left ELSE consents[d]]
    BY <1>4 DEF StartConsent, history
  <2>2. \A d \in Consents : \/ consents'[d].stage \in {consents[d].stage, "left"}
                            \/ consents[d].stage = "unborn" /\ consents'[d].stage = "Waiting"
    BY <2>1 DEF Left
  <2> QED
    BY <2>1, <2>2, EntriesClaim DEF TypeOK, StaysRemoved
<1>5. ASSUME NEW c \in Consents, GivesWay(c) \/ EndConsent(c) PROVE ConsentInv'
  <2>1. /\ UNCHANGED <<handler, row, stored>> /\ consents' = [consents EXCEPT ![c] = Left]
        /\ ended' = ended \/ (consents[c].stage = "Waiting" /\ ended' = ended \cup {c})
    BY <1>5 DEF GivesWay, EndConsent, history
  <2>2. consents'[c].stage = "left" /\ \A d \in Consents \ {c} : consents'[d] = consents[d]
    BY <2>1 DEF TypeOK, Left
  <2>3. \A d \in Consents : d \in ended' => d \in ended \/ (d = c /\ consents[c].stage = "Waiting")
    BY <2>1
  <2>4. ended' \in SUBSET Consents /\ StaysRemoved
    BY <2>1 DEF TypeOK, StaysRemoved
  <2>5. \A d \in Consents :
          /\ consents'[d].stage \in {consents[d].stage, "left"}
          /\ d \in ended' => d \in ended \/ (consents[d].stage = "Waiting" /\ consents'[d].stage = "left")
    BY <2>2, <2>3
  <2> QED
    BY <2>1, <2>4, <2>5, EntriesClaim
<1> QED
  BY <1>1, <1>2, <1>3, <1>4, <1>5

\* A consent does what its card is told, for any number of handlers and
\* consents: one that was ended stores nothing, one that reads done is
\* stored, one that reads denied is not unless the account left under it,
\* and no two callbacks have the same one.
THEOREM ConsentsHold ==
    Spec => []ConsentHolds
<1>1. Init => ConsentInv
  <2> SUFFICES ASSUME Init PROVE ConsentInv
    OBVIOUS
  <2>1. /\ \A h \in All : handler[h].what = "retry" /\ handler[h].consent = None
        /\ \A c \in Consents : consents[c].stage = "unborn"
        /\ ended = {} /\ stored = {}
    BY DEF Init, Idle
  <2> QED
    BY <2>1, GateAssumption DEF ConsentInv, Claims, Claim, Consented, ClaimsApart, Books
<1>2. TypeOK /\ LockInv /\ ConsentInv /\ [Next]_vars => TypeOK' /\ LockInv' /\ ConsentInv'
  <2> SUFFICES ASSUME TypeOK, LockInv, ConsentInv, [Next]_vars PROVE ConsentInv'
    BY NextType, NextLock
  <2>1. ASSUME NEW h \in Handlers, Starts(h) PROVE ConsentInv'
    BY <2>1, StartsClaim
  <2>2. ASSUME NEW h \in All, Hold(h) \/ Steps(h) \/ Drop(h) \/ Elapsed(h) PROVE ConsentInv'
    BY <2>2, StepsClaim, StoreTokensClaim, SettleClaim DEF Steps
  <2> QED
    BY <2>1, <2>2, ElseClaim DEF Next
<1>3. TypeOK /\ ConsentInv => ConsentHolds
  <2> SUFFICES ASSUME TypeOK, ConsentInv PROVE ConsentHolds
    OBVIOUS
  <2>1. \A c \in Consents : consents[c].stage = "Denied" /\ Linked => c \notin stored
    BY DEF ConsentInv, Books, Linked
  <2>2. ended \cap stored = {}
    BY DEF TypeOK, ConsentInv, Books
  <2> QED
    BY <2>1, <2>2 DEF ConsentInv, Books, ClaimsApart, ConsentHolds
<1> QED
  BY <1>1, <1>2, <1>3, InitLock, PTL DEF Spec
=============================================================================
