--------------------------- MODULE RequestsProofs ---------------------------
(***************************************************************************)
(* What a submission tells and leaves behind is what the submission server *)
(* took, and a call answers what the calls before it left and is done at   *)
(* most once, for every list of calls, number of passes and bound: proved  *)
(* for requests dropped at any point, answers lost, and two requests that  *)
(* send beside each other.                                                 *)
(*                                                                         *)
(* The argument for the sends: a message of a call is out only when the    *)
(* call's outcome was brought, when the task of the request is at that     *)
(* call, or when the request runs no further.  So a call that asks again   *)
(* has sent nothing, and each create meets an empty slate at the server.   *)
(*                                                                         *)
(* The argument for the calls: of the calls a pass runs again, those up to *)
(* the last write that has its outcome are all such writes.  So a need     *)
(* left open lies behind everything done, an outcome is told with exactly  *)
(* the writes before its call, and a reading call that runs again has no   *)
(* write of a later call in its rows.                                      *)
(*                                                                         *)
(* The argument for the hits: the writes a request opens with leave a need *)
(* on the first pass, and the first row takes every one of them, so no     *)
(* search runs before they have their outcome; a query with a need lies    *)
(* behind everything done.                                                 *)
(***************************************************************************)
EXTENDS Requests, FiniteSetTheorems, SequenceTheorems, WellFoundedInduction, TLAPS

-----------------------------------------------------------------------------
(* The sends of a request: the inductive invariant *)

Parcels == Owners \X Nat \X (Nat \ {0})
Tasks == [pc : Places, call : Nat, create : Nat, got : Seq(Sent), wentOut : BOOLEAN]
Stands == [pc : Steps, pass : Nat, row : Nat, first : Nat, gone : BOOLEAN]

SendType ==
    /\ calls \in [Owners -> Seq(Kinds)]
    /\ req \in [Owners -> Stands]
    /\ needs \in [Owners -> SUBSET Nat]
    /\ brought = [r \in Owners |-> [i \in Indices(r) |-> brought[r][i]]]
    /\ task \in [Owners -> Tasks]
    /\ record \in Seq(Parcels) /\ sends \in Nat
    /\ out \in SUBSET Parcels /\ IsFiniteSet(out) /\ unheard \subseteq out

\* Past DATA, with the message at the server.
Past == {"record", "file", "leave"}

\* What is known of the task of a request, its outcomes and its messages,
\* with o what the server took, u what it took unheard and f what was filed.
TaskSays(r, t, o, u, f) ==
    /\ t.pc = "idle" => t.got = <<>>
    /\ t.pc # "idle" =>
         /\ t.call \in Indices(r) /\ Kind(r, t.call) \in Submits
         /\ t.pc # "ended" => t.create \in Creates(r, t.call)
         /\ \A c \in Nat : <<r, t.call, c>> \in o => c < t.create \/ (c = t.create /\ t.pc \in Past)
         /\ t.pc \in Past => <<r, t.call, t.create>> \in o \ u
         /\ t.pc = "leave" /\ ~(Kind(r, t.call) = "pair" /\ t.create = 1)
              => <<r, t.call, t.create>> \in f
         /\ t.pc # "ended" \/ t.got # <<>> => Len(t.got) + 1 = t.create
         /\ \A c \in 1..Len(t.got) :
              /\ t.got[c] = "created" <=> <<r, t.call, c>> \in o \ u
              /\ t.got[c] \in {"refused", "serverFail"} => <<r, t.call, c>> \notin o
              /\ t.got[c] = "created" => t.wentOut
         /\ t.pc = "ended" /\ t.got = <<>> => \A c \in Nat : <<r, t.call, c>> \notin o \ u

\* A request that may still run a call.
Runs(r) == ~req[r].gone /\ req[r].pc # "failed"

\* How a request stands to its task and to what its calls sent.
StandSays(r) ==
    /\ task[r].pc # "idle" => req[r].gone \/ req[r].pc = "send"
    /\ req[r].pc \in {"bring", "send"} =>
         \A i \in needs[r] : i \in Indices(r) /\ brought[r][i].what = "none"
    /\ Runs(r) => \A i, c \in Nat : <<r, i, c>> \in out =>
         \/ i \in Indices(r) /\ brought[r][i].what = "submitted"
         \/ task[r].pc # "idle" /\ i = task[r].call
    /\ \A i, c \in Nat : <<r, i, c>> \in out => i \in Indices(r) /\ Kind(r, i) \in Submits

SendInv ==
    /\ SendType
    /\ \A r \in Owners : TaskSays(r, task[r], out, unheard, filed)
    /\ \A r \in Owners : StandSays(r)
    /\ SendsRecorded

-----------------------------------------------------------------------------
(* What holds at the start and what it gives *)

\* Nothing was sent yet.
LEMMA InitHolds == Init => SendInv
<1> SUFFICES ASSUME Init PROVE SendInv
  OBVIOUS
<1>1. calls \in [Owners -> Seq(Kinds)]
  <2>1. CASE InitCalls
    <3>1. \A n \in Nat : Lists(n) \subseteq Seq(Kinds)
      BY DEF Lists
    <3>2. Lists(Alone) \subseteq Seq(Kinds)
      BY <3>1, RequestsAssumption
    <3>3. <<>> \in Seq(Kinds) /\ <<"pair">> \in Seq(Kinds) /\ <<"set", "submit">> \in Seq(Kinds)
      BY DEF Kinds
    <3>4. PICK a \in Seq(Kinds), b \in Seq(Kinds) : calls = <<a, b>>
      BY <2>1, <3>2, <3>3 DEF InitCalls
    <3> QED
      BY <3>4 DEF Owners
  <2>2. CASE InitFill
    <3>1. calls = << <<"fetch", "followed">>, <<>> >>
      BY <2>2 DEF InitFill
    <3>2. <<>> \in Seq(Kinds) /\ <<"fetch", "followed">> \in Seq(Kinds)
      BY DEF Kinds
    <3>3. PICK a \in Seq(Kinds), b \in Seq(Kinds) : calls = <<a, b>>
      BY <3>1, <3>2
    <3> QED
      BY <3>3 DEF Owners
  <2> QED
    BY <2>1, <2>2 DEF Init
<1>2. /\ req = [r \in Owners |-> [pc |-> "start", pass |-> 1, row |-> 0, first |-> 0, gone |-> FALSE]]
      /\ needs = [r \in Owners |-> {}]
      /\ brought = [r \in Owners |-> [i \in Indices(r) |-> NoGift]]
      /\ task = [r \in Owners |-> NoTask]
      /\ record = <<>> /\ sends = 0 /\ out = {} /\ unheard = {} /\ filed = {} /\ left = {}
  BY DEF Init
<1>3. NoTask \in Tasks /\ NoTask.pc = "idle" /\ NoTask.got = <<>>
  BY DEF NoTask, Tasks, Places
<1>4. SendType
  <2>1. req \in [Owners -> Stands]
    BY <1>2 DEF Stands, Steps
  <2>2. needs \in [Owners -> SUBSET Nat] /\ task \in [Owners -> Tasks]
    BY <1>2, <1>3
  <2>3. brought = [r \in Owners |-> [i \in Indices(r) |-> brought[r][i]]]
    BY <1>2
  <2>4. record \in Seq(Parcels) /\ out \in SUBSET Parcels /\ IsFiniteSet(out) /\ unheard \subseteq out
    BY <1>2, FS_EmptySet
  <2> QED
    BY <1>1, <1>2, <2>1, <2>2, <2>3, <2>4 DEF SendType
<1>5. \A r \in Owners : TaskSays(r, task[r], out, unheard, filed)
  BY <1>2, <1>3 DEF TaskSays
<1>6. \A r \in Owners : StandSays(r)
  BY <1>2, <1>3 DEF StandSays
<1>7. SendsRecorded
  <2>1. {r \in Owners : At(r, "record")} = {}
    BY <1>2, <1>3 DEF At
  <2>2. out \ unheard = {} /\ Range(record) = {} /\ Len(record) = 0
    BY <1>2 DEF Range
  <2>3. CopyBeforeLeave
    BY <1>2 DEF CopyBeforeLeave
  <2>4. sends + Cardinality({r \in Owners : At(r, "record")}) = Cardinality(out \ unheard)
    <3>1. Cardinality({r \in Owners : At(r, "record")}) = 0 /\ Cardinality(out \ unheard) = 0
      BY <2>1, <2>2, FS_EmptySet
    <3> QED
      BY <1>2, <3>1
  <2>5. Len(record) = IF sends < RECENT_SUBMISSIONS THEN sends ELSE RECENT_SUBMISSIONS
    BY <1>2, <2>2, RequestsAssumption
  <2>6. Range(record) \cup filed \cup left \subseteq out \ unheard
    BY <1>2, <2>2
  <2> QED
    BY <2>3, <2>4, <2>5, <2>6 DEF SendsRecorded
<1> QED
  BY <1>4, <1>5, <1>6, <1>7 DEF SendInv

\* The invariant gives what a submission says and leaves behind.
LEMMA InvGives == SendInv => SendsStand
<1> SUFFICES ASSUME SendInv PROVE ToldAsSent
  BY DEF SendsStand, SendInv
<1>1. ASSUME NEW r \in Owners, NEW c \in DOMAIN task[r].got
      PROVE  LET m == <<r, task[r].call, c>> IN
             /\ task[r].got[c] = "created" => m \in out
             /\ task[r].got[c] \in {"refused", "serverFail"} => m \notin out
             /\ task[r].got[c] = "unavailable" => m \notin out \ unheard
  <2>1. task[r].got \in Seq(Sent) /\ TaskSays(r, task[r], out, unheard, filed)
    BY DEF SendInv, SendType, Tasks
  <2>2. c \in 1..Len(task[r].got)
    BY <2>1
  <2>3. task[r].pc # "idle"
    BY <2>1, <2>2 DEF TaskSays
  <2> QED
    BY <2>1, <2>2, <2>3 DEF TaskSays
<1>2. VerdictAfterSend
  <2> SUFFICES ASSUME NEW r \in Owners, At(r, "ended"), Failed(r),
                      NEW c \in Creates(r, task[r].call)
               PROVE  <<r, task[r].call, c>> \notin out \ unheard
    BY DEF VerdictAfterSend
  <2>1. c \in Nat
    BY DEF Creates
  <2> QED
    BY <2>1 DEF SendInv, TaskSays, At, Failed
<1> QED
  BY <1>1, <1>2 DEF ToldAsSent

-----------------------------------------------------------------------------
(* Steps of a request *)

SendsStay == UNCHANGED <<calls, record, sends, out, unheard, filed, left>>

\* What the records say stays while no task comes to or leaves the place
\* where a submission is recorded.
LEMMA RecordedStays ==
    ASSUME SendsRecorded, SendsStay,
           \A r \in Owners : task'[r].pc = "record" <=> task[r].pc = "record"
    PROVE  SendsRecorded'
<1>1. /\ calls' = calls /\ record' = record /\ sends' = sends /\ out' = out
      /\ unheard' = unheard /\ filed' = filed /\ left' = left
  BY DEF SendsStay
<1>2. {r \in Owners : At(r, "record")}' = {r \in Owners : At(r, "record")}
  BY DEF At, Owners
<1>3. CopyBeforeLeave' <=> CopyBeforeLeave
  BY <1>1 DEF CopyBeforeLeave, Kind
<1>4. Range(record)' = Range(record)
  BY <1>1 DEF Range
<1> QED
  BY <1>1, <1>2, <1>3, <1>4 DEF SendsRecorded

\* What a step of a request alone may do: it moves on, changes its needs,
\* and brings something for a call that is no submission.
Moves(r, q) ==
    /\ SendsStay /\ task' = task
    /\ q \in Stands /\ req' = [req EXCEPT ![r] = q]
    /\ needs' \in [Owners -> SUBSET Nat]
    /\ brought' = [o \in Owners |-> [i \in Indices(o) |-> brought'[o][i]]]
    /\ \A o \in Owners : o # r => needs'[o] = needs[o] /\ brought'[o] = brought[o]
    /\ \A i \in Indices(r) : Kind(r, i) \in Submits => brought'[r][i] = brought[r][i]
    /\ task[r].pc # "idle" => q.gone \/ q.pc = "send"
    /\ q.pc \in {"bring", "send"} =>
         \A i \in needs'[r] : i \in Indices(r) /\ brought'[r][i].what = "none"
    /\ ~q.gone /\ q.pc # "failed" => Runs(r)

\* Such a step keeps the invariant.
LEMMA MovesKeep ==
    ASSUME SendInv, NEW r \in Owners, NEW q, Moves(r, q)
    PROVE  SendInv'
<1>1. /\ calls' = calls /\ record' = record /\ sends' = sends /\ out' = out
      /\ unheard' = unheard /\ filed' = filed /\ left' = left /\ task' = task
  BY DEF Moves, SendsStay
<1>2. /\ req' \in [Owners -> Stands] /\ req'[r] = q
      /\ \A o \in Owners : o # r => req'[o] = req[o]
  BY DEF Moves, SendInv, SendType
<1>3. \A o \in Owners : Indices(o)' = Indices(o) /\ \A i : Kind(o, i)' = Kind(o, i) /\ Creates(o, i)' = Creates(o, i)
  BY <1>1 DEF Indices, Kind, Creates
<1>4. SendType'
  BY <1>1, <1>2, <1>3 DEF Moves, SendInv, SendType, Kinds
<1>5. \A o \in Owners : TaskSays(o, task[o], out, unheard, filed)'
  BY <1>1, <1>3 DEF SendInv, TaskSays, Submits, Past
<1>6. ASSUME NEW o \in Owners PROVE StandSays(o)'
  <2>0. StandSays(o)
    BY DEF SendInv
  <2>1. CASE o # r
    <3>1. req'[o] = req[o] /\ needs'[o] = needs[o] /\ brought'[o] = brought[o]
      BY <2>1, <1>2 DEF Moves
    <3> QED
      BY <2>0, <3>1, <1>1, <1>3 DEF StandSays, Runs, Submits
  <2>2. CASE o = r
    <3>1. task'[r].pc # "idle" => req'[r].gone \/ req'[r].pc = "send"
      BY <1>1, <1>2 DEF Moves
    <3>2. req'[r].pc \in {"bring", "send"} =>
             \A i \in needs'[r] : i \in Indices(r) /\ brought'[r][i].what = "none"
      BY <1>2 DEF Moves
    <3>3. Runs(r)' => Runs(r)
      BY <1>2 DEF Moves, Runs
    <3>4. \A i, c \in Nat : <<r, i, c>> \in out => i \in Indices(r) /\ Kind(r, i) \in Submits
      BY <2>0, <2>2 DEF StandSays
    <3>5. \A i, c \in Nat : <<r, i, c>> \in out => brought'[r][i] = brought[r][i]
      BY <3>4 DEF Moves
    <3>6. Runs(r)' => \A i, c \in Nat : <<r, i, c>> \in out' =>
             \/ i \in Indices(r) /\ brought'[r][i].what = "submitted"
             \/ task'[r].pc # "idle" /\ i = task'[r].call
      BY <2>0, <2>2, <3>3, <3>5, <1>1 DEF StandSays
    <3> QED
      BY <2>2, <3>1, <3>2, <3>4, <3>6, <1>1, <1>3 DEF StandSays, Submits
  <2> QED
    BY <2>1, <2>2
<1>7. SendsRecorded'
  BY <1>1, RecordedStays DEF Moves, SendInv
<1> QED
  BY <1>4, <1>5, <1>6, <1>7 DEF SendInv

\* A set of naturals that is not empty has a least element.
LEMMA SmallestInNat ==
    ASSUME NEW S \in SUBSET Nat, S # {}
    PROVE  \E x \in S : \A y \in S : x <= y
<1> DEFINE R == OpToRel(<, Nat)
<1>1. \E x \in S : \A y \in S : ~(<<y, x>> \in R)
  BY NatLessThanWellFounded, WFMin
<1>2. R = {p \in Nat \X Nat : p[1] < p[2]}
  BY DEF OpToRel
<1> HIDE DEF R
<1>3. PICK x \in S : \A y \in S : ~(<<y, x>> \in R)
  BY <1>1
<1>4. ASSUME NEW y \in S PROVE x <= y
  <2>1. <<y, x>> \notin R /\ x \in Nat /\ y \in Nat
    BY <1>3
  <2>2. ~(y < x)
    BY <2>1, <1>2
  <2> QED
    BY <2>1, <2>2
<1> QED
  BY <1>4

\* A request in hand that awaits no task has none.
LEMMA NoTaskElsewhere ==
    ASSUME SendInv, NEW r \in Owners, ~req[r].gone, req[r].pc # "send"
    PROVE  task[r].pc = "idle"
BY DEF SendInv, StandSays

\* The parts of a request's place.
LEMMA StandType ==
    ASSUME SendInv, NEW r \in Owners
    PROVE  /\ req[r] \in Stands
           /\ req[r].gone \in BOOLEAN /\ req[r].pc \in Steps /\ req[r].pass \in Nat
           /\ req[r].row \in Nat /\ req[r].first \in Nat
BY DEF SendInv, SendType, Stands

\* What is brought for one request's calls replaced.
LEMMA BroughtExcept ==
    ASSUME SendType, NEW r \in Owners, NEW f, f = [i \in Indices(r) |-> f[i]],
           brought' = [brought EXCEPT ![r] = f]
    PROVE  /\ brought' = [o \in Owners |-> [k \in Indices(o) |-> brought'[o][k]]]
           /\ \A o \in Owners : o # r => brought'[o] = brought[o]
           /\ brought'[r] = f
<1>1. DOMAIN brought = Owners /\ \A o \in Owners : brought[o] = [i \in Indices(o) |-> brought[o][i]]
  BY DEF SendType
<1>2. brought' = [o \in Owners |-> IF o = r THEN f ELSE brought[o]]
  BY <1>1
<1>3. /\ \A o \in Owners : o # r => brought'[o] = brought[o]
      /\ brought'[r] = f
  BY <1>2
<1>4. ASSUME NEW o \in Owners PROVE brought'[o] = [k \in Indices(o) |-> brought'[o][k]]
  BY <1>1, <1>3
<1>5. brought' = [o \in Owners |-> brought'[o]]
  BY <1>2
<1> QED
  BY <1>3, <1>4, <1>5

\* A request that goes to another place with what it has.
LEMMA GoesOn ==
    ASSUME SendInv, NEW r \in Owners, NEW p \in Steps \ {"bring", "send"},
           SendsStay, task' = task, brought' = brought, req[r].pc # "failed",
           needs' = needs, req' = [req EXCEPT ![r].pc = p],
           req[r].gone \/ task[r].pc = "idle"
    PROVE  SendInv'
<1> DEFINE q == [req[r] EXCEPT !.pc = p]
<1>1. req' = [req EXCEPT ![r] = q]
  BY DEF SendInv, SendType
<1>2. q \in Stands /\ q.pc = p /\ q.gone = req[r].gone
  BY StandType DEF Stands
<1> HIDE DEF q
<1>3. needs \in [Owners -> SUBSET Nat]
      /\ brought = [o \in Owners |-> [i \in Indices(o) |-> brought[o][i]]]
  BY DEF SendInv, SendType
<1>4. Moves(r, q)
  BY <1>1, <1>2, <1>3 DEF Moves, Runs
<1> QED
  BY <1>4, MovesKeep

\* A request starts or is refused.
LEMMA BeginKeeps ==
    ASSUME SendInv, NEW r \in Owners, Begin(r) PROVE SendInv'
<1>1. PICK p \in {"pass", "failed"} : req' = [req EXCEPT ![r].pc = p]
  BY DEF Begin
<1>2. p \in Steps \ {"bring", "send"} /\ req[r].pc # "failed"
  BY DEF Begin, Steps
<1>3. task[r].pc = "idle"
  BY NoTaskElsewhere DEF Begin
<1> QED
  BY <1>1, <1>2, <1>3, GoesOn DEF Begin, SendsStay, sending, history

\* A pass leaves a need only for a call nothing was brought for.
LEMMA PassKeeps ==
    ASSUME SendInv, NEW r \in Owners, Pass(r) PROVE SendInv'
<1> DEFINE open == Left(r, Answers(r))
           more == open # {} /\ req[r].pass < MAX_PASSES
           p == IF more THEN "bring" ELSE "done"
           row == IF more THEN Min(open) ELSE 0
           left_ == IF more THEN open ELSE {}
           q == [req[r] EXCEPT !.pc = p, !.row = row, !.first = row]
<1>1. /\ req[r].pc = "pass" /\ ~req[r].gone
      /\ needs' = [needs EXCEPT ![r] = left_]
      /\ req' = [req EXCEPT ![r].pc = p, ![r].row = row, ![r].first = row]
      /\ SendsStay /\ task' = task /\ brought' = brought
  BY DEF Pass, SendsStay, sending, history
<1>2. \A i \in open : i \in Indices(r) /\ brought[r][i].what = "none"
  BY DEF Left, Asks
<1>3. open \in SUBSET Nat
  <2>1. calls[r] \in Seq(Kinds)
    BY DEF SendInv, SendType
  <2>2. Indices(r) \subseteq Nat
    BY <2>1 DEF Indices
  <2> QED
    BY <1>2, <2>2
<1>4. p \in Steps /\ p \notin {"send", "failed"} /\ (p = "bring" => more)
  BY DEF Steps
<1> HIDE DEF open
<1>5. row \in Nat
  <2>1. ASSUME open # {} PROVE Min(open) \in Nat
    <3>1. \E x \in open : \A y \in open : x <= y
      BY <1>3, <2>1, SmallestInNat
    <3>2. Min(open) \in open
      BY <3>1, Zenon DEF Min
    <3> QED
      BY <1>3, <3>2
  <2> QED
    BY <2>1
<1>6. left_ \in SUBSET Nat /\ \A i \in left_ : i \in Indices(r) /\ brought[r][i].what = "none"
  BY <1>2, <1>3
<1> HIDE DEF p, row, left_
<1>7. req' = [req EXCEPT ![r] = q]
  BY <1>1, StandType DEF SendInv, SendType
<1>8. q \in Stands /\ q.pc = p /\ q.gone = req[r].gone
  BY <1>4, <1>5, StandType DEF Stands
<1> HIDE DEF q
<1>9. /\ needs' \in [Owners -> SUBSET Nat] /\ needs'[r] = left_
      /\ \A o \in Owners : o # r => needs'[o] = needs[o]
  BY <1>1, <1>6 DEF SendInv, SendType
<1>10. brought = [o \in Owners |-> [i \in Indices(o) |-> brought[o][i]]]
  BY DEF SendInv, SendType
<1>11. task[r].pc = "idle"
  BY <1>1, NoTaskElsewhere
<1>12. Moves(r, q)
  BY <1>1, <1>6, <1>7, <1>8, <1>9, <1>10, <1>11, ZenonT(40) DEF Moves, Runs
<1> QED
  BY <1>12, MovesKeep

\* A write in the row, which is no submission.
LEMMA BringWriteKeeps ==
    ASSUME SendInv, NEW r \in Owners, BringWrite(r) PROVE SendInv'
<1> DEFINE i == InRow(r)
<1>1. /\ req[r].pc = "bring" /\ ~req[r].gone /\ i # 0 /\ Kind(r, i) \notin Submits
      /\ SendsStay /\ task' = task
  BY DEF BringWrite, SendsStay, sending
<1>2. i = req[r].row /\ i \in needs[r] /\ i \in Indices(r) /\ i \in Nat
  <2>1. i = req[r].row /\ i \in needs[r]
    BY <1>1 DEF InRow
  <2> HIDE DEF i
  <2>2. i \in Indices(r)
    BY <1>1, <2>1 DEF SendInv, StandSays
  <2> QED
    BY <2>1, <2>2, StandType
<1>3. task[r].pc = "idle"
  BY <1>1, NoTaskElsewhere
<1>4. ASSUME NEW what, Gift(r, i, what), needs' = [needs EXCEPT ![r] = @ \ {i}], req' = AfterRow(r)
      PROVE  SendInv'
  <2> DEFINE q == [req[r] EXCEPT !.row = i + 1]
             g == [what |-> what, saw |-> DoneBy(r), ids |-> {}]
  <2>1. req' = [req EXCEPT ![r].row = i + 1] /\ brought' = [brought EXCEPT ![r][i] = g]
    BY <1>4 DEF AfterRow, Gift
  <2> HIDE DEF i, g
  <2>2. req' = [req EXCEPT ![r] = q]
    BY <1>1, <2>1, StandType DEF SendInv, SendType
  <2>3. q \in Stands /\ q.pc = "bring" /\ q.gone = FALSE
    BY <1>1, <1>2, StandType DEF Stands, Steps
  <2> HIDE DEF q
  <2>4. /\ needs' \in [Owners -> SUBSET Nat] /\ needs'[r] = needs[r] \ {i}
        /\ \A o \in Owners : o # r => needs'[o] = needs[o]
    BY <1>4 DEF SendInv, SendType
  <2>5. /\ brought' = [o \in Owners |-> [k \in Indices(o) |-> brought'[o][k]]]
        /\ \A o \in Owners : o # r => brought'[o] = brought[o]
        /\ \A k \in Indices(r) : k # i => brought'[r][k] = brought[r][k]
    <3> DEFINE f == [brought[r] EXCEPT ![i] = g]
    <3>1. DOMAIN brought[r] = Indices(r) /\ r \in DOMAIN brought
      BY DEF SendInv, SendType
    <3>2. f = [k \in Indices(r) |-> f[k]] /\ \A k \in Indices(r) : k # i => f[k] = brought[r][k]
      BY <3>1
    <3>3. brought' = [brought EXCEPT ![r] = f]
      BY <2>1
    <3> HIDE DEF f
    <3> QED
      BY <3>2, <3>3, BroughtExcept DEF SendInv
  <2>6. \A k \in needs[r] : k \in Indices(r) /\ brought[r][k].what = "none"
    BY <1>1 DEF SendInv, StandSays
  <2>7. \A k \in needs'[r] : k \in Indices(r) /\ brought'[r][k].what = "none"
    BY <2>4, <2>5, <2>6
  <2>8. Moves(r, q)
    BY <1>1, <1>3, <2>2, <2>3, <2>4, <2>5, <2>7 DEF Moves, Runs, i
  <2> QED
    BY <2>8, MovesKeep
<1>5. ASSUME req' = [req EXCEPT ![r].pc = "failed"], UNCHANGED <<brought, needs>>
      PROVE  SendInv'
  <2>1. "failed" \in Steps \ {"bring", "send"}
    BY DEF Steps
  <2> QED
    BY <1>1, <1>3, <1>5, <2>1, GoesOn
<1> QED
  BY <1>4, <1>5 DEF BringWrite

\* The row ends: writes behind another call wait.
LEMMA EndRowKeeps ==
    ASSUME SendInv, NEW r \in Owners, EndRow(r) PROVE SendInv'
<1> DEFINE q == [req[r] EXCEPT !.pc = "previews"]
           rest == {i \in needs[r] : Kind(r, i) \notin Writes}
<1>1. /\ req[r].pc = "bring" /\ ~req[r].gone /\ SendsStay /\ task' = task /\ brought' = brought
      /\ needs' = [needs EXCEPT ![r] = rest]
      /\ req' = [req EXCEPT ![r].pc = "previews"]
  BY DEF EndRow, SendsStay, sending, history
<1>2. req' = [req EXCEPT ![r] = q] /\ q \in Stands /\ q.pc = "previews" /\ q.gone = FALSE
  BY <1>1, StandType DEF SendInv, SendType, Stands, Steps
<1> HIDE DEF q
<1>3. /\ needs' \in [Owners -> SUBSET Nat] /\ \A o \in Owners : o # r => needs'[o] = needs[o]
      /\ brought = [o \in Owners |-> [i \in Indices(o) |-> brought[o][i]]]
  BY <1>1 DEF SendInv, SendType
<1>4. task[r].pc = "idle"
  BY <1>1, NoTaskElsewhere
<1>5. Moves(r, q)
  BY <1>1, <1>2, <1>3, <1>4 DEF Moves, Runs
<1> QED
  BY <1>5, MovesKeep

\* The previews and bodies of the round are begun.
LEMMA BringFillKeeps ==
    ASSUME SendInv, NEW r \in Owners, BringPreviews(r) \/ BringBodies(r) PROVE SendInv'
<1>1. PICK p \in {"bodies", "fill", "search"} : req' = [req EXCEPT ![r].pc = p]
  BY DEF BringPreviews, BringBodies
<1>2. /\ p \in Steps \ {"bring", "send"} /\ req[r].pc # "failed" /\ req[r].pc # "send" /\ ~req[r].gone
      /\ needs' = needs /\ brought' = brought /\ SendsStay /\ task' = task
  BY DEF BringPreviews, BringBodies, SendsStay, sending, history, Steps
<1>3. task[r].pc = "idle"
  BY <1>2, NoTaskElsewhere
<1> QED
  BY <1>1, <1>2, <1>3, GoesOn

\* Nothing of the request or of its sends moves.
LEMMA NothingMoves ==
    ASSUME SendInv, SendsStay, UNCHANGED <<req, needs, brought, task>>
    PROVE  SendInv'
<1>1. /\ calls' = calls /\ record' = record /\ sends' = sends /\ out' = out /\ unheard' = unheard
      /\ filed' = filed /\ left' = left /\ req' = req /\ needs' = needs /\ brought' = brought /\ task' = task
  BY DEF SendsStay
<1>2. \A o \in Owners : Indices(o)' = Indices(o) /\ \A i : Kind(o, i)' = Kind(o, i) /\ Creates(o, i)' = Creates(o, i)
  BY <1>1 DEF Indices, Kind, Creates
<1>3. SendType'
  BY <1>1, <1>2 DEF SendInv, SendType, Kinds
<1>4. \A o \in Owners : TaskSays(o, task[o], out, unheard, filed)'
  BY <1>1, <1>2 DEF SendInv, TaskSays, Submits, Past
<1>5. \A o \in Owners : StandSays(o)'
  BY <1>1, <1>2 DEF SendInv, StandSays, Runs, Submits
<1>6. SendsRecorded'
  BY <1>1, RecordedStays DEF SendInv
<1> QED
  BY <1>3, <1>4, <1>5, <1>6 DEF SendInv

\* A fill goes on, or the store ends its request.
LEMMA FillsKeeps ==
    ASSUME SendInv, NEW r \in Owners, Fills(r) PROVE SendInv'
<1>1. SendsStay /\ task' = task /\ needs' = needs /\ brought' = brought /\ req[r].pc = "fill"
  BY DEF Fills, SendsStay, sending, history
<1>2. CASE req' = req
  BY <1>1, <1>2, NothingMoves
<1>3. CASE req' = [req EXCEPT ![r].pc = "failed"]
  <2>1. "failed" \in Steps \ {"bring", "send"}
    BY DEF Steps
  <2>2. req[r].gone \/ task[r].pc = "idle"
    BY <1>1, NoTaskElsewhere
  <2> QED
    BY <1>1, <1>3, <2>1, <2>2, GoesOn
<1> QED
  BY <1>2, <1>3 DEF Fills

\* What is brought for calls of another kind than a submission, by a
\* request that goes on to a place where nothing is sent.
LEMMA BringsOthers ==
    ASSUME SendInv, NEW r \in Owners, SendsStay, task' = task,
           ~req[r].gone, req[r].pc \notin {"send", "failed"},
           NEW q \in Stands, req' = [req EXCEPT ![r] = q], q.pc \notin {"bring", "send"},
           NEW mine, mine = [i \in Indices(r) |-> mine[i]], brought' = [brought EXCEPT ![r] = mine],
           \A i \in Indices(r) : Kind(r, i) \in Submits => mine[i] = brought[r][i],
           NEW open \in SUBSET Nat, needs' = [needs EXCEPT ![r] = open]
    PROVE  SendInv'
<1>1. task[r].pc = "idle"
  BY NoTaskElsewhere
<1>2. /\ needs' \in [Owners -> SUBSET Nat]
      /\ \A o \in Owners : o # r => needs'[o] = needs[o]
  BY DEF SendInv, SendType
<1>3. /\ brought' = [o \in Owners |-> [k \in Indices(o) |-> brought'[o][k]]]
      /\ \A o \in Owners : o # r => brought'[o] = brought[o]
      /\ brought'[r] = mine
  BY BroughtExcept DEF SendInv
<1>4. Moves(r, q)
  BY <1>1, <1>2, <1>3 DEF Moves, Runs
<1> QED
  BY <1>4, MovesKeep

\* A fill ends with the bodies it found.
LEMMA EndFillKeeps ==
    ASSUME SendInv, NEW r \in Owners, EndFill(r) PROVE SendInv'
<1> DEFINE previews == fill[r].stage = "previews"
           found(i) == {x.id : x \in {y \in fill[r].res : y.ask = i}}
           mine == [i \in Indices(r) |->
              IF i \in Bodies(r) THEN [what |-> "bodies", saw |-> {}, ids |-> found(i)]
              ELSE brought[r][i]]
<1>1. /\ req[r].pc = "fill" /\ ~req[r].gone /\ SendsStay /\ task' = task /\ needs' = needs
      /\ req' = [req EXCEPT ![r].pc = IF previews THEN "bodies" ELSE "search"]
      /\ brought' = IF previews THEN brought ELSE [brought EXCEPT ![r] = mine]
  BY DEF EndFill, SendsStay, sending, history
<1>2. task[r].pc = "idle"
  BY <1>1, NoTaskElsewhere
<1>3. CASE previews
  <2>1. "bodies" \in Steps \ {"bring", "send"}
    BY DEF Steps
  <2> HIDE DEF mine
  <2>2. req' = [req EXCEPT ![r].pc = "bodies"] /\ brought' = brought
    BY <1>1, <1>3
  <2> HIDE DEF previews
  <2> QED
    BY <1>1, <1>2, <2>1, <2>2, GoesOn
<1>4. CASE ~previews
  <2> DEFINE q == [req[r] EXCEPT !.pc = "search"]
  <2>1. \A i \in Indices(r) : Kind(r, i) \in Submits => mine[i] = brought[r][i]
    BY DEF Bodies, Bodied, Submits
  <2>2. mine = [i \in Indices(r) |-> mine[i]]
    OBVIOUS
  <2> HIDE DEF mine
  <2>3. req' = [req EXCEPT ![r].pc = "search"] /\ brought' = [brought EXCEPT ![r] = mine]
    BY <1>1, <1>4
  <2>4. req' = [req EXCEPT ![r] = q] /\ q \in Stands /\ q.pc = "search"
    BY <1>1, <2>3, StandType, ZenonT(40) DEF SendInv, SendType, Stands, Steps
  <2> HIDE DEF q
  <2>5. PICK open \in SUBSET Nat : needs' = [needs EXCEPT ![r] = open]
    BY <1>1 DEF SendInv, SendType
  <2>6. /\ req[r].pc \notin {"send", "failed"} /\ q.pc \notin {"bring", "send"}
        /\ ~req[r].gone /\ SendsStay /\ task' = task /\ brought' = [brought EXCEPT ![r] = mine]
    BY <1>1, <2>3, <2>4
  <2> QED
    BY <2>1, <2>2, <2>4, <2>5, <2>6, BringsOthers
<1> QED
  BY <1>3, <1>4

\* The searches are brought and the next pass begins.
LEMMA BringSearchKeeps ==
    ASSUME SendInv, NEW r \in Owners, BringSearch(r) PROVE SendInv'
<1>1. /\ req[r].pc = "search" /\ ~req[r].gone /\ SendsStay /\ task' = task
      /\ needs' = [needs EXCEPT ![r] = {}]
      /\ req' = [req EXCEPT ![r].pc = "pass", ![r].pass = @ + 1]
  BY DEF BringSearch, SendsStay, sending, history
<1>2. PICK got \in {"hits", "nohits"} :
        brought' = [brought EXCEPT ![r] = [i \in Indices(r) |->
            IF i \in Plans(r) THEN [what |-> got, saw |-> DoneBy(r), ids |-> {}]
            ELSE brought[r][i]]]
  BY DEF BringSearch
<1> DEFINE mine == [i \in Indices(r) |->
            IF i \in Plans(r) THEN [what |-> got, saw |-> DoneBy(r), ids |-> {}]
            ELSE brought[r][i]]
           n == req[r].pass + 1
           q == [req[r] EXCEPT !.pc = "pass", !.pass = n]
<1>3. \A i \in Indices(r) : Kind(r, i) \in Submits => mine[i] = brought[r][i]
  BY DEF Plans, Submits
<1>4. mine = [i \in Indices(r) |-> mine[i]] /\ brought' = [brought EXCEPT ![r] = mine]
  BY <1>2
<1> HIDE DEF mine
<1>5. q \in Stands /\ q.pc = "pass"
  <2>1. n \in Nat
    BY StandType
  <2> HIDE DEF n
  <2> QED
    BY <2>1, StandType DEF Stands, Steps
<1>7. req' = [req EXCEPT ![r] = q]
  <2>1. req \in [Owners -> Stands] /\ req[r] \in Stands
    BY DEF SendInv, SendType
  <2> QED
    BY <1>1, <2>1 DEF Stands
<1> HIDE DEF q
<1>6. {} \in SUBSET Nat
  OBVIOUS
<1> QED
  BY <1>1, <1>3, <1>4, <1>5, <1>6, <1>7, BringsOthers

\* The client goes away.
LEMMA GoAwayKeeps ==
    ASSUME SendInv, NEW r \in Owners, GoAway(r) PROVE SendInv'
<1> DEFINE q == [req[r] EXCEPT !.gone = TRUE]
<1>1. /\ SendsStay /\ task' = task /\ needs' = needs /\ brought' = brought
      /\ req' = [req EXCEPT ![r].gone = TRUE]
  BY DEF GoAway, SendsStay, sending, history
<1>2. req' = [req EXCEPT ![r] = q] /\ q \in Stands /\ q.gone = TRUE /\ q.pc = req[r].pc
  BY <1>1, StandType DEF SendInv, SendType, Stands, Steps
<1> HIDE DEF q
<1>3. /\ needs \in [Owners -> SUBSET Nat]
      /\ brought = [o \in Owners |-> [i \in Indices(o) |-> brought[o][i]]]
      /\ req[r].pc \in {"bring", "send"} =>
           \A i \in needs[r] : i \in Indices(r) /\ brought[r][i].what = "none"
  BY DEF SendInv, SendType, StandSays
<1>4. Moves(r, q)
  BY <1>1, <1>2, <1>3 DEF Moves
<1> QED
  BY <1>4, MovesKeep

-----------------------------------------------------------------------------
(* Steps of a task *)

\* The parts of a task at work.
LEMMA TaskType ==
    ASSUME SendInv, NEW r \in Owners
    PROVE  /\ task \in [Owners -> Tasks] /\ task[r] \in Tasks /\ task[r].pc \in Places
           /\ task[r].call \in Nat /\ task[r].create \in Nat /\ task[r].got \in Seq(Sent)
           /\ task[r].wentOut \in BOOLEAN /\ TaskSays(r, task[r], out, unheard, filed)
           /\ Len(task[r].got) \in Nat
BY DEF SendInv, SendType, Tasks

\* A step of a task that may hand its message to the server, have it
\* recorded or filed, and stays at its call.
LEMMA TaskMoves ==
    ASSUME SendInv, NEW r \in Owners, UNCHANGED <<calls, req, needs, brought>>,
           task[r].pc \notin {"idle", "ended"}, NEW t \in Tasks, t.pc # "idle", t.call = task[r].call,
           task' = [task EXCEPT ![r] = t],
           out' \in {out, out \cup {Message(r)}},
           unheard \subseteq unheard', unheard' \subseteq unheard \cup {Message(r)},
           unheard' \subseteq out', filed \subseteq filed',
           record' \in Seq(Parcels), sends' \in Nat,
           TaskSays(r, t, out', unheard', filed'), SendsRecorded'
    PROVE  SendInv'
<1> DEFINE m == Message(r)
<1>1. calls' = calls /\ req' = req /\ needs' = needs /\ brought' = brought
  OBVIOUS
<1>2. \A o \in Owners : Indices(o)' = Indices(o) /\ \A i : Kind(o, i)' = Kind(o, i) /\ Creates(o, i)' = Creates(o, i)
  BY <1>1 DEF Indices, Kind, Creates
<1>3. m = <<r, task[r].call, task[r].create>> /\ m \in Parcels
  <2>1. TaskSays(r, task[r], out, unheard, filed) /\ task[r].call \in Nat
    BY TaskType
  <2>2. task[r].create \in {1, 2}
    BY <2>1 DEF TaskSays, Creates
  <2> QED
    BY <2>1, <2>2 DEF Message, Parcels
<1>4. /\ task' \in [Owners -> Tasks] /\ task'[r] = t
      /\ \A o \in Owners : o # r => task'[o] = task[o]
  BY TaskType
<1> HIDE DEF m
<1>5. out' \in {out, out \cup {m}} /\ unheard' \subseteq unheard \cup {m}
  BY DEF m
<1>6. SendType'
  <2>1. out \in SUBSET Parcels /\ IsFiniteSet(out)
    BY DEF SendInv, SendType
  <2>2. IsFiniteSet(out \cup {m})
    BY <2>1, FS_AddElement
  <2>3. out' \in SUBSET Parcels /\ IsFiniteSet(out')
    BY <1>3, <1>5, <2>1, <2>2
  <2> QED
    BY <1>1, <1>2, <1>4, <2>3 DEF SendInv, SendType, Kinds
<1>7. ASSUME NEW o \in Owners PROVE TaskSays(o, task[o], out, unheard, filed)'
  <2>1. CASE o = r
    BY <2>1, <1>2, <1>4, SMTT(60) DEF TaskSays, Submits, Past
  <2>2. CASE o # r
    <3>1. \A i, c : <<o, i, c>> # m
      BY <2>2, <1>3
    <3>2. \A i, c : (<<o, i, c>> \in out' <=> <<o, i, c>> \in out)
                    /\ (<<o, i, c>> \in unheard' <=> <<o, i, c>> \in unheard)
      BY <3>1, <1>5
    <3>3. TaskSays(o, task[o], out, unheard, filed) /\ task'[o] = task[o]
      BY <2>2, <1>4 DEF SendInv
    <3> QED
      BY <3>2, <3>3, <1>2, SMTT(60) DEF TaskSays, Submits, Past
  <2> QED
    BY <2>1, <2>2
<1>8. ASSUME NEW o \in Owners PROVE StandSays(o)'
  <2>0. StandSays(o)
    BY DEF SendInv
  <2>1. CASE o = r
    <3>1. \A i, c \in Nat : <<r, i, c>> \in out' => <<r, i, c>> \in out \/ i = task[r].call
      BY <1>3, <1>5
    <3>2. task[r].call \in Indices(r) /\ Kind(r, task[r].call) \in Submits
      BY TaskType DEF TaskSays
    <3> QED
      BY <2>0, <2>1, <3>1, <3>2, <1>1, <1>2, <1>4 DEF StandSays, Runs, Submits
  <2>2. CASE o # r
    <3>1. \A i, c : <<o, i, c>> \in out' <=> <<o, i, c>> \in out
      BY <2>2, <1>3, <1>5
    <3>2. task'[o] = task[o]
      BY <2>2, <1>4
    <3> QED
      BY <2>0, <3>1, <3>2, <1>1, <1>2 DEF StandSays, Runs, Submits
  <2> QED
    BY <2>1, <2>2
<1> QED
  BY <1>6, <1>7, <1>8 DEF SendInv

\* Such a step that changes nothing outside its task.
LEMMA TaskAlone ==
    ASSUME SendInv, NEW r \in Owners, SendsStay, UNCHANGED <<req, needs, brought>>,
           task[r].pc \notin {"idle", "ended"}, NEW t \in Tasks, t.pc # "idle", t.call = task[r].call,
           task' = [task EXCEPT ![r] = t], t.pc # "record", task[r].pc # "record",
           TaskSays(r, t, out, unheard, filed)
    PROVE  SendInv'
<1>1. /\ calls' = calls /\ record' = record /\ sends' = sends /\ out' = out
      /\ unheard' = unheard /\ filed' = filed /\ left' = left
  BY DEF SendsStay
<1>2. task'[r] = t /\ \A o \in Owners : o # r => task'[o] = task[o]
  BY TaskType
<1>3. \A o \in Owners : task'[o].pc = "record" <=> task[o].pc = "record"
  BY <1>2
<1>4. SendsRecorded'
  BY <1>3, RecordedStays DEF SendInv
<1>5. record \in Seq(Parcels) /\ sends \in Nat /\ unheard \subseteq out
  BY DEF SendInv, SendType
<1>6. /\ out' \in {out, out \cup {Message(r)}} /\ unheard \subseteq unheard'
      /\ unheard' \subseteq unheard \cup {Message(r)} /\ unheard' \subseteq out' /\ filed \subseteq filed'
      /\ record' \in Seq(Parcels) /\ sends' \in Nat /\ TaskSays(r, t, out', unheard', filed')
  BY <1>1, <1>5
<1> QED
  BY <1>1, <1>4, <1>6, TaskMoves

\* A task that goes to another place before DATA.
LEMMA GoesBefore ==
    ASSUME SendInv, NEW r \in Owners, SendsStay, UNCHANGED <<req, needs, brought>>,
           task[r].pc \in {"turn", "row", "fetch", "connect", "mail"},
           NEW p \in {"row", "fetch", "connect", "mail", "data"},
           task' = [task EXCEPT ![r].pc = p]
    PROVE  SendInv'
<1> DEFINE t == [task[r] EXCEPT !.pc = p]
<1>1. t \in Tasks /\ t.pc = p /\ t.call = task[r].call /\ t.create = task[r].create
      /\ t.got = task[r].got /\ t.wentOut = task[r].wentOut
  BY TaskType DEF Tasks, Places
<1>2. task' = [task EXCEPT ![r] = t]
  BY TaskType
<1> HIDE DEF t
<1>3. TaskSays(r, task[r], out, unheard, filed)
  BY TaskType
<1>4. TaskSays(r, t, out, unheard, filed)
  BY <1>1, <1>3 DEF TaskSays, Past
<1>5. task[r].pc \notin {"idle", "ended"} /\ t.pc # "idle" /\ t.pc # "record" /\ task[r].pc # "record"
  BY <1>1
<1> QED
  BY <1>1, <1>2, <1>4, <1>5, TaskAlone

\* A create with its outcome: what the task is told of it is true when the
\* outcome is true of its message.
LEMMA AfterCreateSays ==
    ASSUME SendInv, NEW r \in Owners, task[r].pc \notin {"idle", "ended"},
           NEW outcome \in Sent, NEW o, NEW u, NEW f,
           o \in {out, out \cup {Message(r)}},
           unheard \subseteq u, u \subseteq unheard \cup {Message(r)},
           outcome = "created" <=> Message(r) \in o \ u,
           outcome \in {"refused", "serverFail"} => Message(r) \notin o
    PROVE  /\ AfterCreate(r, outcome) \in Tasks
           /\ AfterCreate(r, outcome).pc \in {"turn", "ended"}
           /\ AfterCreate(r, outcome).call = task[r].call
           /\ TaskSays(r, AfterCreate(r, outcome), o, u, f)
<1> DEFINE t == AfterCreate(r, outcome)
           call == task[r].call
           create == task[r].create
           got == Append(task[r].got, outcome)
           pc == IF create + 1 \in Creates(r, call) THEN "turn" ELSE "ended"
           went == task[r].wentOut \/ outcome = "created"
<1>1. t = [pc |-> pc, call |-> call, create |-> create + 1, got |-> got, wentOut |-> went]
  BY DEF AfterCreate
<1>2. /\ call \in Nat /\ create \in Nat /\ task[r].got \in Seq(Sent) /\ task[r].wentOut \in BOOLEAN
      /\ TaskSays(r, task[r], out, unheard, filed)
  BY TaskType
<1>3. Len(task[r].got) + 1 = create /\ Len(task[r].got) \in Nat
  BY <1>2 DEF TaskSays
<1>4. /\ got \in Seq(Sent) /\ got # <<>> /\ Len(got) = create
      /\ \A c \in 1..Len(task[r].got) : got[c] = task[r].got[c]
      /\ got[create] = outcome
  BY <1>2, <1>3, AppendProperties
<1>5. pc \in {"turn", "ended"} /\ (pc = "turn" => create + 1 \in Creates(r, call)) /\ went \in BOOLEAN
      /\ (task[r].wentOut => went) /\ (outcome = "created" => went)
  BY <1>2
<1> HIDE DEF got, pc, went
<1>6. t \in Tasks /\ t.pc = pc /\ t.call = call /\ t.create = create + 1 /\ t.got = got /\ t.wentOut = went
  BY <1>1, <1>2, <1>4, <1>5 DEF Tasks, Places
<1> HIDE DEF t
<1>7. Message(r) = <<r, call, create>>
  BY DEF Message
<1>8. \A c \in Nat : c # create => (<<r, call, c>> \in o <=> <<r, call, c>> \in out)
                                   /\ (<<r, call, c>> \in u <=> <<r, call, c>> \in unheard)
  BY <1>7
<1>9. /\ call \in Indices(r) /\ Kind(r, call) \in Submits
      /\ \A c \in Nat : <<r, call, c>> \in out => c <= create
      /\ \A c \in 1..Len(task[r].got) :
              /\ task[r].got[c] = "created" <=> <<r, call, c>> \in out \ unheard
              /\ task[r].got[c] \in {"refused", "serverFail"} => <<r, call, c>> \notin out
              /\ task[r].got[c] = "created" => task[r].wentOut
  BY <1>2 DEF TaskSays
<1>10. \A c \in Nat : <<r, call, c>> \in o => c < create + 1
  BY <1>2, <1>7, <1>8, <1>9
<1>11. ASSUME NEW c \in 1..Len(got)
       PROVE  /\ got[c] = "created" <=> <<r, call, c>> \in o \ u
              /\ got[c] \in {"refused", "serverFail"} => <<r, call, c>> \notin o
              /\ got[c] = "created" => went
  <2>1. CASE c = create
    BY <2>1, <1>4, <1>5, <1>7
  <2>2. CASE c # create
    <3>1. c \in 1..Len(task[r].got) /\ c \in Nat
      BY <2>2, <1>2, <1>3, <1>4
    <3> HIDE DEF call, create
    <3> QED
      BY <2>2, <3>1, <1>4, <1>5, <1>8, <1>9
  <2> QED
    BY <2>1, <2>2
<1>12. Len(got) + 1 = create + 1
  BY <1>2, <1>4
<1> HIDE DEF call, create
<1>13. TaskSays(r, t, o, u, f)
  BY <1>4, <1>5, <1>6, <1>9, <1>10, <1>11, <1>12 DEF TaskSays, Past
<1>14. call = task[r].call
  BY DEF call
<1> QED
  BY <1>5, <1>6, <1>13, <1>14 DEF t

\* A create ends before its message is at the server.
LEMMA EndsBefore ==
    ASSUME SendInv, NEW r \in Owners, SendsStay, UNCHANGED <<req, needs, brought>>,
           task[r].pc \in {"row", "fetch", "connect", "mail", "data"},
           NEW outcome \in Sent \ {"created"}, Ends(r, outcome)
    PROVE  SendInv'
<1> DEFINE t == AfterCreate(r, outcome)
<1>1. task' = [task EXCEPT ![r] = t]
  BY DEF Ends
<1>2. Message(r) \notin out
  <2>1. TaskSays(r, task[r], out, unheard, filed) /\ task[r].create \in Nat
    BY TaskType
  <2> QED
    BY <2>1 DEF TaskSays, Past, Message
<1>3. /\ t \in Tasks /\ t.pc \in {"turn", "ended"} /\ t.call = task[r].call
      /\ TaskSays(r, t, out, unheard, filed)
  BY <1>2, AfterCreateSays
<1> HIDE DEF t
<1>4. task[r].pc \notin {"idle", "ended"} /\ t.pc # "idle" /\ t.pc # "record" /\ task[r].pc # "record"
  BY <1>3
<1> QED
  BY <1>1, <1>3, <1>4, TaskAlone

\* A failure of the store or of a task, before the message is at the server.
LEMMA JudgedKeeps ==
    ASSUME SendInv, NEW r \in Owners, SendsStay, UNCHANGED <<req, needs, brought>>,
           task[r].pc \in {"row", "fetch"}, Judged(r)
    PROVE  SendInv'
<1>1. CASE task[r].wentOut
  <2>1. Ends(r, "serverFail") /\ "serverFail" \in Sent \ {"created"}
    BY <1>1 DEF Judged, Sent
  <2> QED
    BY <2>1, EndsBefore
<1>2. CASE ~task[r].wentOut
  <2>0. PICK none \in Seq(Sent) : none = <<>>
    BY EmptySeq
  <2> DEFINE t == [task[r] EXCEPT !.pc = "ended", !.got = none]
  <2>1. task' = [task EXCEPT ![r].pc = "ended", ![r].got = <<>>]
    BY <1>2 DEF Judged, JudgedAlways
  <2>2. task' = [task EXCEPT ![r] = t]
    BY <2>0, <2>1, TaskType
  <2>3. t \in Tasks /\ t.pc = "ended" /\ t.got = none /\ t.call = task[r].call /\ t.create = task[r].create
    BY TaskType DEF Tasks, Places
  <2>4. TaskSays(r, task[r], out, unheard, filed) /\ task[r].create \in Nat /\ Len(task[r].got) \in Nat
    BY TaskType
  <2> HIDE DEF t
  <2>5. ASSUME NEW c \in Nat, <<r, task[r].call, c>> \in out \ unheard PROVE FALSE
    <3>1. c < task[r].create /\ Len(task[r].got) + 1 = task[r].create
      BY <2>4, <2>5 DEF TaskSays, Past
    <3>2. CASE c \in 1..Len(task[r].got)
      BY <3>2, <2>4, <2>5, <1>2 DEF TaskSays
    <3>3. CASE c = 0
      BY <3>3, <2>5 DEF SendInv, SendType, Parcels
    <3> QED
      BY <3>1, <3>2, <3>3, <2>4
  <2>6. TaskSays(r, t, out, unheard, filed)
    BY <2>0, <2>3, <2>4, <2>5 DEF TaskSays, Past
  <2>7. task[r].pc \notin {"idle", "ended"} /\ t.pc # "idle" /\ t.pc # "record" /\ task[r].pc # "record"
    BY <2>3
  <2> QED
    BY <2>2, <2>3, <2>6, <2>7, TaskAlone
<1> QED
  BY <1>1, <1>2

\* The steps before DATA.
LEMMA BeforeDataKeeps ==
    ASSUME SendInv, NEW r \in Owners,
           \/ TakeTurn(r) \/ ReadRow(r) \/ FetchMessage(r)
           \/ ConnectSubmission(r) \/ MailAndRecipients(r)
    PROVE  SendInv'
<1>1. SendsStay /\ UNCHANGED <<req, needs, brought>>
  BY DEF TakeTurn, ReadRow, FetchMessage, ConnectSubmission, MailAndRecipients, SendsStay, passes, history
<1>2. "refused" \in Sent \ {"created"} /\ "unavailable" \in Sent \ {"created"} /\ "serverFail" \in Sent \ {"created"}
  BY DEF Sent
<1>3. CASE TakeTurn(r)
  <2>1. task' = [task EXCEPT ![r].pc = "row"] /\ task[r].pc = "turn"
    BY <1>3 DEF TakeTurn, At
  <2> QED
    BY <1>1, <2>1, GoesBefore
<1>4. CASE ReadRow(r)
  <2>1. task[r].pc = "row"
    BY <1>4 DEF ReadRow, At
  <2>2. CASE Goes(r, "fetch")
    <3>1. task' = [task EXCEPT ![r].pc = "fetch"]
      BY <2>2 DEF Goes
    <3> QED
      BY <1>1, <2>1, <3>1, GoesBefore
  <2>3. CASE Ends(r, "refused")
    BY <1>1, <1>2, <2>1, <2>3, EndsBefore
  <2>4. CASE Judged(r)
    BY <1>1, <2>1, <2>4, JudgedKeeps
  <2> QED
    BY <1>4, <2>2, <2>3, <2>4 DEF ReadRow
<1>5. CASE FetchMessage(r)
  <2>1. task[r].pc = "fetch"
    BY <1>5 DEF FetchMessage, At
  <2>2. CASE Goes(r, "connect")
    <3>1. task' = [task EXCEPT ![r].pc = "connect"]
      BY <2>2 DEF Goes
    <3> QED
      BY <1>1, <2>1, <3>1, GoesBefore
  <2>3. ASSUME NEW outcome \in {"refused", "unavailable", "serverFail"}, Ends(r, outcome)
        PROVE  SendInv'
    BY <1>1, <1>2, <2>1, <2>3, EndsBefore
  <2>4. CASE Judged(r)
    BY <1>1, <2>1, <2>4, JudgedKeeps
  <2>5. ASSUME NEW stop \in Stops PROVE Unread(stop) \in {"refused", "unavailable", "serverFail"}
    BY DEF Unread, Stops
  <2> QED
    BY <1>5, <2>2, <2>3, <2>4, <2>5 DEF FetchMessage
<1>6. CASE ConnectSubmission(r)
  <2>1. task[r].pc = "connect"
    BY <1>6 DEF ConnectSubmission, At
  <2>2. CASE Goes(r, "mail")
    <3>1. task' = [task EXCEPT ![r].pc = "mail"]
      BY <2>2 DEF Goes
    <3> QED
      BY <1>1, <2>1, <3>1, GoesBefore
  <2>3. ASSUME NEW outcome \in {"refused", "unavailable", "serverFail"}, Ends(r, outcome)
        PROVE  SendInv'
    BY <1>1, <1>2, <2>1, <2>3, EndsBefore
  <2>4. ASSUME NEW error \in SubmissionFails
        PROVE  Unconnected(error) \in {"refused", "unavailable", "serverFail"}
    <3>1. CASE error = "CredentialRejected"
      BY <3>1 DEF Unconnected
    <3>2. CASE error \in {"Held", "NoAddress", "Connect", "Timeout", "Closed", "Io"}
      BY <3>2 DEF Unconnected
    <3> QED
      BY <3>1, <3>2 DEF Unconnected
  <2> QED
    BY <1>6, <2>2, <2>3, <2>4 DEF ConnectSubmission
<1>7. CASE MailAndRecipients(r)
  <2>1. task[r].pc = "mail"
    BY <1>7 DEF MailAndRecipients, At
  <2>2. CASE Goes(r, "data")
    <3>1. task' = [task EXCEPT ![r].pc = "data"]
      BY <2>2 DEF Goes
    <3> QED
      BY <1>1, <2>1, <3>1, GoesBefore
  <2>3. ASSUME NEW outcome \in {"refused", "unavailable"}, Ends(r, outcome)
        PROVE  SendInv'
    BY <1>1, <1>2, <2>1, <2>3, EndsBefore
  <2>4. ASSUME NEW replies, Recipients(replies) # "passed"
        PROVE  Recipients(replies) \in {"refused", "unavailable"}
    BY <2>4 DEF Recipients
  <2>5. CASE \E replies \in [1..2 -> Replies] :
               IF Recipients(replies) = "passed" THEN Goes(r, "data") /\ NoFault
               ELSE Ends(r, Recipients(replies)) /\ Fault
    BY <2>5, <2>2, <2>3, <2>4
  <2>6. CASE \E reply \in Replies \ {"ok"} :
               Ends(r, IF reply \in {"tooBig", "permanent"} THEN "refused" ELSE "unavailable")
    <3>1. PICK reply : Ends(r, IF reply \in {"tooBig", "permanent"} THEN "refused" ELSE "unavailable")
      BY <2>6
    <3>2. Ends(r, "refused") \/ Ends(r, "unavailable")
      BY <3>1
    <3> QED
      BY <3>2, <2>3
  <2> QED
    BY <1>7, <2>5, <2>6 DEF MailAndRecipients
<1> QED
  BY <1>3, <1>4, <1>5, <1>6, <1>7

\* A task begins at a call or its outcome is taken, and its request moves
\* with it.
Hands(r, q, t) ==
    /\ SendsStay
    /\ t \in Tasks /\ task' = [task EXCEPT ![r] = t] /\ t.pc # "record" /\ task[r].pc # "record"
    /\ TaskSays(r, t, out, unheard, filed)
    /\ q \in Stands /\ req' = [req EXCEPT ![r] = q]
    /\ needs' \in [Owners -> SUBSET Nat]
    /\ brought' = [o \in Owners |-> [i \in Indices(o) |-> brought'[o][i]]]
    /\ \A o \in Owners : o # r => needs'[o] = needs[o] /\ brought'[o] = brought[o]
    /\ t.pc # "idle" => q.gone \/ q.pc = "send"
    /\ q.pc \in {"bring", "send"} =>
         \A i \in needs'[r] : i \in Indices(r) /\ brought'[r][i].what = "none"
    /\ ~q.gone /\ q.pc # "failed" => \A i, c \in Nat : <<r, i, c>> \in out =>
         \/ i \in Indices(r) /\ brought'[r][i].what = "submitted"
         \/ t.pc # "idle" /\ i = t.call

\* Such a step keeps the invariant.
LEMMA HandsKeep ==
    ASSUME SendInv, NEW r \in Owners, NEW q, NEW t, Hands(r, q, t)
    PROVE  SendInv'
<1>1. /\ calls' = calls /\ record' = record /\ sends' = sends /\ out' = out
      /\ unheard' = unheard /\ filed' = filed /\ left' = left
  BY DEF Hands, SendsStay
<1>2. /\ req' \in [Owners -> Stands] /\ req'[r] = q
      /\ \A o \in Owners : o # r => req'[o] = req[o]
  BY DEF Hands, SendInv, SendType
<1>3. \A o \in Owners : Indices(o)' = Indices(o) /\ \A i : Kind(o, i)' = Kind(o, i) /\ Creates(o, i)' = Creates(o, i)
  BY <1>1 DEF Indices, Kind, Creates
<1>4. /\ task' \in [Owners -> Tasks] /\ task'[r] = t
      /\ \A o \in Owners : o # r => task'[o] = task[o]
  BY TaskType DEF Hands
<1>5. SendType'
  BY <1>1, <1>2, <1>3, <1>4 DEF Hands, SendInv, SendType, Kinds
<1>6. ASSUME NEW o \in Owners PROVE TaskSays(o, task[o], out, unheard, filed)'
  <2>1. TaskSays(o, task'[o], out, unheard, filed)
    BY <1>4 DEF Hands, SendInv
  <2> QED
    BY <2>1, <1>1, <1>3 DEF TaskSays, Submits, Past
<1>7. ASSUME NEW o \in Owners PROVE StandSays(o)'
  <2>0. StandSays(o)
    BY DEF SendInv
  <2>1. CASE o # r
    <3>1. req'[o] = req[o] /\ needs'[o] = needs[o] /\ brought'[o] = brought[o] /\ task'[o] = task[o]
      BY <2>1, <1>2, <1>4 DEF Hands
    <3> QED
      BY <2>0, <3>1, <1>1, <1>3 DEF StandSays, Runs, Submits
  <2>2. CASE o = r
    <3>1. \A i, c \in Nat : <<r, i, c>> \in out => i \in Indices(r) /\ Kind(r, i) \in Submits
      BY <2>0, <2>2 DEF StandSays
    <3> QED
      BY <2>2, <3>1, <1>1, <1>2, <1>3, <1>4 DEF Hands, StandSays, Runs, Submits
  <2> QED
    BY <2>1, <2>2
<1>8. \A o \in Owners : task'[o].pc = "record" <=> task[o].pc = "record"
  BY <1>4 DEF Hands
<1>9. SendsRecorded'
  BY <1>8, RecordedStays DEF Hands, SendInv
<1> QED
  BY <1>5, <1>6, <1>7, <1>9 DEF SendInv

\* A submission goes to its task: nothing of its call went out before.
LEMMA BringSubmitKeeps ==
    ASSUME SendInv, NEW r \in Owners, BringSubmit(r) PROVE SendInv'
<1> DEFINE i == InRow(r)
           q == [req[r] EXCEPT !.pc = "send"]
<1>1. /\ req[r].pc = "bring" /\ ~req[r].gone /\ i # 0 /\ Kind(r, i) \in Submits
      /\ SendsStay /\ needs' = needs /\ brought' = brought
      /\ req' = [req EXCEPT ![r].pc = "send"]
      /\ task' = [task EXCEPT ![r] = [pc |-> "turn", call |-> i, create |-> 1,
                                      got |-> <<>>, wentOut |-> FALSE]]
  BY DEF BringSubmit, SendsStay, history
<1>2. i \in needs[r] /\ i \in Nat
  <2>1. i = req[r].row /\ i \in needs[r]
    BY <1>1 DEF InRow
  <2> QED
    BY <2>1, StandType
<1>3. /\ i \in Indices(r) /\ brought[r][i].what = "none" /\ Runs(r) /\ task[r].pc = "idle"
      /\ \A k \in needs[r] : k \in Indices(r) /\ brought[r][k].what = "none"
      /\ \A k, c \in Nat : <<r, k, c>> \in out => k \in Indices(r) /\ brought[r][k].what = "submitted"
  <2>1. Runs(r) /\ task[r].pc = "idle" /\ StandSays(r)
    BY <1>1, NoTaskElsewhere DEF Runs, SendInv
  <2> HIDE DEF i
  <2> QED
    BY <1>1, <1>2, <2>1 DEF StandSays
<1> HIDE DEF i
<1>4. PICK none \in Seq(Sent) : none = <<>>
  BY EmptySeq
<1> DEFINE t == [pc |-> "turn", call |-> i, create |-> 1, got |-> none, wentOut |-> FALSE]
<1>5. /\ t \in Tasks /\ t.pc = "turn" /\ t.call = i /\ t.create = 1 /\ t.got = none
      /\ task' = [task EXCEPT ![r] = t]
  BY <1>1, <1>2, <1>4 DEF Tasks, Places
<1> HIDE DEF t
<1>6. \A c \in Nat : <<r, i, c>> \notin out
  BY <1>2, <1>3
<1>7. TaskSays(r, t, out, unheard, filed)
  <2>1. Len(none) = 0 /\ 1 \in Creates(r, i)
    BY <1>4 DEF Creates
  <2> QED
    BY <1>1, <1>3, <1>4, <1>5, <1>6, <2>1 DEF TaskSays, Past
<1>8. q \in Stands /\ q.pc = "send" /\ q.gone = FALSE /\ req' = [req EXCEPT ![r] = q]
  BY <1>1, StandType DEF SendInv, SendType, Stands, Steps
<1> HIDE DEF q
<1>9. needs \in [Owners -> SUBSET Nat] /\ brought = [o \in Owners |-> [k \in Indices(o) |-> brought[o][k]]]
  BY DEF SendInv, SendType
<1>10. SendsStay /\ needs' = needs /\ brought' = brought
  BY <1>1
<1>11. Hands(r, q, t)
  BY <1>3, <1>5, <1>7, <1>8, <1>9, <1>10, ZenonT(40) DEF Hands
<1> QED
  BY <1>11, HandsKeep

\* The task is let go.
LEMMA NoTaskSays ==
    ASSUME NEW r, NEW o, NEW u, NEW f
    PROVE  NoTask \in Tasks /\ NoTask.pc = "idle" /\ TaskSays(r, NoTask, o, u, f)
<1>1. PICK none \in Seq(Sent) : none = <<>>
  BY EmptySeq
<1>2. NoTask = [pc |-> "idle", call |-> 0, create |-> 0, got |-> none, wentOut |-> FALSE]
  BY <1>1 DEF NoTask
<1>3. NoTask \in Tasks /\ NoTask.pc = "idle" /\ NoTask.got = none
  BY <1>2 DEF Tasks, Places
<1> QED
  BY <1>1, <1>3 DEF TaskSays

\* A task whose request is gone ends with its outcome untold.
LEMMA TaskEndsKeeps ==
    ASSUME SendInv, NEW r \in Owners, TaskEnds(r) PROVE SendInv'
<1> DEFINE q == req[r]
<1>1. /\ task[r].pc = "ended" /\ q.gone /\ SendsStay /\ needs' = needs /\ brought' = brought /\ req' = req
      /\ task' = [task EXCEPT ![r] = NoTask]
  BY DEF TaskEnds, At, SendsStay, passes, history
<1>2. q \in Stands /\ req' = [req EXCEPT ![r] = q]
  BY <1>1 DEF SendInv, SendType
<1>3. q.pc \in {"bring", "send"} => \A i \in needs[r] : i \in Indices(r) /\ brought[r][i].what = "none"
  BY DEF SendInv, StandSays
<1> HIDE DEF q
<1>4. needs \in [Owners -> SUBSET Nat] /\ brought = [o \in Owners |-> [k \in Indices(o) |-> brought[o][k]]]
  BY DEF SendInv, SendType
<1>5. PICK t \in Tasks : t = NoTask
  BY NoTaskSays
<1>6. t.pc = "idle" /\ TaskSays(r, t, out, unheard, filed) /\ task' = [task EXCEPT ![r] = t]
  BY <1>1, <1>5, NoTaskSays
<1>7. Hands(r, q, t)
  BY <1>1, <1>2, <1>3, <1>4, <1>6 DEF Hands
<1> QED
  BY <1>7, HandsKeep

\* The request takes what its task was told, and the call asks no more.
LEMMA TakeOutcomeKeeps ==
    ASSUME SendInv, NEW r \in Owners, TakeOutcome(r) PROVE SendInv'
<1> DEFINE i == task[r].call
<1>1. /\ task[r].pc = "ended" /\ ~req[r].gone /\ SendsStay
      /\ task' = [task EXCEPT ![r] = NoTask]
  BY DEF TakeOutcome, At, SendsStay
<1>2. PICK t \in Tasks : t = NoTask
  BY NoTaskSays
<1>3. t.pc = "idle" /\ TaskSays(r, t, out, unheard, filed) /\ task' = [task EXCEPT ![r] = t]
  BY <1>1, <1>2, NoTaskSays
<1>4. needs \in [Owners -> SUBSET Nat] /\ brought = [o \in Owners |-> [k \in Indices(o) |-> brought[o][k]]]
  BY DEF SendInv, SendType
<1>5. CASE Failed(r)
  <2> DEFINE q == [req[r] EXCEPT !.pc = "failed"]
  <2>1. req' = [req EXCEPT ![r].pc = "failed"] /\ needs' = needs /\ brought' = brought
    BY <1>5 DEF TakeOutcome
  <2>2. q \in Stands /\ q.pc = "failed" /\ req' = [req EXCEPT ![r] = q]
    BY <2>1, StandType DEF SendInv, SendType, Stands, Steps
  <2> HIDE DEF q
  <2>3. Hands(r, q, t)
    BY <1>1, <1>3, <1>4, <2>1, <2>2 DEF Hands
  <2> QED
    BY <2>3, HandsKeep
<1>6. CASE ~Failed(r)
  <2> DEFINE g == [what |-> "submitted", saw |-> DoneBy(r), ids |-> {}]
             row == i + 1
             q == [req[r] EXCEPT !.pc = "bring", !.row = row]
             f == [brought[r] EXCEPT ![i] = g]
  <2>1. /\ brought' = [brought EXCEPT ![r][i] = g]
        /\ needs' = [needs EXCEPT ![r] = @ \ {i}]
        /\ req' = [req EXCEPT ![r].pc = "bring", ![r].row = row]
    BY <1>6 DEF TakeOutcome, Gift
  <2>2. g.what = "submitted"
    OBVIOUS
  <2>3. i \in Indices(r) /\ i \in Nat /\ row \in Nat
    <3>1. TaskSays(r, task[r], out, unheard, filed) /\ i \in Nat
      BY TaskType
    <3>2. i \in Indices(r)
      BY <1>1, <3>1 DEF TaskSays
    <3> QED
      BY <3>1, <3>2
  <2> HIDE DEF g, i, row
  <2>4. q \in Stands /\ q.pc = "bring" /\ q.gone = FALSE
    BY <1>1, <2>3, StandType DEF Stands, Steps
  <2>5. req' = [req EXCEPT ![r] = q]
    <3>1. req \in [Owners -> Stands] /\ req[r] \in Stands
      BY DEF SendInv, SendType
    <3> QED
      BY <2>1, <3>1 DEF Stands
  <2> HIDE DEF q
  <2>6. /\ brought' = [o \in Owners |-> [k \in Indices(o) |-> brought'[o][k]]]
        /\ \A o \in Owners : o # r => brought'[o] = brought[o]
        /\ \A k \in Indices(r) : k # i => brought'[r][k] = brought[r][k]
        /\ brought'[r][i].what = "submitted"
    <3>1. DOMAIN brought[r] = Indices(r) /\ r \in DOMAIN brought
      BY <1>4
    <3>2. /\ f = [k \in Indices(r) |-> f[k]] /\ \A k \in Indices(r) : k # i => f[k] = brought[r][k]
          /\ f[i] = g
      BY <2>3, <3>1
    <3>3. brought' = [brought EXCEPT ![r] = f]
      BY <2>1
    <3> HIDE DEF f
    <3> QED
      BY <2>2, <3>2, <3>3, BroughtExcept DEF SendInv
  <2>7. /\ needs' \in [Owners -> SUBSET Nat] /\ needs'[r] = needs[r] \ {i}
        /\ \A o \in Owners : o # r => needs'[o] = needs[o]
    BY <1>4, <2>1
  <2>8. req[r].pc = "send" /\ Runs(r) /\ StandSays(r)
    BY <1>1 DEF SendInv, StandSays, Runs
  <2>9. \A k \in needs'[r] : k \in Indices(r) /\ brought'[r][k].what = "none"
    BY <2>6, <2>7, <2>8 DEF StandSays
  <2>10. \A k, c \in Nat : <<r, k, c>> \in out => k \in Indices(r) /\ brought'[r][k].what = "submitted"
    <3> SUFFICES ASSUME NEW k \in Nat, NEW c \in Nat, <<r, k, c>> \in out
                 PROVE  k \in Indices(r) /\ brought'[r][k].what = "submitted"
      OBVIOUS
    <3>1. \/ k = i
          \/ k \in Indices(r) /\ brought[r][k].what = "submitted"
      BY <2>8 DEF StandSays, i
    <3> QED
      BY <3>1, <2>3, <2>6
  <2>11. Hands(r, q, t)
    BY <1>1, <1>3, <2>4, <2>5, <2>6, <2>7, <2>9, <2>10 DEF Hands
  <2> QED
    BY <2>11, HandsKeep
<1> QED
  BY <1>5, <1>6

-----------------------------------------------------------------------------
(* DATA and what follows it *)

Recorders == {r \in Owners : At(r, "record")}
Heard == out \ unheard

\* What is counted is finite, and what the records say of it.
LEMMA Counts ==
    ASSUME SendInv
    PROVE  /\ IsFiniteSet(Recorders) /\ Cardinality(Recorders) \in Nat
           /\ IsFiniteSet(Heard) /\ Cardinality(Heard) \in Nat
           /\ sends \in Nat /\ sends + Cardinality(Recorders) = Cardinality(Heard)
<1>1. IsFiniteSet(Owners)
  <2>1. Owners = {1} \cup {2}
    BY DEF Owners
  <2> QED
    BY <2>1, FS_Singleton, FS_AddElement
<1>2. Recorders \in SUBSET Owners /\ Heard \in SUBSET out /\ IsFiniteSet(out) /\ sends \in Nat
  BY DEF Recorders, Heard, SendInv, SendType
<1>3. IsFiniteSet(Recorders) /\ IsFiniteSet(Heard)
  BY <1>1, <1>2, FS_Subset
<1>4. Cardinality(Recorders) \in Nat /\ Cardinality(Heard) \in Nat
  BY <1>3, FS_CardinalityType
<1>5. sends + Cardinality(Recorders) = Cardinality(Heard)
  BY DEF SendInv, SendsRecorded, Recorders, Heard
<1> QED
  BY <1>2, <1>3, <1>4, <1>5

\* Where a step of a task leaves who is about to record.
LEMMA RecordersMove ==
    ASSUME SendInv, NEW r \in Owners, NEW t, task' = [task EXCEPT ![r] = t]
    PROVE  Recorders' = IF t.pc = "record" THEN Recorders \cup {r} ELSE Recorders \ {r}
<1>1. task'[r] = t /\ \A o \in Owners : o # r => task'[o] = task[o]
  BY TaskType
<1>2. Recorders' = {o \in Owners : task'[o].pc = "record"} /\ Recorders = {o \in Owners : task[o].pc = "record"}
  BY DEF Recorders, At
<1> QED
  BY <1>1, <1>2

\* A message is not at the server before its DATA, and is past it.
LEMMA MessageSays ==
    ASSUME SendInv, NEW r \in Owners, task[r].pc \notin {"idle", "ended"}
    PROVE  /\ Message(r) \in Parcels
           /\ Message(r) = <<r, task[r].call, task[r].create>>
           /\ task[r].pc \notin Past => Message(r) \notin out
           /\ task[r].pc \in Past => Message(r) \in Heard
<1>1. TaskSays(r, task[r], out, unheard, filed) /\ task[r].call \in Nat /\ task[r].create \in Nat
  BY TaskType
<1>2. task[r].create \in {1, 2}
  BY <1>1 DEF TaskSays, Creates
<1> QED
  BY <1>1, <1>2 DEF TaskSays, Message, Parcels, Heard

\* DATA: the message is taken, refused, or taken and its answer lost.
LEMMA DataKeeps ==
    ASSUME SendInv, NEW r \in Owners, Data(r) PROVE SendInv'
<1> DEFINE m == Message(r)
<1>1. /\ task[r].pc = "data" /\ calls' = calls /\ req' = req /\ needs' = needs /\ brought' = brought
      /\ record' = record /\ sends' = sends /\ filed' = filed /\ left' = left
  BY DEF Data, At, passes
<1>2. m \notin out /\ m \in Parcels /\ m = <<r, task[r].call, task[r].create>>
  BY <1>1, MessageSays DEF Past
<1>3. /\ record \in Seq(Parcels) /\ sends \in Nat /\ unheard \subseteq out /\ unheard \subseteq unheard
      /\ filed \subseteq filed
  BY DEF SendInv, SendType
<1>4. CopyBeforeLeave' <=> CopyBeforeLeave
  BY <1>1 DEF CopyBeforeLeave, Kind
<1>5. Range(record)' = Range(record)
  BY <1>1 DEF Range
<1>6. r \notin Recorders
  BY <1>1 DEF Recorders, At
<1>7. CASE Goes(r, "record") /\ out' = out \cup {m} /\ unheard' = unheard
  <2> DEFINE t == [task[r] EXCEPT !.pc = "record"]
  <2>1. task' = [task EXCEPT ![r].pc = "record"] /\ out' = out \cup {Message(r)}
    BY <1>7 DEF Goes
  <2>2. t \in Tasks /\ t.pc = "record" /\ t.call = task[r].call /\ t.create = task[r].create
        /\ t.got = task[r].got /\ t.wentOut = task[r].wentOut
    BY TaskType DEF Tasks, Places
  <2>3. task' = [task EXCEPT ![r] = t]
    BY <2>1, TaskType
  <2> HIDE DEF t, m
  <2>4. TaskSays(r, t, out', unheard', filed')
    <3>1. TaskSays(r, task[r], out, unheard, filed) /\ task[r].create \in Nat /\ Len(task[r].got) \in Nat
      BY TaskType
    <3>2. Len(task[r].got) + 1 = task[r].create
      BY <1>1, <3>1 DEF TaskSays
    <3>3. \A c \in 1..Len(task[r].got) : c \in Nat /\ <<r, task[r].call, c>> # m
      BY <1>2, <3>1, <3>2
    <3>4. m \in out' \ unheard'
      BY <1>2, <1>3, <1>7
    <3> QED
      BY <1>1, <1>2, <1>7, <2>2, <3>1, <3>2, <3>3, <3>4 DEF TaskSays, Past
  <2>5. SendsRecorded'
    <3>1. Heard' = Heard \cup {m} /\ m \notin Heard
      BY <1>2, <1>3, <1>7 DEF Heard
    <3>2. Recorders' = Recorders \cup {r}
      BY <2>2, <2>3, RecordersMove
    <3>3. Cardinality(Heard') = Cardinality(Heard) + 1
      BY <3>1, Counts, FS_AddElement
    <3>4. Cardinality(Recorders') = Cardinality(Recorders) + 1
      BY <1>6, <3>2, Counts, FS_AddElement
    <3>5. sends' + Cardinality(Recorders') = Cardinality(Heard')
      BY <1>1, <3>3, <3>4, Counts
    <3>6. Range(record) \cup filed \cup left \subseteq Heard
      BY DEF SendInv, SendsRecorded, Heard
    <3> QED
      BY <1>1, <1>4, <1>5, <3>1, <3>5, <3>6 DEF SendInv, SendsRecorded, Heard, Recorders
  <2>6. unheard' = unheard /\ filed' = filed /\ unheard' \subseteq out'
    BY <1>1, <1>3, <1>7
  <2>7. task[r].pc \notin {"idle", "ended"} /\ t.pc # "idle" /\ out' \in {out, out \cup {Message(r)}}
        /\ unheard \subseteq unheard' /\ unheard' \subseteq unheard \cup {Message(r)} /\ filed \subseteq filed'
        /\ record' \in Seq(Parcels) /\ sends' \in Nat
    BY <1>1, <1>3, <2>1, <2>2, <2>6
  <2> QED
    BY <1>1, <2>2, <2>3, <2>4, <2>5, <2>6, <2>7, TaskMoves
<1>8. CASE (\E reply \in Replies \ {"ok"} : Ends(r, Undelivered(reply))) /\ out' = out /\ unheard' = unheard
  <2>1. PICK reply \in Replies \ {"ok"} : Ends(r, Undelivered(reply))
    BY <1>8
  <2>2. Undelivered(reply) \in Sent \ {"created"}
    BY DEF Undelivered, Replies, Sent
  <2>3. SendsStay /\ UNCHANGED <<req, needs, brought>>
    BY <1>1, <1>8 DEF SendsStay
  <2>4. PICK outcome \in Sent \ {"created"} : Ends(r, outcome)
    BY <2>1, <2>2
  <2> QED
    BY <1>1, <2>3, <2>4, EndsBefore
<1>9. CASE Ends(r, Undelivered("lost")) /\ out' = out \cup {m} /\ unheard' = unheard \cup {m}
  <2>1. Undelivered("lost") = "unavailable" /\ "unavailable" \in Sent
    BY DEF Undelivered, Sent
  <2> DEFINE t == AfterCreate(r, "unavailable")
  <2>2. task' = [task EXCEPT ![r] = t]
    BY <1>9, <2>1 DEF Ends
  <2>3. out' = out \cup {Message(r)} /\ unheard' = unheard \cup {Message(r)}
    BY <1>9
  <2> HIDE DEF m
  <2>4. /\ t \in Tasks /\ t.pc \in {"turn", "ended"} /\ t.call = task[r].call
        /\ TaskSays(r, t, out', unheard', filed')
    BY <1>1, <2>1, <2>3, AfterCreateSays
  <2> HIDE DEF t
  <2>5. SendsRecorded'
    <3>1. Heard' = Heard
      BY <1>2, <1>9 DEF Heard
    <3>2. Recorders' = Recorders
      BY <1>6, <2>2, <2>4, RecordersMove
    <3> QED
      BY <1>1, <1>4, <1>5, <3>1, <3>2 DEF SendInv, SendsRecorded, Heard, Recorders
  <2>6. task[r].pc \notin {"idle", "ended"} /\ t.pc # "idle" /\ out' \in {out, out \cup {Message(r)}}
        /\ unheard \subseteq unheard' /\ unheard' \subseteq unheard \cup {Message(r)} /\ filed \subseteq filed'
        /\ record' \in Seq(Parcels) /\ sends' \in Nat /\ unheard' \subseteq out'
    BY <1>1, <1>3, <2>3, <2>4
  <2> QED
    BY <1>1, <2>2, <2>4, <2>5, <2>6, TaskMoves
<1> QED
  BY <1>7, <1>8, <1>9 DEF Data

\* The last of a list of submissions: at most as many as are kept.
LEMMA KeptSays ==
    ASSUME NEW list \in Seq(Parcels)
    PROVE  /\ Kept(list) \in Seq(Parcels)
           /\ Range(Kept(list)) \subseteq Range(list)
           /\ Len(Kept(list)) = IF Len(list) < RECENT_SUBMISSIONS THEN Len(list) ELSE RECENT_SUBMISSIONS
<1> DEFINE n == Len(list)
           from == IF n > RECENT_SUBMISSIONS THEN n - RECENT_SUBMISSIONS + 1 ELSE 1
           last == SubSeq(list, from, n)
<1>1. n \in Nat /\ RECENT_SUBMISSIONS \in Nat /\ RECENT_SUBMISSIONS > 0
  BY RequestsAssumption
<1>2. from \in Nat /\ 1 <= from /\ from <= n + 1
  BY <1>1
<1>3. \A i \in 1..n : list[i] \in Parcels
  BY ElementOfSeq
<1>4. \A i \in from..n : list[i] \in Parcels
  BY <1>1, <1>2, <1>3
<1>5. Kept(list) = last
  BY DEF Kept
<1>6. DOMAIN list = 1..n
  OBVIOUS
<1> HIDE DEF n
<1>7. n - from + 1 = IF n < RECENT_SUBMISSIONS THEN n ELSE RECENT_SUBMISSIONS
  <2>1. CASE n > RECENT_SUBMISSIONS
    BY <1>1, <2>1
  <2>2. CASE ~(n > RECENT_SUBMISSIONS)
    BY <1>1, <2>2
  <2> QED
    BY <2>1, <2>2
<1> HIDE DEF from
<1>8. /\ last \in Seq(Parcels) /\ Len(last) = (IF from <= n THEN n - from + 1 ELSE 0)
      /\ \A i \in 1..(n - from + 1) : last[i] = list[from + i - 1]
  BY <1>1, <1>2, <1>4, SubSeqProperties
<1>9. Len(last) = n - from + 1 /\ n - from + 1 \in Nat
  BY <1>1, <1>2, <1>8
<1> HIDE DEF last
<1>10. \A i \in 1..Len(last) : last[i] \in Range(list)
  <2> SUFFICES ASSUME NEW i \in 1..Len(last) PROVE last[i] \in Range(list)
    OBVIOUS
  <2>1. from + i - 1 \in 1..n /\ last[i] = list[from + i - 1]
    BY <1>1, <1>2, <1>8, <1>9
  <2> QED
    BY <2>1, <1>6 DEF Range
<1>11. DOMAIN last = 1..Len(last)
  BY <1>8
<1>12. Range(last) \subseteq Range(list)
  BY <1>10, <1>11 DEF Range
<1> QED
  BY <1>5, <1>7, <1>8, <1>9, <1>12 DEF n

\* A submission the server took is recorded and counted.
LEMMA RecordSubmissionKeeps ==
    ASSUME SendInv, NEW r \in Owners, RecordSubmission(r) PROVE SendInv'
<1> DEFINE t == [task[r] EXCEPT !.pc = "file"]
           list == Append(record, Message(r))
<1>1. /\ task[r].pc = "record" /\ calls' = calls /\ req' = req /\ needs' = needs /\ brought' = brought
      /\ out' = out /\ unheard' = unheard /\ filed' = filed /\ left' = left
      /\ record' = Kept(list) /\ sends' = sends + 1
      /\ task' = [task EXCEPT ![r].pc = "file"]
  BY DEF RecordSubmission, At, Goes, passes, history
<1>2. t \in Tasks /\ t.pc = "file" /\ t.call = task[r].call /\ t.create = task[r].create
      /\ t.got = task[r].got /\ t.wentOut = task[r].wentOut
  BY TaskType DEF Tasks, Places
<1>3. task' = [task EXCEPT ![r] = t]
  BY <1>1, TaskType
<1>4. TaskSays(r, task[r], out, unheard, filed)
  BY TaskType
<1> HIDE DEF t
<1>5. TaskSays(r, t, out', unheard', filed')
  BY <1>1, <1>2, <1>4 DEF TaskSays, Past
<1>6. Message(r) \in Parcels /\ Message(r) \in Heard
  BY <1>1, MessageSays DEF Past
<1>7. record \in Seq(Parcels) /\ sends \in Nat /\ unheard \subseteq out
  BY DEF SendInv, SendType
<1>8. list \in Seq(Parcels) /\ Len(list) = Len(record) + 1 /\ Range(list) = Range(record) \cup {Message(r)}
  <2> DEFINE m == Message(r)
  <2>1. m \in Parcels
    BY <1>6
  <2> HIDE DEF m
  <2>2. /\ Append(record, m) \in Seq(Parcels) /\ Len(Append(record, m)) = Len(record) + 1
        /\ \A i \in 1..Len(record) : Append(record, m)[i] = record[i]
        /\ Append(record, m)[Len(record) + 1] = m
    BY <1>7, <2>1, AppendProperties
  <2> DEFINE l == Append(record, m)
  <2>3. DOMAIN l = 1..(Len(record) + 1) /\ DOMAIN record = 1..Len(record) /\ Len(record) \in Nat
    BY <1>7, <2>2
  <2>4. /\ l \in Seq(Parcels) /\ Len(l) = Len(record) + 1
        /\ \A i \in 1..Len(record) : l[i] = record[i] /\ l[Len(record) + 1] = m
    BY <2>2
  <2> HIDE DEF l
  <2>5. Range(l) \subseteq Range(record) \cup {m}
    <3> SUFFICES ASSUME NEW i \in DOMAIN l PROVE l[i] \in Range(record) \cup {m}
      BY DEF Range
    <3>1. CASE i = Len(record) + 1
      BY <3>1, <2>2 DEF l
    <3>2. CASE i # Len(record) + 1
      <4>1. i \in 1..Len(record)
        BY <3>2, <2>3
      <4> QED
        BY <4>1, <2>3, <2>4 DEF Range
    <3> QED
      BY <3>1, <3>2
  <2>6. Range(record) \cup {m} \subseteq Range(l)
    <3>1. l[Len(record) + 1] = m /\ Len(record) + 1 \in DOMAIN l
      BY <2>2, <2>3 DEF l
    <3>2. \A i \in DOMAIN record : i \in DOMAIN l /\ l[i] = record[i]
      BY <2>3, <2>4
    <3> QED
      BY <3>1, <3>2 DEF Range
  <2> QED
    BY <2>4, <2>5, <2>6 DEF l, m
<1> HIDE DEF list
<1>9. /\ record' \in Seq(Parcels) /\ Range(record') \subseteq Range(list)
      /\ Len(record') = IF Len(list) < RECENT_SUBMISSIONS THEN Len(list) ELSE RECENT_SUBMISSIONS
  BY <1>1, <1>8, KeptSays
<1>10. SendsRecorded'
  <2>1. Recorders' = Recorders \ {r} /\ r \in Recorders /\ Heard' = Heard
    BY <1>1, <1>2, <1>3, RecordersMove DEF Recorders, At, Heard
  <2>2. Cardinality(Recorders') = Cardinality(Recorders) - 1
    BY <2>1, Counts, FS_RemoveElement
  <2>3. sends' + Cardinality(Recorders') = Cardinality(Heard')
    BY <1>1, <2>1, <2>2, Counts
  <2>4. /\ Range(record) \cup filed \cup left \subseteq Heard
        /\ Len(record) = IF sends < RECENT_SUBMISSIONS THEN sends ELSE RECENT_SUBMISSIONS
    BY DEF SendInv, SendsRecorded, Heard
  <2>5. Range(record)' \cup filed' \cup left' \subseteq Heard'
    <3>1. Range(record') \subseteq Heard
      BY <1>6, <1>8, <1>9, <2>4
    <3> QED
      BY <1>1, <2>1, <2>4, <3>1
  <2>6. Len(record') = IF sends' < RECENT_SUBMISSIONS THEN sends' ELSE RECENT_SUBMISSIONS
    <3>1. sends \in Nat /\ RECENT_SUBMISSIONS \in Nat /\ RECENT_SUBMISSIONS > 0 /\ sends' = sends + 1
      BY <1>1, <1>7, RequestsAssumption
    <3>2. Len(list) = (IF sends < RECENT_SUBMISSIONS THEN sends ELSE RECENT_SUBMISSIONS) + 1
      BY <1>8, <2>4
    <3> QED
      BY <1>9, <3>1, <3>2
  <2>7. CopyBeforeLeave'
    BY <1>1 DEF CopyBeforeLeave, Kind, SendInv, SendsRecorded
  <2> QED
    BY <2>3, <2>5, <2>6, <2>7 DEF SendsRecorded, Heard, Recorders
<1>11. task[r].pc \notin {"idle", "ended"} /\ t.pc # "idle" /\ out' \in {out, out \cup {Message(r)}}
       /\ unheard \subseteq unheard' /\ unheard' \subseteq unheard \cup {Message(r)} /\ filed \subseteq filed'
       /\ record' \in Seq(Parcels) /\ sends' \in Nat /\ unheard' \subseteq out'
  BY <1>1, <1>2, <1>7, <1>9
<1>12. UNCHANGED <<calls, req, needs, brought>>
  BY <1>1
<1> QED
  BY <1>2, <1>3, <1>5, <1>10, <1>11, <1>12, TaskMoves

\* A create that is past DATA ends as created.
LEMMA EndsCreated ==
    ASSUME SendInv, NEW r \in Owners, task[r].pc \in {"file", "leave"},
           UNCHANGED <<calls, req, needs, brought, record, sends, out, unheard, filed>>,
           Ends(r, "created"), left' \subseteq left \cup {Message(r)},
           \A m \in left' \ left : ~(Kind(m[1], m[2]) = "pair" /\ m[3] = 1) => m \in filed
    PROVE  SendInv'
<1> DEFINE t == AfterCreate(r, "created")
<1>1. /\ calls' = calls /\ req' = req /\ needs' = needs /\ brought' = brought /\ record' = record
      /\ sends' = sends /\ out' = out /\ unheard' = unheard /\ filed' = filed
  OBVIOUS
<1>2. task' = [task EXCEPT ![r] = t]
  BY DEF Ends
<1>3. Message(r) \in out \ unheard
  BY MessageSays DEF Past, Heard
<1>4. /\ t \in Tasks /\ t.pc \in {"turn", "ended"} /\ t.call = task[r].call
      /\ TaskSays(r, t, out, unheard, filed)
  <2>1. "created" \in Sent
    BY DEF Sent
  <2> QED
    BY <1>3, <2>1, AfterCreateSays
<1> HIDE DEF t
<1>5. SendsRecorded'
  <2>1. Recorders' = Recorders
    BY <1>2, <1>4, RecordersMove DEF Recorders, At
  <2>2. Range(record)' = Range(record)
    BY <1>1 DEF Range
  <2>3. CopyBeforeLeave'
    <3> SUFFICES ASSUME NEW m \in left', ~(Kind(m[1], m[2]) = "pair" /\ m[3] = 1) PROVE m \in filed
      BY <1>1 DEF CopyBeforeLeave, Kind
    <3> QED
      BY DEF SendInv, SendsRecorded, CopyBeforeLeave
  <2>4. left' \subseteq out \ unheard
    BY <1>3 DEF SendInv, SendsRecorded
  <2> QED
    BY <1>1, <2>1, <2>2, <2>3, <2>4 DEF SendInv, SendsRecorded, Recorders
<1>6. record \in Seq(Parcels) /\ sends \in Nat /\ unheard \subseteq out
  BY DEF SendInv, SendType
<1>7. task[r].pc \notin {"idle", "ended"} /\ t.pc # "idle" /\ out' \in {out, out \cup {Message(r)}}
      /\ unheard \subseteq unheard' /\ unheard' \subseteq unheard \cup {Message(r)} /\ filed \subseteq filed'
      /\ record' \in Seq(Parcels) /\ sends' \in Nat /\ unheard' \subseteq out'
      /\ TaskSays(r, t, out', unheard', filed')
  BY <1>1, <1>4, <1>6
<1>8. UNCHANGED <<calls, req, needs, brought>>
  BY <1>1
<1> QED
  BY <1>2, <1>4, <1>5, <1>7, <1>8, TaskMoves

\* The implicit Email/set files the email's copy, has it destroyed, or fails
\* for the email alone.
LEMMA ImplicitSetKeeps ==
    ASSUME SendInv, NEW r \in Owners, ImplicitSet(r) PROVE SendInv'
<1>1. /\ task[r].pc = "file" /\ calls' = calls /\ req' = req /\ needs' = needs /\ brought' = brought
      /\ record' = record /\ sends' = sends /\ out' = out /\ unheard' = unheard /\ left' = left
  BY DEF ImplicitSet, At, passes
<1>2. CASE filed' = filed /\ Ends(r, "created")
  <2>1. UNCHANGED <<calls, req, needs, brought, record, sends, out, unheard, filed>>
    BY <1>1, <1>2
  <2> QED
    BY <1>1, <1>2, <2>1, EndsCreated
<1>3. ASSUME Goes(r, "leave"),
             \/ OnSuccess(r) = "destroy" /\ filed' = filed
             \/ OnSuccess(r) = "file" /\ filed' = filed \cup {Message(r)}
      PROVE  SendInv'
  <2> DEFINE t == [task[r] EXCEPT !.pc = "leave"]
             m == Message(r)
  <2>1. t \in Tasks /\ t.pc = "leave" /\ t.call = task[r].call /\ t.create = task[r].create
        /\ t.got = task[r].got /\ t.wentOut = task[r].wentOut
    BY TaskType DEF Tasks, Places
  <2>2. task' = [task EXCEPT ![r] = t]
    BY <1>3, TaskType DEF Goes
  <2>3. TaskSays(r, task[r], out, unheard, filed)
    BY TaskType
  <2>4. m \in out \ unheard /\ m = <<r, task[r].call, task[r].create>>
    BY <1>1, MessageSays DEF Past, Heard
  <2>5. filed' \subseteq filed \cup {m} /\ filed \subseteq filed'
        /\ (~(Kind(r, task[r].call) = "pair" /\ task[r].create = 1) => m \in filed')
    BY <1>3 DEF OnSuccess
  <2> HIDE DEF t, m
  <2>6. TaskSays(r, t, out', unheard', filed')
    BY <1>1, <2>1, <2>3, <2>4, <2>5 DEF TaskSays, Past
  <2>7. SendsRecorded'
    <3>1. Recorders' = Recorders
      BY <1>1, <2>1, <2>2, RecordersMove DEF Recorders, At
    <3>2. Range(record)' = Range(record)
      BY <1>1 DEF Range
    <3>3. CopyBeforeLeave'
      BY <1>1, <2>5 DEF CopyBeforeLeave, Kind, SendInv, SendsRecorded
    <3>4. filed' \subseteq out \ unheard
      BY <2>4, <2>5 DEF SendInv, SendsRecorded
    <3> QED
      BY <1>1, <3>1, <3>2, <3>3, <3>4 DEF SendInv, SendsRecorded, Recorders
  <2>8. record \in Seq(Parcels) /\ sends \in Nat /\ unheard \subseteq out
    BY DEF SendInv, SendType
  <2>9. task[r].pc \notin {"idle", "ended"} /\ t.pc # "idle" /\ out' \in {out, out \cup {Message(r)}}
        /\ unheard \subseteq unheard' /\ unheard' \subseteq unheard \cup {Message(r)} /\ filed \subseteq filed'
        /\ record' \in Seq(Parcels) /\ sends' \in Nat /\ unheard' \subseteq out'
    BY <1>1, <2>1, <2>5, <2>8
  <2>10. UNCHANGED <<calls, req, needs, brought>>
    BY <1>1
  <2> QED
    BY <2>1, <2>2, <2>6, <2>7, <2>9, <2>10, TaskMoves
<1> QED
  BY <1>2, <1>3 DEF ImplicitSet

\* The email leaves, its copy filed where it was to be filed.
LEMMA LeaveDraftKeeps ==
    ASSUME SendInv, NEW r \in Owners, LeaveDraft(r) PROVE SendInv'
<1> DEFINE m == Message(r)
<1>1. /\ task[r].pc = "leave" /\ Ends(r, "created") /\ left' \subseteq left \cup {m}
      /\ UNCHANGED <<calls, req, needs, brought, record, sends, out, unheard, filed>>
  BY DEF LeaveDraft, At, passes
<1>2. m = <<r, task[r].call, task[r].create>> /\ TaskSays(r, task[r], out, unheard, filed)
  BY <1>1, MessageSays, TaskType
<1>3. ~(Kind(m[1], m[2]) = "pair" /\ m[3] = 1) => m \in filed
  <2>1. m[1] = r /\ m[2] = task[r].call /\ m[3] = task[r].create
    BY <1>2
  <2> HIDE DEF m
  <2> QED
    BY <1>1, <1>2, <2>1 DEF TaskSays
<1>4. \A x \in left' \ left : ~(Kind(x[1], x[2]) = "pair" /\ x[3] = 1) => x \in filed
  <2>1. \A x \in left' \ left : x = m
    BY <1>1
  <2> HIDE DEF m
  <2> QED
    BY <2>1, <1>3
<1> QED
  BY <1>1, <1>4, EndsCreated

-----------------------------------------------------------------------------
(* The theorem *)

\* Every step keeps the invariant.
LEMMA StepKeeps == SendInv /\ [Next]_vars => SendInv'
<1> SUFFICES ASSUME SendInv, [Next]_vars PROVE SendInv'
  OBVIOUS
<1>1. ASSUME NEW r \in Owners, Step(r) PROVE SendInv'
  <2>1. CASE Begin(r) \/ Pass(r)
    BY <2>1, BeginKeeps, PassKeeps
  <2>2. CASE Brings(r)
    BY <2>2, BringWriteKeeps, BringSubmitKeeps, EndRowKeeps, BringFillKeeps, FillsKeeps,
       EndFillKeeps, BringSearchKeeps DEF Brings
  <2>3. CASE SendStep(r)
    BY <2>3, BeforeDataKeeps, DataKeeps, RecordSubmissionKeeps, ImplicitSetKeeps,
       LeaveDraftKeeps, TakeOutcomeKeeps, TaskEndsKeeps DEF SendStep
  <2> QED
    BY <1>1, <2>1, <2>2, <2>3 DEF Step
<1>2. ASSUME NEW r \in Owners, GoAway(r) PROVE SendInv'
  BY <1>2, GoAwayKeeps
<1>3. CASE Around
  <2>1. SendsStay /\ UNCHANGED <<req, needs, brought, task>>
    BY <1>3 DEF Around, SendsStay, passes, sending, history
  <2> QED
    BY <2>1, NothingMoves
<1>4. CASE UNCHANGED vars
  <2>1. SendsStay /\ UNCHANGED <<req, needs, brought, task>>
    BY <1>4 DEF vars, SendsStay, passes, sending, history
  <2> QED
    BY <2>1, NothingMoves
<1> QED
  BY <1>1, <1>2, <1>3, <1>4 DEF Next

\* What a submission is told is what the submission server took, every
\* message it took and said so is recorded and counted, and an email leaves
\* only behind its filed copy, whatever is lost or dropped on the way
\* (jmap/submission/sending.rs).
THEOREM SubmissionsStand == Spec => []SendsStand
<1>1. SendInv /\ [Next]_vars => SendInv'
  BY StepKeeps
<1>2. Spec => []SendInv
  BY InitHolds, <1>1, PTL DEF Spec
<1> QED
  BY <1>2, InvGives, PTL
-----------------------------------------------------------------------------
(* The calls of a request: the inductive invariant *)

InHand(r) == ~req[r].gone /\ req[r].pc \notin {"done", "failed"}

Gifted(r, i) == brought[r][i].what # "none"

\* The writes that have their outcome.
Written(r) == {i \in Indices(r) : Kind(r, i) \in Writes /\ Gifted(r, i)}

\* What is brought for a write that was done.
Stored(r, i) == IF Kind(r, i) \in Submits THEN "submitted" ELSE "written"

\* An answer that stands: the rows it was read from, and its write done.
Settled(r, i) ==
    /\ resp[r][i].st = "ok" => resp[r][i].saw \ {i} = {j \in DoneBy(r) : j < i}
    /\ done[r][i] > 0 => resp[r][i].st = "ok"

\* What was done was brought for its call; an outcome is told with the
\* writes before it; of the calls that run again, those up to the last
\* outcome are writes with theirs.
DoneSays(r) ==
    /\ \A i \in DoneBy(r) : i \in Written(r) /\ brought[r][i].what = Stored(r, i)
    /\ \A i \in Written(r) : brought[r][i].saw = {j \in DoneBy(r) : j < i}
    /\ \A j \in Written(r), i \in Indices(r) : req[r].first <= i /\ i <= j => i \in Written(r)
    /\ \A i \in DoneBy(r) : req[r].first <= i /\ Kind(r, i) = "after" =>
         i = req[r].first /\ i > 1 /\ resp[r][i - 1].st = "ok"

\* The row of writes: those before its place have their outcome, those
\* behind it have none, and what is needed can run.
RowSays(r) ==
    /\ 1 <= req[r].first /\ req[r].first <= req[r].row
    /\ \A i \in Indices(r) : req[r].first <= i /\ i < req[r].row =>
         i \in Written(r) /\ resp[r][i].st = "unavailable"
    /\ \A j \in Written(r) : j < req[r].row
    /\ \A i \in needs[r] :
         /\ req[r].first <= i /\ resp[r][i].st = "unavailable"
         /\ Kind(r, i) = "after" => i > 1 /\ resp[r][i - 1].st = "ok"

\* A request that goes on.
HandSays(r) ==
    /\ DoneSays(r)
    /\ \A i \in Indices(r) : i < req[r].first => Settled(r, i)
    /\ req[r].pc \in {"bring", "send"} => RowSays(r)
    /\ req[r].pc = "send" =>
         task[r].pc # "idle" /\ task[r].call = req[r].row /\ req[r].row \in needs[r]

CallSays(r) ==
    /\ \A i \in Indices(r) : done[r][i] <= 1
    /\ InHand(r) => HandSays(r)
    /\ req[r].pc = "done" => \A i \in Indices(r) : Settled(r, i)

CallInv ==
    /\ SendInv
    /\ DOMAIN resp = Owners /\ DOMAIN done = Owners
    /\ \A r \in Owners : done[r] \in [Indices(r) -> Nat] /\ CallSays(r)

\* The calls are those of a list.
LEMMA Calls ==
    ASSUME SendInv, NEW r \in Owners
    PROVE  /\ Len(calls[r]) \in Nat /\ Indices(r) = 1..Len(calls[r]) /\ Indices(r) \subseteq Nat
           /\ \A i \in Indices(r) : Kind(r, i) \in Kinds
<1>1. calls[r] \in Seq(Kinds)
  BY DEF SendInv, SendType
<1> QED
  BY <1>1 DEF Indices, Kind

\* The invariant gives where the calls of a request stand.
LEMMA CallsGiven == CallInv => RowsInOrder /\ StoredOnce
<1> SUFFICES ASSUME CallInv PROVE RowsInOrder /\ StoredOnce
  OBVIOUS
<1>1. \A r \in Owners : Ended(r) => \A i \in Indices(r) : Settled(r, i)
  BY DEF CallInv, CallSays, Ended
<1>2. RowsInOrder
  BY <1>1 DEF RowsInOrder, Settled
<1>3. ASSUME NEW r \in Owners, NEW i \in Indices(r)
      PROVE  /\ done[r][i] <= 1
             /\ Ended(r) /\ resp[r][i].st # "ok" => done[r][i] = 0
  <2>1. done[r][i] \in Nat /\ done[r][i] <= 1
    BY DEF CallInv, CallSays
  <2>2. Ended(r) /\ done[r][i] > 0 => resp[r][i].st = "ok"
    BY <1>1 DEF Settled
  <2> QED
    BY <2>1, <2>2
<1>4. StoredOnce
  BY <1>3 DEF StoredOnce
<1> QED
  BY <1>2, <1>4

\* No request did anything at the start.
LEMMA CallsInit == Init => CallInv
<1> SUFFICES ASSUME Init PROVE CallInv
  OBVIOUS
<1>1. SendInv
  BY InitHolds
<1>2. /\ req = [r \in Owners |-> [pc |-> "start", pass |-> 1, row |-> 0, first |-> 0, gone |-> FALSE]]
      /\ resp = [r \in Owners |-> [i \in Indices(r) |-> NoAnswer]]
      /\ brought = [r \in Owners |-> [i \in Indices(r) |-> NoGift]]
      /\ done = [r \in Owners |-> [i \in Indices(r) |-> 0]]
  BY DEF Init
<1>3. ASSUME NEW r \in Owners PROVE done[r] \in [Indices(r) -> Nat] /\ CallSays(r)
  <2>1. /\ done[r] = [i \in Indices(r) |-> 0] /\ brought[r] = [i \in Indices(r) |-> NoGift]
        /\ req[r].pc = "start" /\ req[r].first = 0
    BY <1>2
  <2>2. DoneBy(r) = {}
    BY <2>1 DEF DoneBy
  <2>3. Written(r) = {} /\ \A i \in Indices(r) : ~(i < 0)
    BY <1>1, <2>1, Calls DEF Written, Gifted, NoGift
  <2>4. DoneSays(r)
    BY <2>2, <2>3 DEF DoneSays
  <2>5. HandSays(r)
    BY <2>1, <2>3, <2>4 DEF HandSays
  <2> QED
    BY <2>1, <2>5 DEF CallSays
<1> QED
  BY <1>1, <1>2, <1>3 DEF CallInv

-----------------------------------------------------------------------------
(* Steps that answer and write nothing *)

\* What is read off the calls.
LEMMA CallsSame ==
    ASSUME calls' = calls
    PROVE  \A o \in Owners :
             /\ Indices(o)' = Indices(o)
             /\ \A i : Kind(o, i)' = Kind(o, i) /\ Stored(o, i)' = Stored(o, i)
BY DEF Indices, Kind, Stored, Submits

\* A request that does nothing new, or that no one waits for any more.
LEMMA Rests ==
    ASSUME CallInv, NEW o \in Owners, calls' = calls, done'[o] = done[o], resp'[o] = resp[o],
           req'[o].pc = "done" => req[o].pc = "done",
           InHand(o)' => /\ InHand(o) /\ req'[o].first = req[o].first
                         /\ req'[o].pc \notin {"bring", "send"}
                         /\ \A i \in Indices(o) : Kind(o, i) \in Writes => brought'[o][i] = brought[o][i]
    PROVE  done'[o] \in [Indices(o)' -> Nat] /\ CallSays(o)'
<1>1. /\ Indices(o)' = Indices(o)
      /\ \A i : Kind(o, i)' = Kind(o, i) /\ Stored(o, i)' = Stored(o, i)
  BY CallsSame
<1>2. CallSays(o) /\ done[o] \in [Indices(o) -> Nat]
  BY DEF CallInv
<1>3. DoneBy(o)' = DoneBy(o) /\ DoneBy(o) \subseteq Indices(o)
  BY <1>1 DEF DoneBy
<1>4. \A i \in Indices(o) : Settled(o, i)' <=> Settled(o, i)
  BY <1>3 DEF Settled
<1>5. ASSUME InHand(o)' PROVE HandSays(o)'
  <2>1. HandSays(o) /\ DoneSays(o)
    BY <1>2, <1>5 DEF CallSays, HandSays
  <2>2. /\ req'[o].first = req[o].first
        /\ \A i \in Indices(o) : Kind(o, i) \in Writes => brought'[o][i] = brought[o][i]
    BY <1>5
  <2>3. Written(o)' = Written(o) /\ \A i \in Written(o) : brought'[o][i] = brought[o][i]
    BY <1>1, <2>2 DEF Written, Gifted, Writes
  <2>4. DoneSays(o)'
    BY <1>1, <1>3, <2>1, <2>2, <2>3 DEF DoneSays
  <2>5. \A i \in Indices(o)' : i < req'[o].first => Settled(o, i)'
    BY <1>1, <1>4, <2>1, <2>2 DEF HandSays
  <2> QED
    BY <1>5, <2>4, <2>5 DEF HandSays
<1>6. req'[o].pc = "done" => \A i \in Indices(o)' : Settled(o, i)'
  BY <1>1, <1>2, <1>4 DEF CallSays
<1> QED
  BY <1>1, <1>2, <1>5, <1>6 DEF CallSays

\* A request whose task alone moves.
LEMMA TaskGoes ==
    ASSUME CallInv, NEW o \in Owners, calls' = calls, done'[o] = done[o], resp'[o] = resp[o],
           req'[o] = req[o], needs'[o] = needs[o], brought'[o] = brought[o],
           InHand(o) /\ task[o].pc # "idle" =>
             task'[o].pc # "idle" /\ task'[o].call = task[o].call
    PROVE  done'[o] \in [Indices(o)' -> Nat] /\ CallSays(o)'
<1>1. /\ Indices(o)' = Indices(o)
      /\ \A i : Kind(o, i)' = Kind(o, i) /\ Stored(o, i)' = Stored(o, i)
  BY CallsSame
<1>2. CallSays(o) /\ done[o] \in [Indices(o) -> Nat]
  BY DEF CallInv
<1>3. DoneBy(o)' = DoneBy(o) /\ Written(o)' = Written(o)
  BY <1>1 DEF DoneBy, Written, Gifted, Writes
<1>4. \A i \in Indices(o) : Settled(o, i)' <=> Settled(o, i)
  BY <1>3 DEF Settled
<1>5. DoneSays(o)' <=> DoneSays(o)
  BY <1>1, <1>3 DEF DoneSays, DoneBy
<1>6. RowSays(o)' <=> RowSays(o)
  BY <1>1, <1>3 DEF RowSays
<1>7. ASSUME InHand(o) PROVE HandSays(o)'
  BY <1>1, <1>2, <1>4, <1>5, <1>6, <1>7 DEF HandSays, CallSays
<1>8. InHand(o)' <=> InHand(o)
  BY DEF InHand
<1> QED
  BY <1>1, <1>2, <1>4, <1>7, <1>8 DEF CallSays

\* What a step does to the requests it is not of.
OthersStay(r) ==
    /\ calls' = calls /\ DOMAIN resp' = DOMAIN resp /\ DOMAIN done' = DOMAIN done
    /\ \A o \in Owners : o # r =>
         /\ done'[o] = done[o] /\ resp'[o] = resp[o] /\ req'[o] = req[o]
         /\ needs'[o] = needs[o] /\ brought'[o] = brought[o] /\ task'[o] = task[o]

\* A step of one request.
LEMMA OneStep ==
    ASSUME CallInv, SendInv', NEW r \in Owners, OthersStay(r),
           done'[r] \in [Indices(r)' -> Nat] /\ CallSays(r)'
    PROVE  CallInv'
<1>1. ASSUME NEW o \in Owners, o # r PROVE done'[o] \in [Indices(o)' -> Nat] /\ CallSays(o)'
  BY <1>1, TaskGoes DEF OthersStay
<1> QED
  BY <1>1 DEF CallInv, OthersStay

-----------------------------------------------------------------------------
(* A write takes its outcome *)

\* The outcome of the write at the row's place: the rows before it are told
\* with it, and it is done at most this once.
LEMMA TakesGift ==
    ASSUME CallInv, NEW r \in Owners, NEW i, NEW what,
           InHand(r), req[r].pc \in {"bring", "send"}, i = req[r].row, i \in needs[r],
           Kind(r, i) \in Writes, Gift(r, i, what), calls' = calls, resp'[r] = resp[r],
           req'[r].pc = "bring", req'[r].row = i + 1, req'[r].first = req[r].first,
           needs'[r] = needs[r] \ {i},
           \/ what = "rows" /\ done' = done
           \/ what = Stored(r, i) /\ done' = [done EXCEPT ![r][i] = @ + 1]
    PROVE  done'[r] \in [Indices(r)' -> Nat] /\ CallSays(r)'
<1>1. /\ Indices(r)' = Indices(r) /\ Indices(r) \subseteq Nat
      /\ \A k : Kind(r, k)' = Kind(r, k) /\ Stored(r, k)' = Stored(r, k)
  BY CallsSame, Calls DEF CallInv
<1>2. /\ DOMAIN done = Owners /\ \A k \in Indices(r) : done[r][k] <= 1
      /\ DoneSays(r) /\ RowSays(r) /\ \A k \in Indices(r) : k < req[r].first => Settled(r, k)
  BY DEF CallInv, CallSays, HandSays
<1>3. done[r] \in [Indices(r) -> Nat]
  BY DEF CallInv
<1>4. i \in Indices(r) /\ brought[r][i].what = "none"
  BY DEF CallInv, SendInv, StandSays
<1>5. /\ req[r].first <= i /\ resp[r][i].st = "unavailable"
      /\ Kind(r, i) = "after" => i > 1 /\ resp[r][i - 1].st = "ok"
      /\ \A j \in Written(r) : j < i
      /\ \A k \in Indices(r) : req[r].first <= k /\ k < i => k \in Written(r) /\ resp[r][k].st = "unavailable"
      /\ 1 <= req[r].first /\ req[r].first \in Nat
  <2>1. req[r].first \in Nat
    BY StandType DEF CallInv
  <2> QED
    BY <1>2, <2>1 DEF RowSays
<1>6. what # "none"
  BY DEF Stored
<1>7. /\ \A k \in Indices(r) : k # i => brought'[r][k] = brought[r][k]
      /\ brought'[r][i].what = what /\ brought'[r][i].saw = DoneBy(r)
  <2>1. r \in DOMAIN brought /\ DOMAIN brought[r] = Indices(r)
    BY DEF CallInv, SendInv, SendType
  <2> QED
    BY <1>4, <2>1 DEF Gift
<1>8. i \notin Written(r) /\ Written(r)' = Written(r) \cup {i}
  BY <1>1, <1>4, <1>6, <1>7 DEF Written, Gifted, Writes
<1>9. DoneBy(r) \subseteq Written(r) /\ DoneBy(r) \subseteq Indices(r) /\ Written(r) \subseteq Indices(r)
  BY <1>2 DEF DoneSays, DoneBy, Written
<1>10. /\ done'[r] \in [Indices(r) -> Nat] /\ \A k \in Indices(r) : k # i => done'[r][k] = done[r][k]
       /\ done'[r][i] <= 1
       /\ DoneBy(r) \subseteq DoneBy(r)' /\ DoneBy(r)' \subseteq DoneBy(r) \cup {i}
       /\ i \in DoneBy(r)' => what = Stored(r, i)
  <2>1. done[r][i] = 0
    BY <1>3, <1>4, <1>8, <1>9 DEF DoneBy
  <2>2. CASE done' = done
    BY <1>1, <1>2, <1>3, <2>1, <2>2 DEF DoneBy
  <2>3. CASE what = Stored(r, i) /\ done' = [done EXCEPT ![r][i] = @ + 1]
    <3>1. done'[r] = [done[r] EXCEPT ![i] = done[r][i] + 1]
      BY <1>2, <2>3
    <3>2. /\ done'[r] \in [Indices(r) -> Nat] /\ done'[r][i] = 1
          /\ \A k \in Indices(r) : k # i => done'[r][k] = done[r][k]
      BY <1>3, <1>4, <2>1, <3>1
    <3>3. DoneBy(r)' = DoneBy(r) \cup {i}
      BY <1>1, <1>4, <2>1, <3>2 DEF DoneBy
    <3> QED
      BY <2>3, <3>2, <3>3
  <2> QED
    BY <2>2, <2>3
<1>11. \A k \in Indices(r) : k <= i => {j \in DoneBy(r)' : j < k} = {j \in DoneBy(r) : j < k}
  BY <1>1, <1>4, <1>10
<1>12. DoneSays(r)'
  <2>1. ASSUME NEW k \in DoneBy(r)' PROVE k \in Written(r)' /\ brought'[r][k].what = Stored(r, k)'
    BY <1>1, <1>2, <1>7, <1>8, <1>9, <1>10 DEF DoneSays
  <2>2. ASSUME NEW k \in Written(r)' PROVE brought'[r][k].saw = {j \in DoneBy(r)' : j < k}
    <3>1. CASE k = i
      <4>1. {j \in DoneBy(r) : j < i} = DoneBy(r)
        BY <1>5, <1>9
      <4> QED
        BY <1>1, <1>4, <1>7, <1>11, <3>1, <4>1
    <3>2. CASE k # i
      <4>1. k \in Written(r) /\ k \in Indices(r) /\ k < i
        BY <1>5, <1>8, <1>9, <3>2
      <4>2. brought[r][k].saw = {j \in DoneBy(r) : j < k}
        BY <1>2, <4>1 DEF DoneSays
      <4> QED
        BY <1>1, <1>4, <1>7, <1>11, <3>2, <4>1, <4>2
    <3> QED
      BY <3>1, <3>2
  <2>3. ASSUME NEW j \in Written(r)', NEW k \in Indices(r), req[r].first <= k, k <= j
        PROVE  k \in Written(r)'
    <3>1. j = i \/ j < i
      BY <1>5, <1>8
    <3>2. j \in Nat /\ i \in Nat /\ k \in Nat
      BY <1>1, <1>4, <1>8, <1>9
    <3>3. k = i \/ k < i
      BY <2>3, <3>1, <3>2
    <3> QED
      BY <1>5, <1>8, <2>3, <3>3
  <2>4. ASSUME NEW k \in DoneBy(r)', req[r].first <= k, Kind(r, k) = "after"
        PROVE  k = req[r].first /\ k > 1 /\ resp[r][k - 1].st = "ok"
    <3>1. CASE k = i
      <4>1. i > 1 /\ resp[r][i - 1].st = "ok"
        BY <1>5, <2>4, <3>1
      <4>2. i - 1 \in Indices(r)
        BY <1>1, <1>4, <4>1, Calls DEF CallInv
      <4>3. ~(req[r].first <= i - 1)
        BY <1>1, <1>4, <1>5, <4>1, <4>2
      <4> QED
        BY <1>1, <1>4, <1>5, <3>1, <4>1, <4>3
    <3>2. CASE k # i
      BY <1>2, <1>10, <2>4, <3>2 DEF DoneSays
    <3> QED
      BY <3>1, <3>2
  <2> QED
    BY <1>1, <2>1, <2>2, <2>3, <2>4 DEF DoneSays
<1>13. \A k \in Indices(r)' : k < req'[r].first => Settled(r, k)'
  <2>1. ASSUME NEW k \in Indices(r), k < req[r].first PROVE Settled(r, k)'
    <3>1. k # i /\ k <= i /\ Settled(r, k)
      BY <1>1, <1>2, <1>4, <1>5, <2>1
    <3> QED
      BY <1>10, <1>11, <3>1 DEF Settled
  <2> QED
    BY <1>1, <2>1
<1>14. RowSays(r)'
  <2>1. 1 <= req'[r].first /\ req'[r].first <= req'[r].row
    BY <1>1, <1>4, <1>5
  <2>2. \A k \in Indices(r)' : req'[r].first <= k /\ k < req'[r].row =>
          k \in Written(r)' /\ resp'[r][k].st = "unavailable"
    BY <1>1, <1>4, <1>5, <1>8
  <2>3. \A j \in Written(r)' : j < req'[r].row
    BY <1>1, <1>4, <1>5, <1>8, <1>9
  <2>4. \A k \in needs'[r] :
          /\ req'[r].first <= k /\ resp'[r][k].st = "unavailable"
          /\ Kind(r, k)' = "after" => k > 1 /\ resp'[r][k - 1].st = "ok"
    BY <1>1, <1>2 DEF RowSays
  <2> QED
    BY <2>1, <2>2, <2>3, <2>4 DEF RowSays
<1>15. HandSays(r)'
  BY <1>12, <1>13, <1>14 DEF HandSays
<1>16. \A k \in Indices(r)' : done'[r][k] <= 1
  BY <1>1, <1>2, <1>10
<1> QED
  BY <1>1, <1>10, <1>15, <1>16 DEF CallSays

\* A write of the row is done, left undone, or ends the request.
LEMMA BringWriteCalls ==
    ASSUME CallInv, NEW r \in Owners, BringWrite(r) PROVE CallInv'
<1> DEFINE i == InRow(r)
<1>1. /\ req[r].pc = "bring" /\ InHand(r) /\ i = req[r].row /\ i \in needs[r]
      /\ Kind(r, i) \in Writes /\ Kind(r, i) \notin Submits
      /\ calls' = calls /\ resp' = resp /\ task' = task
  BY DEF BringWrite, InRow, InHand, sending
<1>2. SendInv'
  BY BringWriteKeeps DEF CallInv
<1>3. req \in [Owners -> Stands] /\ needs \in [Owners -> SUBSET Nat] /\ DOMAIN brought = Owners
  BY DEF CallInv, SendInv, SendType
<1> HIDE DEF i
<1>4. ASSUME NEW what, Gift(r, i, what), needs' = [needs EXCEPT ![r] = @ \ {i}], req' = AfterRow(r),
             \/ what = "rows" /\ done' = done
             \/ what = "written" /\ done' = [done EXCEPT ![r][i] = @ + 1]
      PROVE  CallInv'
  <2>1. /\ req'[r].pc = "bring" /\ req'[r].row = i + 1 /\ req'[r].first = req[r].first
        /\ needs'[r] = needs[r] \ {i}
        /\ \A o \in Owners : o # r => req'[o] = req[o] /\ needs'[o] = needs[o]
    BY <1>1, <1>3, <1>4 DEF AfterRow, Stands, i
  <2>2. /\ DOMAIN done' = DOMAIN done
        /\ \A o \in Owners : o # r => done'[o] = done[o] /\ brought'[o] = brought[o]
    BY <1>3, <1>4 DEF Gift, CallInv
  <2>3. Stored(r, i) = "written"
    BY <1>1 DEF Stored
  <2>4. done'[r] \in [Indices(r)' -> Nat] /\ CallSays(r)'
    BY <1>1, <1>4, <2>1, <2>3, TakesGift
  <2> QED
    BY <1>1, <1>2, <2>1, <2>2, <2>4, OneStep DEF OthersStay
<1>5. ASSUME req' = [req EXCEPT ![r].pc = "failed"], UNCHANGED <<done, brought, needs>>
      PROVE  CallInv'
  <2>1. req'[r].pc = "failed" /\ \A o \in Owners : o # r => req'[o] = req[o]
    BY <1>3, <1>5 DEF Stands
  <2>2. done'[r] \in [Indices(r)' -> Nat] /\ CallSays(r)'
    BY <1>1, <1>5, <2>1, Rests DEF InHand
  <2> QED
    BY <1>1, <1>2, <1>5, <2>1, <2>2, OneStep DEF OthersStay
<1> QED
  BY <1>4, <1>5 DEF BringWrite, i

\* The request takes the outcome of its submission.
LEMMA TakeOutcomeCalls ==
    ASSUME CallInv, NEW r \in Owners, TakeOutcome(r) PROVE CallInv'
<1> DEFINE i == task[r].call
<1>1. /\ ~req[r].gone /\ task[r].pc = "ended" /\ calls' = calls /\ resp' = resp
      /\ task' = [task EXCEPT ![r] = NoTask]
  BY DEF TakeOutcome, At
<1>2. SendInv'
  BY TakeOutcomeKeeps DEF CallInv
<1>3. /\ req \in [Owners -> Stands] /\ needs \in [Owners -> SUBSET Nat] /\ DOMAIN brought = Owners
      /\ DOMAIN task = Owners
  BY DEF CallInv, SendInv, SendType
<1>4. req[r].pc = "send" /\ Kind(r, i) \in Submits
  BY <1>1 DEF CallInv, SendInv, StandSays, TaskSays
<1>5. InHand(r) /\ i = req[r].row /\ i \in needs[r] /\ Kind(r, i) \in Writes
  <2>1. InHand(r)
    BY <1>1, <1>4 DEF InHand
  <2> QED
    BY <1>4, <2>1 DEF CallInv, CallSays, HandSays, Submits, Writes
<1>6. \A o \in Owners : o # r => task'[o] = task[o]
  BY <1>1, <1>3
<1> HIDE DEF i
<1>7. CASE Failed(r)
  <2>1. req' = [req EXCEPT ![r].pc = "failed"] /\ UNCHANGED <<needs, brought, done>>
    BY <1>7 DEF TakeOutcome
  <2>2. req'[r].pc = "failed" /\ \A o \in Owners : o # r => req'[o] = req[o]
    BY <1>3, <2>1 DEF Stands
  <2>3. done'[r] \in [Indices(r)' -> Nat] /\ CallSays(r)'
    BY <1>1, <2>1, <2>2, Rests DEF InHand
  <2> QED
    BY <1>1, <1>2, <1>6, <2>1, <2>2, <2>3, OneStep DEF OthersStay
<1>8. CASE ~Failed(r)
  <2>1. /\ Gift(r, i, "submitted") /\ done' = [done EXCEPT ![r][i] = @ + 1]
        /\ needs' = [needs EXCEPT ![r] = @ \ {i}]
        /\ req' = [req EXCEPT ![r].pc = "bring", ![r].row = i + 1]
    BY <1>8 DEF TakeOutcome, i
  <2>2. /\ req'[r].pc = "bring" /\ req'[r].row = i + 1 /\ req'[r].first = req[r].first
        /\ needs'[r] = needs[r] \ {i}
        /\ \A o \in Owners : o # r => req'[o] = req[o] /\ needs'[o] = needs[o]
    BY <1>3, <2>1 DEF Stands
  <2>3. /\ DOMAIN done' = DOMAIN done
        /\ \A o \in Owners : o # r => done'[o] = done[o] /\ brought'[o] = brought[o]
    BY <1>3, <2>1 DEF Gift, CallInv
  <2>4. Stored(r, i) = "submitted"
    BY <1>4 DEF Stored, i
  <2>5. done'[r] \in [Indices(r)' -> Nat] /\ CallSays(r)'
    BY <1>1, <1>4, <1>5, <2>1, <2>2, <2>4, TakesGift
  <2> QED
    BY <1>1, <1>2, <1>6, <2>2, <2>3, <2>5, OneStep DEF OthersStay
<1> QED
  BY <1>7, <1>8

\* A submission is handed to a task of its own.
LEMMA BringSubmitCalls ==
    ASSUME CallInv, NEW r \in Owners, BringSubmit(r) PROVE CallInv'
<1> DEFINE i == InRow(r)
<1>1. /\ req[r].pc = "bring" /\ InHand(r) /\ i = req[r].row /\ i \in needs[r]
      /\ UNCHANGED <<calls, resp, needs, brought, done>>
      /\ req' = [req EXCEPT ![r].pc = "send"]
      /\ task' = [task EXCEPT ![r] = [pc |-> "turn", call |-> i, create |-> 1,
                                      got |-> <<>>, wentOut |-> FALSE]]
  BY DEF BringSubmit, InRow, InHand, history
<1> HIDE DEF i
<1>2. SendInv'
  BY BringSubmitKeeps DEF CallInv
<1>3. req \in [Owners -> Stands] /\ DOMAIN task = Owners
  BY DEF CallInv, SendInv, SendType
<1>4. /\ req'[r].pc = "send" /\ req'[r].row = req[r].row /\ req'[r].first = req[r].first
      /\ task'[r].pc = "turn" /\ task'[r].call = i
      /\ \A o \in Owners : o # r => req'[o] = req[o] /\ task'[o] = task[o]
  BY <1>1, <1>3 DEF Stands
<1>5. /\ Indices(r)' = Indices(r) /\ DoneBy(r)' = DoneBy(r) /\ Written(r)' = Written(r)
      /\ \A k : Kind(r, k)' = Kind(r, k) /\ Stored(r, k)' = Stored(r, k)
  BY <1>1, CallsSame DEF DoneBy, Written, Gifted, Writes
<1>6. CallSays(r) /\ HandSays(r) /\ DoneSays(r) /\ RowSays(r)
  BY <1>1 DEF CallInv, CallSays, HandSays
<1>7. DoneSays(r)' /\ RowSays(r)'
  BY <1>1, <1>4, <1>5, <1>6 DEF DoneSays, RowSays
<1>8. \A k \in Indices(r) : Settled(r, k)' <=> Settled(r, k)
  BY <1>1, <1>5 DEF Settled
<1>9. HandSays(r)'
  BY <1>1, <1>4, <1>5, <1>6, <1>7, <1>8 DEF HandSays
<1>10. CallSays(r)' /\ done'[r] \in [Indices(r)' -> Nat]
  BY <1>1, <1>4, <1>5, <1>6, <1>9 DEF CallSays, CallInv
<1> QED
  BY <1>1, <1>2, <1>4, <1>10, OneStep DEF OthersStay

-----------------------------------------------------------------------------
(* A pass over the calls *)

\* The values of a step at each position after the first, from the value
\* before it.
StepsOver(n, V) == [(1..n) \X V -> V]

\* The function with a value at zero and a step to every later position.
Computes(f, n, V, base, step) ==
    /\ f \in [0..n -> V]
    /\ f[0] = base
    /\ \A i \in 1..n : f[i] = step[<<i, f[i - 1]>>]

\* A value at zero and a step to every later position make a function.
LEMMA Recursion ==
    ASSUME NEW n \in Nat, NEW V, NEW base \in V, NEW step \in StepsOver(n, V)
    PROVE  \E f : Computes(f, n, V, base, step)
<1> USE DEF StepsOver
<1> DEFINE Good(k, f) == f[0] = base /\ \A i \in 1..k : f[i] = step[<<i, f[i - 1]>>]
<1> DEFINE S == {k \in 0..n : \E f \in [0..k -> V] : Good(k, f)}
<1>1. 0 \in S
  <2> DEFINE f == [i \in 0..0 |-> base]
  <2>1. f \in [0..0 -> V] /\ Good(0, f)
    OBVIOUS
  <2> HIDE DEF f
  <2>2. 0 \in 0..n
    OBVIOUS
  <2> QED
    BY <2>1, <2>2
<1>2. ASSUME NEW k \in 0..n, k # n, k \in S PROVE k + 1 \in S
  <2>1. PICK f \in [0..k -> V] : Good(k, f)
    BY <1>2
  <2> DEFINE g == [i \in 0..(k + 1) |-> IF i = k + 1 THEN step[<<k + 1, f[k]>>] ELSE f[i]]
  <2>2. g \in [0..(k + 1) -> V]
    BY <1>2
  <2>3. g[k + 1] = step[<<k + 1, f[k]>>] /\ \A i \in 0..k : g[i] = f[i]
    OBVIOUS
  <2> HIDE DEF g
  <2>4. ASSUME NEW i \in 1..(k + 1) PROVE g[i] = step[<<i, g[i - 1]>>]
    <3>1. CASE i = k + 1
      <4>1. i - 1 = k /\ k \in 0..k
        BY <3>1
      <4>2. g[k] = f[k]
        BY <2>3, <4>1
      <4> QED
        BY <3>1, <4>1, <4>2, <2>3
    <3>2. CASE i # k + 1
      <4>1. i \in 1..k /\ i \in 0..k /\ i - 1 \in 0..k
        BY <3>2
      <4>2. f[i] = step[<<i, f[i - 1]>>]
        BY <4>1, <2>1
      <4> QED
        BY <4>1, <4>2, <2>3
    <3> QED
      BY <3>1, <3>2
  <2>5. g[0] = base
    BY <2>1, <2>3
  <2>6. k + 1 \in 0..n
    BY <1>2
  <2> QED
    BY <2>2, <2>4, <2>5, <2>6
<1>3. n \in S
  <2> HIDE DEF S
  <2> SUFFICES ASSUME n \notin S PROVE FALSE
    OBVIOUS
  <2>1. PICK x \in 0..n \ S : \A y \in 0..n \ S : x <= y
    <3>1. 0..n \ S \in SUBSET Nat /\ 0..n \ S # {}
      OBVIOUS
    <3> QED
      BY <3>1, SmallestInNat
  <2>2. x \in 0..n /\ x # 0 /\ x \notin S
    BY <1>1, <2>1
  <2>3. x - 1 \in 0..n /\ x - 1 # n /\ (x - 1) + 1 = x /\ ~(x <= x - 1)
    BY <2>2
  <2>4. x - 1 \in S
    BY <2>1, <2>3
  <2> QED
    BY <1>2, <2>2, <2>3, <2>4
<1>4. PICK f \in [0..n -> V] : Good(n, f)
  BY <1>3
<1>5. Computes(f, n, V, base, step)
  BY <1>4 DEF Computes
<1> QED
  BY <1>5

\* The answer of each call of a pass: one before the first call to run again
\* stands, every other is read with the answer before it.
LEMMA AnswersAre ==
    ASSUME SendInv, NEW r \in Owners
    PROVE  \A i \in Indices(r) :
             Answers(r)[i] = IF i < req[r].first THEN resp[r][i]
                             ELSE AnswerOf(r, i, IF i = 1 THEN NoAnswer ELSE Answers(r)[i - 1])
<1> DEFINE n == Len(calls[r])
           Value(i, before) ==
             IF i < req[r].first THEN resp[r][i] ELSE AnswerOf(r, i, before)
           found(i) == IF Kind(r, i) = "query" THEN brought[r][i].saw ELSE {}
           answered(i) ==
             [st |-> StateOf(r, i), found |-> found(i),
              saw |-> IF Kind(r, i) \in Writes THEN brought[r][i].saw ELSE DoneBy(r)]
           refused(i) == [st |-> "error", found |-> found(i), saw |-> DoneBy(r)]
           V == {NoAnswer} \cup {resp[r][i] : i \in 1..n}
                  \cup {answered(i) : i \in 1..n} \cup {refused(i) : i \in 1..n}
           step == [p \in (1..n) \X V |-> Value(p[1], p[2])]
           g == CHOOSE g : g = [i \in 0..n |-> IF i = 0 THEN NoAnswer
                                               ELSE IF i < req[r].first THEN resp[r][i]
                                               ELSE AnswerOf(r, i, g[i - 1])]
<1>1. n \in Nat /\ Indices(r) = 1..n
  BY Calls
<1>2. \A i \in 1..n, b \in V : Value(i, b) \in V
  BY DEF AnswerOf
<1>3. NoAnswer \in V
  OBVIOUS
<1> HIDE DEF V, Value, n
<1>4. step \in [(1..n) \X V -> V] /\ \A i \in 1..n, b \in V : step[<<i, b>>] = Value(i, b)
  BY <1>2
<1> HIDE DEF step
<1>5. PICK f : Computes(f, n, V, NoAnswer, step)
  <2>1. n \in Nat /\ step \in StepsOver(n, V)
    BY <1>1, <1>4 DEF StepsOver
  <2> QED
    BY <1>3, <2>1, Recursion
<1>6. \A i \in 1..n : f[i] = Value(i, f[i - 1])
  <2>1. \A i \in 1..n : i - 1 \in 0..n
    BY <1>1
  <2> QED
    BY <1>4, <1>5, <2>1 DEF Computes
<1>7. f = [i \in 0..n |-> IF i = 0 THEN NoAnswer
                          ELSE IF i < req[r].first THEN resp[r][i] ELSE AnswerOf(r, i, f[i - 1])]
  <2>1. \A i \in 0..n : f[i] = IF i = 0 THEN NoAnswer
                               ELSE IF i < req[r].first THEN resp[r][i] ELSE AnswerOf(r, i, f[i - 1])
    <3>1. \A i \in 0..n : i # 0 => i \in 1..n
      BY <1>1
    <3> QED
      BY <1>5, <1>6, <3>1 DEF Value, Computes
  <2> QED
    BY <1>5, <2>1 DEF Computes
<1>8. g = [i \in 0..n |-> IF i = 0 THEN NoAnswer
                          ELSE IF i < req[r].first THEN resp[r][i] ELSE AnswerOf(r, i, g[i - 1])]
  BY <1>7, Zenon
<1>9. Answers(r) = [i \in Indices(r) |-> g[i]]
  BY Zenon DEF Answers, n, g
<1> HIDE DEF g
<1>10. ASSUME NEW i \in Indices(r)
       PROVE  Answers(r)[i] = IF i < req[r].first THEN resp[r][i]
                              ELSE AnswerOf(r, i, IF i = 1 THEN NoAnswer ELSE Answers(r)[i - 1])
  <2>1. i \in 1..n /\ i \in 0..n /\ i # 0 /\ 0 \in 0..n
    BY <1>1
  <2>2. g[i] = (IF i < req[r].first THEN resp[r][i] ELSE AnswerOf(r, i, g[i - 1])) /\ g[0] = NoAnswer
    BY <1>8, <2>1
  <2>3. Answers(r)[i] = g[i]
    BY <1>9
  <2>4. g[i - 1] = IF i = 1 THEN NoAnswer ELSE Answers(r)[i - 1]
    <3>1. CASE i = 1
      BY <2>2, <3>1
    <3>2. CASE i # 1
      <4>1. i - 1 \in Indices(r)
        BY <1>1, <2>1, <3>2
      <4> QED
        BY <1>9, <3>2, <4>1
    <3> QED
      BY <3>1, <3>2
  <2> QED
    BY <2>2, <2>3, <2>4
<1> QED
  BY <1>10

\* What a call answers with what was brought for it.
LEMMA StateIs ==
    ASSUME NEW r, NEW i
    PROVE  /\ StateOf(r, i) # "error"
           /\ Kind(r, i) \in Writes =>
                StateOf(r, i) = IF brought[r][i].what = Stored(r, i) THEN "ok" ELSE "unavailable"
<1>1. CASE Kind(r, i) \in Writes
  <2>1. Kind(r, i) \notin {"changes", "query"} \cup Bodied
    BY <1>1 DEF Writes, Bodied
  <2>2. CASE Kind(r, i) \in Submits
    BY <2>1, <2>2 DEF StateOf, Stored, Bodied
  <2>3. CASE Kind(r, i) \notin Submits
    BY <2>1, <2>3 DEF StateOf, Stored, Bodied
  <2> QED
    BY <2>2, <2>3
<1>2. StateOf(r, i) # "error"
  BY DEF StateOf
<1> QED
  BY <1>1, <1>2

\* Each answer of a pass stands: it was read from the writes before its call
\* and no other, and says so of a write that was done.
LEMMA PassSettles ==
    ASSUME CallInv, NEW r \in Owners, InHand(r), NEW i \in Indices(r)
    PROVE  /\ Answers(r)[i].st = "ok" => Answers(r)[i].saw \ {i} = {j \in DoneBy(r) : j < i}
           /\ done[r][i] > 0 => Answers(r)[i].st = "ok"
<1> DEFINE before == IF i = 1 THEN NoAnswer ELSE Answers(r)[i - 1]
<1>1. HandSays(r) /\ DoneSays(r)
  BY DEF CallInv, CallSays, HandSays
<1>2. Indices(r) \subseteq Nat /\ i \in Nat /\ i >= 1 /\ req[r].first \in Nat /\ Kind(r, i) \in Kinds
  BY Calls, StandType DEF CallInv
<1>3. CASE i < req[r].first
  <2>1. Answers(r)[i] = resp[r][i]
    BY <1>3, AnswersAre DEF CallInv
  <2>2. Settled(r, i)
    BY <1>1, <1>3 DEF HandSays
  <2> QED
    BY <2>1, <2>2 DEF Settled
<1>4. CASE ~(i < req[r].first)
  <2>1. Answers(r)[i] = AnswerOf(r, i, before)
    BY <1>4, AnswersAre DEF CallInv
  <2> HIDE DEF before
  <2>2. ASSUME Answers(r)[i].st = "ok"
        PROVE  Answers(r)[i].saw \ {i} = {j \in DoneBy(r) : j < i}
    <3>1. /\ StateOf(r, i) = "ok"
          /\ Answers(r)[i].saw = IF Kind(r, i) \in Writes THEN brought[r][i].saw ELSE DoneBy(r)
      BY <2>1, <2>2 DEF AnswerOf
    <3>2. CASE Kind(r, i) \in Writes
      <4>1. brought[r][i].what = Stored(r, i)
        BY <3>1, <3>2, StateIs
      <4>2. i \in Written(r)
        BY <3>2, <4>1 DEF Written, Gifted, Stored
      <4>3. brought[r][i].saw = {j \in DoneBy(r) : j < i}
        BY <1>1, <4>2 DEF DoneSays
      <4> QED
        BY <1>2, <3>1, <3>2, <4>3
    <3>3. CASE Kind(r, i) \notin Writes
      <4>1. \A j \in DoneBy(r) : j \in Written(r) /\ j \in Nat
        BY <1>1, <1>2 DEF DoneSays, Written
      <4>2. \A j \in Written(r) : req[r].first <= i /\ i <= j => i \in Written(r)
        BY <1>1 DEF DoneSays
      <4>3. i \notin Written(r)
        BY <3>3 DEF Written
      <4>4. \A j \in DoneBy(r) : j < i
        BY <1>2, <1>4, <4>1, <4>2, <4>3
      <4> QED
        BY <1>2, <3>1, <3>3, <4>4
    <3> QED
      BY <3>2, <3>3
  <2>3. ASSUME done[r][i] > 0 PROVE Answers(r)[i].st = "ok"
    <3>1. i \in DoneBy(r) /\ i \in Written(r) /\ brought[r][i].what = Stored(r, i) /\ Kind(r, i) \in Writes
      BY <1>1, <2>3 DEF DoneBy, DoneSays, Written
    <3>2. StateOf(r, i) = "ok"
      BY <3>1, StateIs
    <3>3. InState(r, i)
      BY <3>1 DEF InState, Written, Gifted
    <3>4. ASSUME Kind(r, i) \in Refers PROVE before.st = "ok"
      <4>1. Kind(r, i) = "after"
        BY <3>1, <3>4 DEF Refers, Writes
      <4>2. i = req[r].first /\ i > 1 /\ resp[r][i - 1].st = "ok"
        BY <1>1, <1>2, <1>4, <3>1, <4>1 DEF DoneSays
      <4>3. i - 1 \in Indices(r) /\ i - 1 < req[r].first
        BY <1>2, <4>2, Calls DEF CallInv
      <4>4. Answers(r)[i - 1] = resp[r][i - 1]
        BY <4>3, AnswersAre DEF CallInv
      <4> QED
        BY <1>2, <4>2, <4>4 DEF before
    <3> QED
      BY <2>1, <3>2, <3>3, <3>4 DEF AnswerOf, Resolves
  <2> QED
    BY <2>2, <2>3
<1> QED
  BY <1>3, <1>4

\* A pass: what it leaves open lies behind every write that has its outcome.
LEMMA PassCalls ==
    ASSUME CallInv, NEW r \in Owners, Pass(r) PROVE CallInv'
<1> DEFINE open == Left(r, Answers(r))
           more == open # {} /\ req[r].pass < MAX_PASSES
           m == Min(open)
<1>1. /\ req[r].pc = "pass" /\ InHand(r)
      /\ resp' = [resp EXCEPT ![r] = Answers(r)]
      /\ needs' = [needs EXCEPT ![r] = IF more THEN open ELSE {}]
      /\ req' = [req EXCEPT ![r].pc = IF more THEN "bring" ELSE "done",
                            ![r].row = IF more THEN m ELSE 0,
                            ![r].first = IF more THEN m ELSE 0]
      /\ UNCHANGED <<calls, brought, task, done>>
  BY DEF Pass, InHand, sending, history
<1>2. SendInv'
  BY PassKeeps DEF CallInv
<1>3. \A i \in open : /\ i \in Indices(r) /\ req[r].first <= i
                      /\ Answers(r)[i].st = "unavailable" /\ brought[r][i].what = "none"
  BY DEF Left, Asks
<1>4. /\ req \in [Owners -> Stands] /\ needs \in [Owners -> SUBSET Nat]
      /\ DOMAIN resp = Owners /\ done[r] \in [Indices(r) -> Nat]
      /\ Indices(r) = 1..Len(calls[r]) /\ Len(calls[r]) \in Nat
      /\ \A i \in Indices(r) : done[r][i] <= 1
      /\ DoneSays(r) /\ req[r].first \in Nat
  BY <1>1, Calls, StandType DEF CallInv, CallSays, HandSays, SendInv, SendType
<1> HIDE DEF open
<1>5. /\ Indices(r)' = Indices(r) /\ DoneBy(r)' = DoneBy(r) /\ Written(r)' = Written(r)
      /\ \A k : Kind(r, k)' = Kind(r, k) /\ Stored(r, k)' = Stored(r, k)
  BY <1>1, CallsSame DEF DoneBy, Written, Gifted, Writes
<1>6. resp'[r] = Answers(r) /\ \A o \in Owners : o # r =>
         resp'[o] = resp[o] /\ needs'[o] = needs[o] /\ req'[o] = req[o]
  BY <1>1, <1>4
<1>7. ASSUME NEW i \in Indices(r) PROVE Settled(r, i)'
  <2>1. /\ Answers(r)[i].st = "ok" => Answers(r)[i].saw \ {i} = {j \in DoneBy(r) : j < i}
        /\ done[r][i] > 0 => Answers(r)[i].st = "ok"
    BY <1>1, PassSettles
  <2> QED
    BY <1>1, <1>5, <1>6, <2>1 DEF Settled
<1>8. CASE ~more
  <2>1. req'[r].pc = "done"
    BY <1>1, <1>4, <1>8 DEF Stands
  <2>2. CallSays(r)' /\ done'[r] \in [Indices(r)' -> Nat]
    BY <1>1, <1>4, <1>5, <1>7, <2>1 DEF CallSays, InHand
  <2> QED
    BY <1>1, <1>2, <1>6, <2>2, OneStep DEF OthersStay
<1>9. CASE more
  <2>1. /\ req'[r].pc = "bring" /\ req'[r].row = m /\ req'[r].first = m
        /\ needs'[r] = open
    BY <1>1, <1>4, <1>9 DEF Stands
  <2>2. m \in open /\ \A i \in open : m <= i
    <3>1. open \in SUBSET Nat /\ open # {}
      BY <1>3, <1>4, <1>9
    <3>2. \E x \in open : \A y \in open : x <= y
      BY <3>1, SmallestInNat
    <3> QED
      BY <3>2, Zenon DEF Min
  <2> HIDE DEF m, more
  <2>3. m \in Indices(r) /\ m \in Nat /\ req[r].first <= m /\ m \notin Written(r)
    BY <1>3, <1>4, <2>2 DEF Written, Gifted
  <2>4. \A j \in Written(r) : j < m
    <3>1. \A j \in Written(r) : m <= j => m \in Written(r)
      BY <1>4, <2>3 DEF DoneSays
    <3>2. \A j \in Written(r) : j \in Nat
      BY <1>4 DEF Written
    <3> QED
      BY <2>3, <3>1, <3>2
  <2>5. \A j \in Written(r) : ~(m <= j)
    <3>1. \A j \in Written(r) : j \in Nat
      BY <1>4 DEF Written
    <3> QED
      BY <2>3, <2>4, <3>1
  <2>6. DoneSays(r)'
    <3>1. DoneBy(r) \subseteq Written(r)
      BY <1>4 DEF DoneSays
    <3>2. \A j \in Written(r), i \in Indices(r) : ~(m <= i /\ i <= j)
      <4>1. \A j \in Written(r), i \in Indices(r) : i \in Nat /\ j \in Nat
        BY <1>4 DEF Written
      <4> QED
        BY <2>3, <2>5, <4>1
    <3> QED
      BY <1>1, <1>4, <1>5, <2>1, <2>5, <3>1, <3>2 DEF DoneSays
  <2>7. ASSUME NEW i \in open, Kind(r, i) = "after" PROVE i > 1 /\ Answers(r)[i - 1].st = "ok"
    <3> DEFINE before == IF i = 1 THEN NoAnswer ELSE Answers(r)[i - 1]
    <3>1. i \in Indices(r) /\ req[r].first <= i /\ Answers(r)[i].st = "unavailable" /\ i \in Nat /\ i >= 1
      BY <1>3, <1>4
    <3>2. Answers(r)[i] = AnswerOf(r, i, before)
      BY <1>4, <3>1, AnswersAre DEF CallInv
    <3> HIDE DEF before
    <3>3. Resolves(r, i, before)
      BY <3>1, <3>2 DEF AnswerOf
    <3>4. before.st = "ok"
      BY <2>7, <3>3 DEF Resolves, Refers
    <3>5. i # 1
      BY <3>4 DEF before, NoAnswer
    <3> QED
      BY <3>1, <3>4, <3>5 DEF before
  <2>8. RowSays(r)'
    <3>1. \A i \in Indices(r) : ~(m <= i /\ i < m)
      BY <1>4, <2>3
    <3> QED
      BY <1>1, <1>3, <1>4, <1>5, <1>6, <2>1, <2>2, <2>3, <2>4, <2>7, <3>1 DEF RowSays
  <2>9. HandSays(r)'
    BY <1>5, <1>7, <2>1, <2>6, <2>8 DEF HandSays
  <2>10. CallSays(r)' /\ done'[r] \in [Indices(r)' -> Nat]
    BY <1>1, <1>4, <1>5, <2>1, <2>9 DEF CallSays
  <2> QED
    BY <1>1, <1>2, <1>6, <2>10, OneStep DEF OthersStay
<1> QED
  BY <1>8, <1>9

-----------------------------------------------------------------------------
(* Every other step *)

\* A request that goes on to a place where no write is taken.
LEMMA GoesToRest ==
    ASSUME CallInv, SendInv', NEW r \in Owners, UNCHANGED <<calls, resp, done, task>>,
           \A o \in Owners : o # r =>
             req'[o] = req[o] /\ needs'[o] = needs[o] /\ brought'[o] = brought[o],
           req'[r].pc # "done",
           InHand(r)' => /\ InHand(r) /\ req'[r].first = req[r].first
                         /\ req'[r].pc \notin {"bring", "send"}
                         /\ \A i \in Indices(r) : Kind(r, i) \in Writes => brought'[r][i] = brought[r][i]
    PROVE  CallInv'
<1>1. done'[r] \in [Indices(r)' -> Nat] /\ CallSays(r)'
  BY Rests
<1>2. OthersStay(r)
  BY DEF OthersStay
<1> QED
  BY <1>1, <1>2, OneStep

\* The parts of the records of requests and of what they have, by request.
LEMMA ByRequest ==
    ASSUME CallInv
    PROVE  /\ req \in [Owners -> Stands] /\ needs \in [Owners -> SUBSET Nat]
           /\ DOMAIN brought = Owners /\ DOMAIN task = Owners
           /\ \A o \in Owners : DOMAIN brought[o] = Indices(o) /\ task[o] \in Tasks
BY DEF CallInv, SendInv, SendType

\* A request that changes its place alone.
LEMMA PlaceMoves ==
    ASSUME CallInv, SendInv', NEW r \in Owners, UNCHANGED <<calls, resp, done, task, brought>>,
           NEW p, req' = [req EXCEPT ![r].pc = p], p \notin {"bring", "send", "done"},
           \A o \in Owners : o # r => needs'[o] = needs[o],
           ~req[r].gone /\ p # "failed" => InHand(r)
    PROVE  CallInv'
<1>1. /\ req'[r].pc = p /\ req'[r].first = req[r].first /\ req'[r].gone = req[r].gone
      /\ \A o \in Owners : o # r => req'[o] = req[o]
  BY ByRequest DEF Stands
<1> QED
  BY <1>1, GoesToRest DEF InHand

\* A request starts, ends its row, and begins its fills.
LEMMA PlaceCalls ==
    ASSUME CallInv, NEW r \in Owners,
           Begin(r) \/ EndRow(r) \/ BringPreviews(r) \/ BringBodies(r)
    PROVE  CallInv'
<1>1. SendInv'
  BY BeginKeeps, EndRowKeeps, BringFillKeeps DEF CallInv
<1>2. /\ UNCHANGED <<calls, resp, done, task, brought>> /\ InHand(r)
      /\ \E p \in {"pass", "failed", "previews", "bodies", "fill", "search"} :
           req' = [req EXCEPT ![r].pc = p]
  BY DEF Begin, EndRow, BringPreviews, BringBodies, InHand, sending, history
<1>3. \A o \in Owners : o # r => needs'[o] = needs[o]
  BY ByRequest DEF Begin, EndRow, BringPreviews, BringBodies
<1> QED
  BY <1>1, <1>2, <1>3, PlaceMoves

\* Nothing of the calls of any request moves but the tasks.
LEMMA TasksMove ==
    ASSUME CallInv, SendInv', UNCHANGED <<calls, resp, done, req, needs, brought>>,
           \A o \in Owners : InHand(o) /\ task[o].pc # "idle" =>
             task'[o].pc # "idle" /\ task'[o].call = task[o].call
    PROVE  CallInv'
<1>1. ASSUME NEW o \in Owners PROVE done'[o] \in [Indices(o)' -> Nat] /\ CallSays(o)'
  BY TaskGoes
<1> QED
  BY <1>1 DEF CallInv

\* A fill goes on, and may end the request.
LEMMA FillsCalls ==
    ASSUME CallInv, NEW r \in Owners, Fills(r) PROVE CallInv'
<1>1. SendInv'
  BY FillsKeeps DEF CallInv
<1>2. UNCHANGED <<calls, resp, done, task, brought, needs>>
  BY DEF Fills, sending, history
<1>3. CASE UNCHANGED req
  BY <1>1, <1>2, <1>3, TasksMove
<1>4. CASE req' = [req EXCEPT ![r].pc = "failed"]
  <2>1. req'[r].pc = "failed" /\ \A o \in Owners : o # r => req'[o] = req[o]
    BY <1>4, ByRequest DEF Stands
  <2> QED
    BY <1>1, <1>2, <2>1, GoesToRest DEF InHand
<1> QED
  BY <1>3, <1>4 DEF Fills

\* The bodies of a fill, or the hits of the searches, are brought: for no write.
LEMMA BroughtCalls ==
    ASSUME CallInv, NEW r \in Owners, EndFill(r) \/ BringSearch(r) PROVE CallInv'
<1>1. SendInv'
  BY EndFillKeeps, BringSearchKeeps DEF CallInv
<1>2. UNCHANGED <<calls, resp, done, task>> /\ InHand(r)
  BY DEF EndFill, BringSearch, InHand, sending, history
<1>3. /\ req'[r].pc \in {"bodies", "search", "pass"} /\ req'[r].first = req[r].first
      /\ \A o \in Owners : o # r => req'[o] = req[o] /\ needs'[o] = needs[o]
  <2>1. CASE EndFill(r)
    BY <2>1, ByRequest DEF EndFill, Stands
  <2>2. CASE BringSearch(r)
    BY <2>2, ByRequest DEF BringSearch, Stands
  <2> QED
    BY <2>1, <2>2
<1>4. /\ \A o \in Owners : o # r => brought'[o] = brought[o]
      /\ \A i \in Indices(r) : Kind(r, i) \in Writes => brought'[r][i] = brought[r][i]
  <2>1. \A i \in Indices(r) : Kind(r, i) \in Writes => i \notin Bodies(r) /\ i \notin Plans(r)
    BY DEF Writes, Bodies, Bodied, Plans
  <2>2. CASE EndFill(r)
    <3>1. CASE brought' = brought
      BY <3>1
    <3>2. CASE brought' # brought
      <4> DEFINE found(i) == {x.id : x \in {y \in fill[r].res : y.ask = i}}
                 f == [i \in Indices(r) |->
                         IF i \in Bodies(r) THEN [what |-> "bodies", saw |-> {}, ids |-> found(i)]
                         ELSE brought[r][i]]
      <4>1. brought' = [brought EXCEPT ![r] = f]
        BY <2>2, <3>2 DEF EndFill
      <4>2. \A i \in Indices(r) : Kind(r, i) \in Writes => f[i] = brought[r][i]
        BY <2>1
      <4> HIDE DEF f
      <4> QED
        BY <4>1, <4>2, ByRequest
    <3> QED
      BY <3>1, <3>2
  <2>3. CASE BringSearch(r)
    <3>1. PICK got : brought' = [brought EXCEPT ![r] = [i \in Indices(r) |->
                       IF i \in Plans(r) THEN [what |-> got, saw |-> DoneBy(r), ids |-> {}]
                       ELSE brought[r][i]]]
      BY <2>3 DEF BringSearch
    <3> DEFINE f == [i \in Indices(r) |->
                       IF i \in Plans(r) THEN [what |-> got, saw |-> DoneBy(r), ids |-> {}]
                       ELSE brought[r][i]]
    <3>2. \A i \in Indices(r) : Kind(r, i) \in Writes => f[i] = brought[r][i]
      BY <2>1
    <3>3. brought' = [brought EXCEPT ![r] = f]
      BY <3>1
    <3> HIDE DEF f
    <3> QED
      BY <3>2, <3>3, ByRequest
  <2> QED
    BY <2>2, <2>3
<1> QED
  BY <1>1, <1>2, <1>3, <1>4, GoesToRest

\* The client goes away.
LEMMA GoAwayCalls ==
    ASSUME CallInv, NEW r \in Owners, GoAway(r) PROVE CallInv'
<1>1. SendInv'
  BY GoAwayKeeps DEF CallInv
<1>2. /\ UNCHANGED <<calls, resp, done, task, needs, brought>> /\ req[r].pc # "done"
      /\ req' = [req EXCEPT ![r].gone = TRUE]
  BY DEF GoAway, sending, history
<1>3. req'[r].pc # "done" /\ req'[r].gone /\ \A o \in Owners : o # r => req'[o] = req[o]
  BY <1>2, ByRequest DEF Stands
<1> QED
  BY <1>1, <1>2, <1>3, GoesToRest DEF InHand

\* The task of a request goes on through its creates, or ends unheard.
LEMMA SendCalls ==
    ASSUME CallInv, NEW r \in Owners, SendStep(r), ~TakeOutcome(r) PROVE CallInv'
<1>1. SendInv'
  BY BeforeDataKeeps, DataKeeps, RecordSubmissionKeeps, ImplicitSetKeeps, LeaveDraftKeeps,
     TaskEndsKeeps DEF SendStep, CallInv
<1>2. UNCHANGED <<calls, resp, done, req, needs, brought>>
  BY DEF SendStep, TakeTurn, ReadRow, FetchMessage, ConnectSubmission, MailAndRecipients, Data,
     RecordSubmission, ImplicitSet, LeaveDraft, TaskEnds, passes, history
<1>3. CASE TaskEnds(r)
  <2>1. ~InHand(r) /\ \A o \in Owners : o # r => task'[o] = task[o]
    BY <1>3, ByRequest DEF TaskEnds, InHand
  <2> QED
    BY <1>1, <1>2, <2>1, TasksMove
<1>4. CASE ~TaskEnds(r)
  <2>1. ASSUME NEW pc \in Places \ {"idle"}, Goes(r, pc) \/ task' = [task EXCEPT ![r].pc = pc]
        PROVE  CallInv'
    <3>1. \A o \in Owners : IF o = r THEN task'[o].pc = pc /\ task'[o].call = task[o].call
                            ELSE task'[o] = task[o]
      BY <2>1, ByRequest DEF Goes, Tasks
    <3> QED
      BY <1>1, <1>2, <3>1, TasksMove
  <2>2. ASSUME NEW outcome, Ends(r, outcome) PROVE CallInv'
    <3>1. AfterCreate(r, outcome).pc \in {"turn", "ended"}
          /\ AfterCreate(r, outcome).call = task[r].call
      BY DEF AfterCreate
    <3>2. \A o \in Owners : IF o = r THEN task'[o] = AfterCreate(r, outcome)
                            ELSE task'[o] = task[o]
      BY <2>2, ByRequest DEF Ends
    <3>3. \A o \in Owners : InHand(o) /\ task[o].pc # "idle" =>
             task'[o].pc # "idle" /\ task'[o].call = task[o].call
      BY <3>1, <3>2
    <3> QED
      BY <1>1, <1>2, <3>3, TasksMove
  <2>3. ASSUME JudgedAlways(r) PROVE CallInv'
    <3>1. \A o \in Owners : IF o = r THEN task'[o].pc = "ended" /\ task'[o].call = task[o].call
                            ELSE task'[o] = task[o]
      BY <2>3, ByRequest DEF JudgedAlways, Tasks
    <3> QED
      BY <1>1, <1>2, <3>1, TasksMove
  <2>4. Judged(r) => CallInv'
    BY <2>2, <2>3 DEF Judged
  <2>5. CASE TakeTurn(r) \/ RecordSubmission(r)
    BY <2>1, <2>5 DEF TakeTurn, RecordSubmission, Places
  <2>6. CASE ReadRow(r) \/ FetchMessage(r) \/ ConnectSubmission(r)
    BY <2>1, <2>2, <2>4, <2>6 DEF ReadRow, FetchMessage, ConnectSubmission, Places
  <2>7. CASE MailAndRecipients(r) \/ Data(r)
    BY <2>1, <2>2, <2>7 DEF MailAndRecipients, Data, Places
  <2>8. CASE ImplicitSet(r) \/ LeaveDraft(r)
    BY <2>1, <2>2, <2>8 DEF ImplicitSet, LeaveDraft, Places
  <2> QED
    BY <1>4, <2>5, <2>6, <2>7, <2>8 DEF SendStep
<1> QED
  BY <1>3, <1>4

\* Every step keeps where the calls stand.
LEMMA CallsKeep == CallInv /\ [Next]_vars => CallInv'
<1> SUFFICES ASSUME CallInv, [Next]_vars PROVE CallInv'
  OBVIOUS
<1>1. ASSUME NEW r \in Owners, Step(r) PROVE CallInv'
  <2>1. CASE Brings(r)
    BY <2>1, BringWriteCalls, BringSubmitCalls, PlaceCalls, FillsCalls, BroughtCalls DEF Brings
  <2>2. CASE SendStep(r)
    BY <2>2, TakeOutcomeCalls, SendCalls
  <2> QED
    BY <1>1, <2>1, <2>2, PlaceCalls, PassCalls DEF Step
<1>2. ASSUME NEW r \in Owners, GoAway(r) PROVE CallInv'
  BY <1>2, GoAwayCalls
<1>3. CASE Around \/ UNCHANGED vars
  <2>1. UNCHANGED <<calls, resp, done, req, needs, brought, task>>
    BY <1>3 DEF Around, vars, passes, sending, history
  <2>2. SendInv'
    BY StepKeeps, <1>3 DEF CallInv, Next
  <2> QED
    BY <2>1, <2>2, TasksMove
<1> QED
  BY <1>1, <1>2, <1>3 DEF Next

-----------------------------------------------------------------------------
(* The hits of a query: the inductive invariant *)

Queries(r) == {i \in Indices(r) : Kind(r, i) = "query"}

HeadsGiven(r) == \A j \in Indices(r) : AtHead(r, j) => Gifted(r, j)

\* The hits of a query are those of a server that had the writes the request
\* opens with before the query, and no write behind it.
HitsSay(r, i) ==
    /\ HeadsGiven(r)
    /\ brought[r][i].saw \subseteq {j \in DoneBy(r) : j < i}
    /\ \A j \in DoneBy(r) : j < i /\ AtHead(r, j) => j \in brought[r][i].saw

\* A query with a need has nothing brought yet; one answered was answered
\* from what was brought.
QuerySays(r) ==
    /\ \A i \in needs[r] \cap Queries(r) : ~Gifted(r, i) /\ req[r].first <= i
    /\ \A i \in Queries(r) : Gifted(r, i) => HitsSay(r, i)
    /\ \A i \in Queries(r) : resp[r][i].st = "ok" =>
         Gifted(r, i) /\ resp[r][i].found = brought[r][i].saw

\* The writes the request opens with: none is asked for before the first
\* pass, all of them after it, and no fill or search runs before they have
\* their outcome.
HeadSays(r) ==
    /\ req[r].pc \in {"start", "pass"} =>
         HeadsGiven(r) \/ (req[r].first = 0 /\ \A i \in Indices(r) : ~Gifted(r, i))
    /\ req[r].pc \in {"bring", "send"} =>
         \A j \in Indices(r) : AtHead(r, j) /\ ~Gifted(r, j) =>
           j \in needs[r] /\ AtHead(r, req[r].row)
    /\ req[r].pc \in {"previews", "bodies", "fill", "search"} => HeadsGiven(r)

Told(r) == InHand(r) \/ req[r].pc = "done"

HitSays(r) == Told(r) => QuerySays(r) /\ HeadSays(r)

HitInv == CallInv /\ \A r \in Owners : HitSays(r)

\* The invariant gives the order of the searches.
LEMMA HitsGiven == HitInv => CallsStand
<1> SUFFICES ASSUME HitInv PROVE CallsStand
  OBVIOUS
<1>1. ASSUME NEW r \in Owners, Ended(r), NEW i \in Indices(r), Kind(r, i) = "query",
             resp[r][i].st = "ok"
      PROVE  /\ resp[r][i].found \subseteq {j \in DoneBy(r) : j < i}
             /\ \A j \in DoneBy(r) : j < i /\ AtHead(r, j) => j \in resp[r][i].found
  <2>1. QuerySays(r) /\ i \in Queries(r)
    BY <1>1 DEF HitInv, HitSays, Told, Ended, Queries
  <2> QED
    BY <1>1, <2>1 DEF QuerySays, HitsSay
<1>2. HitsInOrder
  BY <1>1 DEF HitsInOrder
<1> QED
  BY <1>2, CallsGiven DEF CallsStand, HitInv

\* Nothing was brought at the start.
LEMMA HitsInit == Init => HitInv
<1> SUFFICES ASSUME Init PROVE HitInv
  OBVIOUS
<1>1. CallInv
  BY CallsInit
<1>2. ASSUME NEW r \in Owners PROVE QuerySays(r) /\ HeadSays(r)
  <2>1. /\ req[r].pc = "start" /\ req[r].first = 0 /\ needs[r] = {}
        /\ \A i \in Indices(r) : resp[r][i] = NoAnswer /\ brought[r][i] = NoGift
    BY DEF Init
  <2>2. \A i \in Indices(r) : ~Gifted(r, i) /\ resp[r][i].st # "ok"
    BY <2>1 DEF Gifted, NoGift, NoAnswer
  <2>3. Queries(r) \subseteq Indices(r)
    BY DEF Queries
  <2> QED
    BY <2>1, <2>2, <2>3 DEF QuerySays, HeadSays
<1> QED
  BY <1>1, <1>2 DEF HitInv, HitSays

-----------------------------------------------------------------------------
(* The hits: what a step leaves alone *)

\* Where the writes a request opens with stand is read off its calls.
LEMMA HeadsSame ==
    ASSUME calls' = calls, NEW r \in Owners
    PROVE  /\ Indices(r)' = Indices(r) /\ Queries(r)' = Queries(r)
           /\ \A j : AtHead(r, j)' <=> AtHead(r, j)
<1>1. Indices(r)' = Indices(r) /\ \A i : Kind(r, i)' = Kind(r, i)
  BY CallsSame
<1>2. \A k : Plain(r, k)' <=> Plain(r, k)
  BY <1>1 DEF Plain, NamesState, Writes, Refers, Submits
<1> QED
  BY <1>1, <1>2 DEF Queries, AtHead

\* They are writes, and a write between two of them is one.
LEMMA HeadIs ==
    ASSUME NEW r, NEW j \in Nat, AtHead(r, j)
    PROVE  /\ Plain(r, j) /\ Kind(r, j) \in Writes /\ Kind(r, j) \notin Refers
           /\ \A k \in Nat : 1 <= k /\ k <= j /\ Kind(r, k) # "changes" => AtHead(r, k)
           /\ \A k \in Nat : 1 <= k /\ k < j /\ Kind(r, k) # "changes" => AtHead(r, k + 1)
<1>1. PICK n \in 1..j : /\ \A k \in 1..(n - 1) : Kind(r, k) = "changes"
                        /\ \A k \in n..j : Plain(r, k)
  BY DEF AtHead
<1>2. Plain(r, j)
  BY <1>1
<1>3. ASSUME NEW k \in Nat, 1 <= k, k <= j, Kind(r, k) # "changes" PROVE n <= k
  <2>1. k \notin 1..(n - 1)
    BY <1>1, <1>3
  <2> QED
    BY <1>3, <2>1
<1>4. ASSUME NEW k \in Nat, n <= k, k <= j PROVE AtHead(r, k)
  <2>1. n \in 1..k /\ \A l \in n..k : l \in n..j
    BY <1>4
  <2> QED
    BY <1>1, <2>1 DEF AtHead
<1>5. \A k \in Nat : 1 <= k /\ k <= j /\ Kind(r, k) # "changes" => AtHead(r, k)
  BY <1>3, <1>4
<1>6. ASSUME NEW k \in Nat, 1 <= k, k < j, Kind(r, k) # "changes" PROVE AtHead(r, k + 1)
  <2>1. n <= k
    BY <1>3, <1>6
  <2>2. k + 1 \in Nat /\ n <= k + 1 /\ k + 1 <= j
    BY <1>6, <2>1
  <2> QED
    BY <1>4, <2>2
<1> QED
  BY <1>2, <1>5, <1>6 DEF Plain

\* A step that answers nothing and brings something for no write and no
\* query, if for any call.
LEMMA QueriesStay ==
    ASSUME NEW r \in Owners, QuerySays(r), calls' = calls, done'[r] = done[r], resp'[r] = resp[r],
           needs'[r] \subseteq needs[r], req'[r].first = req[r].first,
           \A i \in Indices(r) : Kind(r, i) \notin Bodied => brought'[r][i] = brought[r][i]
    PROVE  /\ QuerySays(r)' /\ (HeadsGiven(r) => HeadsGiven(r)')
           /\ \A j \in Indices(r) : AtHead(r, j) /\ Gifted(r, j) => Gifted(r, j)'
<1>1. /\ Indices(r)' = Indices(r) /\ Queries(r)' = Queries(r)
      /\ \A j : AtHead(r, j)' <=> AtHead(r, j)
  BY HeadsSame
<1>2. DoneBy(r)' = DoneBy(r)
  BY <1>1 DEF DoneBy
<1>3. \A i \in Queries(r) : brought'[r][i] = brought[r][i] /\ (Gifted(r, i)' <=> Gifted(r, i))
  BY DEF Queries, Bodied, Gifted
<1>4. \A j \in Indices(r) : AtHead(r, j) => (Gifted(r, j)' <=> Gifted(r, j))
  <2>1. ASSUME NEW j \in Indices(r), AtHead(r, j) PROVE Kind(r, j) \notin Bodied
    <3>1. j \in Nat
      BY DEF Indices
    <3> QED
      BY <2>1, <3>1, HeadIs DEF Writes, Bodied
  <2> QED
    BY <2>1 DEF Gifted
<1>5. HeadsGiven(r) => HeadsGiven(r)'
  BY <1>1, <1>4 DEF HeadsGiven
<1>6. ASSUME NEW i \in Queries(r), Gifted(r, i) PROVE HitsSay(r, i)'
  BY <1>1, <1>2, <1>3, <1>5, <1>6 DEF QuerySays, HitsSay
<1>7. QuerySays(r)'
  BY <1>1, <1>3, <1>6 DEF QuerySays
<1> QED
  BY <1>4, <1>5, <1>7

\* A request nothing happens to.
LEMMA HitsStay ==
    ASSUME HitInv, NEW o \in Owners, calls' = calls, done'[o] = done[o], resp'[o] = resp[o],
           req'[o] = req[o], needs'[o] = needs[o], brought'[o] = brought[o]
    PROVE  HitSays(o)'
<1> SUFFICES ASSUME Told(o)' PROVE QuerySays(o)' /\ HeadSays(o)'
  BY DEF HitSays
<1>1. Told(o) /\ QuerySays(o) /\ HeadSays(o)
  BY DEF Told, InHand, HitInv, HitSays
<1>2. QuerySays(o)'
  BY <1>1, QueriesStay
<1>3. /\ Indices(o)' = Indices(o) /\ \A j : AtHead(o, j)' <=> AtHead(o, j)
      /\ \A j : Gifted(o, j)' <=> Gifted(o, j)
  BY HeadsSame DEF Gifted
<1>4. HeadsGiven(o)' <=> HeadsGiven(o)
  BY <1>3 DEF HeadsGiven
<1>5. HeadSays(o)'
  <2>1. AtHead(o, req[o].row)' <=> AtHead(o, req[o].row)
    BY <1>3 DEF AtHead
  <2> QED
    BY <1>1, <1>3, <1>4, <2>1 DEF HeadSays
<1> QED
  BY <1>2, <1>5

-----------------------------------------------------------------------------
(* The hits: each step *)

\* A step is of one request.
LEMMA OnlyOne ==
    ASSUME CallInv, NEW r \in Owners, Step(r) \/ GoAway(r), NEW o \in Owners, o # r
    PROVE  /\ calls' = calls /\ done'[o] = done[o] /\ resp'[o] = resp[o]
           /\ req'[o] = req[o] /\ needs'[o] = needs[o] /\ brought'[o] = brought[o]
<1>1. /\ DOMAIN req = Owners /\ DOMAIN needs = Owners /\ DOMAIN brought = Owners
      /\ DOMAIN resp = Owners /\ DOMAIN done = Owners
  BY ByRequest DEF CallInv
<1>2. CASE Begin(r) \/ Pass(r) \/ GoAway(r)
  BY <1>1, <1>2 DEF Begin, Pass, GoAway, history
<1>3. CASE BringWrite(r)
  BY <1>1, <1>3 DEF BringWrite, Gift, AfterRow
<1>4. CASE BringSubmit(r) \/ EndRow(r) \/ BringPreviews(r) \/ BringBodies(r) \/ Fills(r)
  BY <1>1, <1>4 DEF BringSubmit, EndRow, BringPreviews, BringBodies, Fills, history
<1>5. CASE EndFill(r) \/ BringSearch(r)
  BY <1>1, <1>5 DEF EndFill, BringSearch, history
<1>6. CASE TakeOutcome(r)
  BY <1>1, <1>6 DEF TakeOutcome, Gift
<1>7. CASE SendStep(r) /\ ~TakeOutcome(r)
  BY <1>7 DEF SendStep, TakeTurn, ReadRow, FetchMessage, ConnectSubmission, MailAndRecipients,
     Data, RecordSubmission, ImplicitSet, LeaveDraft, TaskEnds, passes, history
<1> QED
  BY <1>2, <1>3, <1>4, <1>5, <1>6, <1>7 DEF Step, Brings

\* Steps that bring nothing: to the passes, through the fills, or to the send
\* of a write of the row.
LEMMA PlaceHits ==
    ASSUME HitInv, NEW r \in Owners,
           Begin(r) \/ BringSubmit(r) \/ BringPreviews(r) \/ BringBodies(r) \/ Fills(r)
    PROVE  HitSays(r)'
<1> DEFINE filling == {"previews", "bodies", "fill", "search"}
<1>1. /\ UNCHANGED <<calls, resp, needs, brought, done>> /\ req[r].pc # "done"
      /\ InHand(r) \/ req' = req \/ req'[r].pc = "failed"
  BY ByRequest DEF Begin, BringSubmit, BringPreviews, BringBodies, Fills, InHand, history, HitInv,
     Stands
<1>2. /\ req'[r].first = req[r].first /\ req'[r].row = req[r].row
      /\ \/ req' = req \/ req'[r].pc = "failed"
         \/ req[r].pc = "start" /\ req'[r].pc = "pass"
         \/ req[r].pc = "bring" /\ req'[r].pc = "send"
         \/ req[r].pc \in filling /\ req'[r].pc \in filling
  BY ByRequest DEF Begin, BringSubmit, BringPreviews, BringBodies, Fills, HitInv, Stands
<1>3. SUFFICES ASSUME Told(r)', req' # req PROVE QuerySays(r)' /\ HeadSays(r)'
  BY <1>1, HitsStay DEF HitSays
<1>4. req'[r].pc # "failed"
  BY <1>3 DEF Told, InHand
<1>5. Told(r) /\ QuerySays(r) /\ HeadSays(r)
  BY <1>1, <1>3, <1>4 DEF Told, HitInv, HitSays
<1>6. QuerySays(r)'
  BY <1>1, <1>2, <1>5, QueriesStay
<1>7. /\ Indices(r)' = Indices(r) /\ \A j : AtHead(r, j)' <=> AtHead(r, j)
      /\ \A j : Gifted(r, j)' <=> Gifted(r, j)
  BY <1>1, HeadsSame DEF Gifted
<1>8. HeadsGiven(r)' <=> HeadsGiven(r)
  BY <1>7 DEF HeadsGiven
<1>9. AtHead(r, req[r].row)' <=> AtHead(r, req[r].row)
  BY <1>1, <1>2 DEF AtHead, Plain, Kind, NamesState
<1>10. HeadSays(r)'
  BY <1>1, <1>2, <1>3, <1>4, <1>5, <1>7, <1>8, <1>9 DEF HeadSays
<1> QED
  BY <1>6, <1>10

\* The bodies of a fill are brought for no write and no query.
LEMMA EndFillHits ==
    ASSUME HitInv, NEW r \in Owners, EndFill(r) PROVE HitSays(r)'
<1>1. /\ UNCHANGED <<calls, resp, needs, done>> /\ InHand(r) /\ req[r].pc = "fill"
  BY DEF EndFill, InHand, history
<1>2. req'[r].first = req[r].first /\ req'[r].pc \in {"bodies", "search"}
  BY ByRequest DEF EndFill, HitInv, Stands
<1>3. \A i \in Indices(r) : Kind(r, i) \notin Bodied => brought'[r][i] = brought[r][i]
  <2>1. CASE brought' = brought
    BY <2>1
  <2>2. CASE brought' # brought
    <3> DEFINE found(i) == {x.id : x \in {y \in fill[r].res : y.ask = i}}
               f == [i \in Indices(r) |->
                       IF i \in Bodies(r) THEN [what |-> "bodies", saw |-> {}, ids |-> found(i)]
                       ELSE brought[r][i]]
    <3>1. brought' = [brought EXCEPT ![r] = f]
      BY <2>2 DEF EndFill
    <3>2. \A i \in Indices(r) : Kind(r, i) \notin Bodied => f[i] = brought[r][i]
      BY DEF Bodies
    <3> HIDE DEF f
    <3> QED
      BY <3>1, <3>2, ByRequest DEF HitInv
  <2> QED
    BY <2>1, <2>2
<1>4. QuerySays(r) /\ HeadSays(r)
  BY <1>1 DEF Told, HitInv, HitSays
<1>5. QuerySays(r)' /\ (HeadsGiven(r) => HeadsGiven(r)')
  BY <1>1, <1>2, <1>3, <1>4, QueriesStay
<1>6. HeadSays(r)'
  BY <1>1, <1>2, <1>4, <1>5 DEF HeadSays
<1> QED
  BY <1>5, <1>6 DEF HitSays

\* The row ends once every write the request opens with has its outcome: the
\* first without one would be the row's next.
LEMMA EndRowHits ==
    ASSUME HitInv, NEW r \in Owners, EndRow(r) PROVE HitSays(r)'
<1>1. /\ UNCHANGED <<calls, resp, brought, done>> /\ InHand(r) /\ req[r].pc = "bring"
      /\ InRow(r) = 0
  BY DEF EndRow, InHand, history
<1>2. /\ req'[r].first = req[r].first /\ req'[r].pc = "previews" /\ needs'[r] \subseteq needs[r]
  BY ByRequest DEF EndRow, HitInv, Stands
<1>3. QuerySays(r) /\ HeadSays(r)
  BY <1>1 DEF Told, HitInv, HitSays
<1>4. RowSays(r) /\ Indices(r) = 1..Len(calls[r]) /\ Len(calls[r]) \in Nat
  BY <1>1, Calls DEF HitInv, CallInv, CallSays, HandSays
<1>5. req[r].first \in Nat /\ req[r].row \in Nat
  BY ByRequest DEF HitInv, Stands
<1>6. ASSUME NEW j \in Indices(r), AtHead(r, j), ~Gifted(r, j) PROVE FALSE
  <2>1. j \in needs[r] /\ AtHead(r, req[r].row)
    BY <1>1, <1>3, <1>6 DEF HeadSays
  <2>2. req[r].row <= j
    <3>1. req[r].first <= j /\ j \notin Written(r)
      BY <1>4, <1>6, <2>1 DEF RowSays, Written
    <3> QED
      BY <1>4, <1>5, <3>1 DEF RowSays
  <2>3. req[r].row \in Indices(r) /\ req[r].row # 0
    BY <1>4, <1>5, <2>2 DEF RowSays
  <2>4. Kind(r, req[r].row) \in Writes
    BY <1>5, <2>1, HeadIs
  <2>5. ~Gifted(r, req[r].row)
    BY <1>4, <1>5, <2>3, <2>4 DEF RowSays, Written
  <2>6. req[r].row \in needs[r]
    BY <1>1, <1>3, <2>1, <2>3, <2>5 DEF HeadSays
  <2> QED
    BY <1>1, <2>3, <2>4, <2>6 DEF InRow
<1>7. HeadsGiven(r)
  BY <1>6 DEF HeadsGiven
<1>8. QuerySays(r)' /\ HeadsGiven(r)'
  BY <1>1, <1>2, <1>3, <1>7, QueriesStay
<1> QED
  BY <1>2, <1>8 DEF HeadSays, HitSays

\* A write of the row has its outcome: no search ran before it had if the
\* request opens with it.
LEMMA GiftHits ==
    ASSUME HitInv, NEW r \in Owners, NEW i, NEW what,
           InHand(r), req[r].pc \in {"bring", "send"}, i = req[r].row, i \in needs[r],
           Kind(r, i) \in Writes, Gift(r, i, what), what # "none", calls' = calls,
           resp'[r] = resp[r], req'[r].pc = "bring", req'[r].row = i + 1,
           req'[r].first = req[r].first, needs'[r] = needs[r] \ {i},
           done' = done \/ done' = [done EXCEPT ![r][i] = @ + 1]
    PROVE  HitSays(r)'
<1>1. /\ Indices(r)' = Indices(r) /\ Queries(r)' = Queries(r)
      /\ \A j : AtHead(r, j)' <=> AtHead(r, j)
  BY HeadsSame
<1>2. QuerySays(r) /\ HeadSays(r)
  BY DEF Told, HitInv, HitSays
<1>3. /\ RowSays(r) /\ Indices(r) = 1..Len(calls[r]) /\ Len(calls[r]) \in Nat
      /\ req[r].first \in Nat /\ i \in Indices(r) /\ ~Gifted(r, i)
      /\ done[r] \in [Indices(r) -> Nat] /\ r \in DOMAIN done
  BY Calls, StandType DEF HitInv, CallInv, CallSays, HandSays, SendInv, StandSays, Gifted
<1>4. /\ Gifted(r, i)' /\ \A k \in Indices(r) : k # i => brought'[r][k] = brought[r][k]
      /\ \A k \in Indices(r) : k # i => (Gifted(r, k)' <=> Gifted(r, k))
  <2>1. r \in DOMAIN brought /\ DOMAIN brought[r] = Indices(r)
    BY ByRequest DEF HitInv
  <2>2. brought'[r][i].what = what /\ \A k \in Indices(r) : k # i => brought'[r][k] = brought[r][k]
    BY <1>3, <2>1 DEF Gift
  <2> QED
    BY <2>2 DEF Gifted
<1>5. DoneBy(r) \subseteq DoneBy(r)' /\ DoneBy(r)' \subseteq DoneBy(r) \cup {i}
  <2>1. CASE done' = done
    BY <1>1, <2>1 DEF DoneBy
  <2>2. CASE done' = [done EXCEPT ![r][i] = @ + 1]
    <3>1. done'[r] = [done[r] EXCEPT ![i] = done[r][i] + 1]
      BY <1>3, <2>2
    <3>2. done'[r][i] > 0 /\ \A k \in Indices(r) : k # i => done'[r][k] = done[r][k]
      BY <1>3, <3>1
    <3> QED
      BY <1>1, <3>2 DEF DoneBy
  <2> QED
    BY <2>1, <2>2
<1>6. Queries(r) \subseteq Indices(r) /\ i \notin Queries(r)
  BY DEF Queries, Writes
<1>7. QuerySays(r)'
  <2>1. ASSUME NEW q \in Queries(r), Gifted(r, q)' PROVE HitsSay(r, q)'
    <3>1. Gifted(r, q) /\ HitsSay(r, q)
      BY <1>2, <1>4, <1>6, <2>1 DEF QuerySays
    <3>2. HeadsGiven(r)'
      BY <1>1, <1>4, <3>1 DEF HitsSay, HeadsGiven
    <3>3. ~AtHead(r, i)
      BY <1>3, <3>1 DEF HitsSay, HeadsGiven
    <3>4. brought'[r][q].saw = brought[r][q].saw
      BY <1>4, <1>6
    <3>5. brought'[r][q].saw \subseteq {j \in DoneBy(r)' : j < q}
      BY <1>5, <3>1, <3>4 DEF HitsSay
    <3>6. \A j \in DoneBy(r)' : j < q /\ AtHead(r, j) => j \in brought'[r][q].saw
      BY <1>5, <3>1, <3>3, <3>4 DEF HitsSay
    <3> QED
      BY <1>1, <3>2, <3>5, <3>6 DEF HitsSay
  <2>2. \A q \in Queries(r) : (Gifted(r, q)' <=> Gifted(r, q)) /\ brought'[r][q] = brought[r][q]
    BY <1>4, <1>6
  <2> QED
    BY <1>1, <1>2, <2>1, <2>2 DEF QuerySays
<1>8. ASSUME NEW j \in Indices(r), AtHead(r, j), ~Gifted(r, j)'
      PROVE  j \in needs'[r] /\ AtHead(r, i + 1)
  <2>1. j # i /\ ~Gifted(r, j)
    BY <1>4, <1>8
  <2>2. j \in needs[r] /\ AtHead(r, i)
    BY <1>2, <1>8, <2>1 DEF HeadSays
  <2>3. i < j
    <3>1. req[r].first <= j /\ j \notin Written(r)
      BY <1>3, <2>1, <2>2 DEF RowSays, Written
    <3>2. ~(j < i)
      BY <1>3, <3>1 DEF RowSays
    <3> QED
      BY <1>3, <2>1, <3>2
  <2>4. i \in Nat /\ j \in Nat /\ 1 <= i /\ Kind(r, i) # "changes"
    BY <1>3 DEF Writes
  <2> QED
    BY <1>8, <2>1, <2>2, <2>3, <2>4, HeadIs
<1>9. HeadSays(r)'
  <2>1. AtHead(r, req[r].row)' <=> AtHead(r, i + 1)
    <3>1. \A k : Plain(r, k)' <=> Plain(r, k)
      BY DEF Plain, Kind, NamesState
    <3>2. \A k : Kind(r, k)' = Kind(r, k)
      BY DEF Kind
    <3> QED
      BY <3>1, <3>2 DEF AtHead
  <2> QED
    BY <1>1, <1>8, <2>1 DEF HeadSays
<1> QED
  BY <1>7, <1>9 DEF HitSays

\* The outcome of a write, or the end of the request.
LEMMA WriteHits ==
    ASSUME HitInv, NEW r \in Owners, BringWrite(r) \/ TakeOutcome(r) PROVE HitSays(r)'
<1>1. /\ DOMAIN req = Owners /\ req \in [Owners -> Stands] /\ DOMAIN needs = Owners
      /\ calls' = calls /\ resp' = resp
  BY ByRequest DEF HitInv, BringWrite, TakeOutcome
<1>2. CASE req'[r].pc = "failed"
  BY <1>2 DEF HitSays, Told, InHand
<1>3. CASE BringWrite(r) /\ req'[r].pc # "failed"
  <2> DEFINE i == InRow(r)
  <2>1. /\ req[r].pc = "bring" /\ InHand(r) /\ i = req[r].row /\ i \in needs[r]
        /\ Kind(r, i) \in Writes
    BY <1>3 DEF BringWrite, InRow, InHand
  <2> HIDE DEF i
  <2>2. req' # [req EXCEPT ![r].pc = "failed"]
    BY <1>1, <1>3 DEF Stands
  <2>3. /\ Gift(r, i, "written") \/ Gift(r, i, "rows")
        /\ needs' = [needs EXCEPT ![r] = @ \ {i}] /\ req' = AfterRow(r)
        /\ done' = done \/ done' = [done EXCEPT ![r][i] = @ + 1]
    BY <1>3, <2>2 DEF BringWrite, i
  <2>4. /\ req'[r].pc = "bring" /\ req'[r].row = i + 1 /\ req'[r].first = req[r].first
        /\ needs'[r] = needs[r] \ {i}
    BY <1>1, <2>1, <2>3 DEF AfterRow, Stands, i
  <2> QED
    BY <1>1, <2>1, <2>3, <2>4, GiftHits
<1>4. CASE TakeOutcome(r) /\ req'[r].pc # "failed"
  <2> DEFINE i == task[r].call
  <2>1. ~req[r].gone /\ task[r].pc = "ended"
    BY <1>4 DEF TakeOutcome, At
  <2>2. req[r].pc = "send" /\ Kind(r, i) \in Submits
    BY <2>1 DEF HitInv, CallInv, SendInv, StandSays, TaskSays
  <2>3. InHand(r)
    BY <2>1, <2>2 DEF InHand
  <2>4. i = req[r].row /\ i \in needs[r] /\ Kind(r, i) \in Writes
    BY <2>2, <2>3 DEF HitInv, CallInv, CallSays, HandSays, Submits, Writes
  <2>5. ~Failed(r)
    BY <1>1, <1>4 DEF TakeOutcome, Stands
  <2> HIDE DEF i
  <2>6. /\ Gift(r, i, "submitted") /\ done' = [done EXCEPT ![r][i] = @ + 1]
        /\ needs' = [needs EXCEPT ![r] = @ \ {i}]
        /\ req' = [req EXCEPT ![r].pc = "bring", ![r].row = i + 1]
    BY <1>4, <2>5 DEF TakeOutcome, i
  <2>7. /\ req'[r].pc = "bring" /\ req'[r].row = i + 1 /\ req'[r].first = req[r].first
        /\ needs'[r] = needs[r] \ {i}
    BY <1>1, <2>6 DEF Stands
  <2> QED
    BY <1>1, <2>2, <2>3, <2>4, <2>6, <2>7, GiftHits
<1> QED
  BY <1>2, <1>3, <1>4

\* The searches run with everything done so far: all of it stands before a
\* query with a need, and the writes the request opens with are in it.
LEMMA SearchHits ==
    ASSUME HitInv, NEW r \in Owners, BringSearch(r) PROVE HitSays(r)'
<1>1. UNCHANGED <<calls, resp, done>> /\ InHand(r) /\ req[r].pc = "search"
  BY DEF BringSearch, InHand, history
<1>2. req'[r].pc = "pass" /\ needs'[r] = {}
  BY ByRequest DEF BringSearch, HitInv, Stands
<1>3. PICK got \in {"hits", "nohits"} :
        brought' = [brought EXCEPT ![r] = [i \in Indices(r) |->
          IF i \in Plans(r) THEN [what |-> got, saw |-> DoneBy(r), ids |-> {}]
          ELSE brought[r][i]]]
  BY DEF BringSearch
<1>4. \A i \in Indices(r) : brought'[r][i] =
        IF i \in Plans(r) THEN [what |-> got, saw |-> DoneBy(r), ids |-> {}] ELSE brought[r][i]
  BY <1>3, ByRequest DEF HitInv
<1>5. /\ Indices(r)' = Indices(r) /\ Queries(r)' = Queries(r) /\ DoneBy(r)' = DoneBy(r)
      /\ \A j : AtHead(r, j)' <=> AtHead(r, j)
  BY <1>1, HeadsSame DEF DoneBy
<1>6. /\ QuerySays(r) /\ HeadSays(r) /\ HeadsGiven(r)
  BY <1>1 DEF Told, HitInv, HitSays, HeadSays
<1>7. /\ DoneSays(r) /\ Indices(r) \subseteq Nat /\ Queries(r) \subseteq Indices(r)
  BY <1>1, Calls DEF HitInv, CallInv, CallSays, HandSays, Queries
<1>8. \A i \in Indices(r) : Gifted(r, i) => Gifted(r, i)'
  BY <1>4 DEF Gifted
<1>9. HeadsGiven(r)'
  BY <1>5, <1>6, <1>8 DEF HeadsGiven
<1>10. ASSUME NEW q \in Queries(r), Gifted(r, q)' PROVE HitsSay(r, q)'
  <2>1. CASE q \in Plans(r)
    <3>1. brought'[r][q].saw = DoneBy(r) /\ q \in needs[r]
      BY <1>4, <1>7, <2>1 DEF Plans
    <3>2. req[r].first <= q
      BY <1>6, <3>1 DEF QuerySays
    <3>3. q \notin Written(r)
      BY DEF Written, Queries, Writes
    <3>4. ASSUME NEW j \in DoneBy(r) PROVE j < q
      <4>1. j \in Written(r) /\ j \in Nat /\ q \in Nat
        BY <1>7 DEF DoneSays, Written
      <4>2. ~(q <= j)
        BY <1>7, <3>2, <3>3, <4>1 DEF DoneSays
      <4> QED
        BY <4>1, <4>2
    <3> QED
      BY <1>5, <1>9, <3>1, <3>4 DEF HitsSay
  <2>2. CASE q \notin Plans(r)
    <3>1. brought'[r][q] = brought[r][q]
      BY <1>4, <1>7, <2>2
    <3>2. HitsSay(r, q)
      BY <1>6, <1>10, <3>1 DEF QuerySays, Gifted
    <3> QED
      BY <1>5, <1>9, <3>1, <3>2 DEF HitsSay
  <2> QED
    BY <2>1, <2>2
<1>11. ASSUME NEW q \in Queries(r), resp[r][q].st = "ok"
       PROVE  Gifted(r, q)' /\ resp[r][q].found = brought'[r][q].saw
  <2>1. Gifted(r, q) /\ resp[r][q].found = brought[r][q].saw
    BY <1>6, <1>11 DEF QuerySays
  <2>2. q \notin Plans(r)
    BY <1>6, <2>1 DEF QuerySays, Plans
  <2>3. brought'[r][q] = brought[r][q]
    BY <1>4, <1>7, <2>2
  <2> QED
    BY <2>1, <2>3 DEF Gifted
<1>12. QuerySays(r)'
  BY <1>1, <1>2, <1>5, <1>10, <1>11 DEF QuerySays
<1>13. HeadSays(r)'
  BY <1>2, <1>9 DEF HeadSays
<1> QED
  BY <1>12, <1>13 DEF HitSays

\* What a query and a /changes call answer.
LEMMA QueryIs ==
    ASSUME NEW r, NEW i
    PROVE  /\ Kind(r, i) = "query" /\ StateOf(r, i) = "ok" => brought[r][i].what = "hits"
           /\ Kind(r, i) = "changes" => StateOf(r, i) = "ok"
<1>1. CASE Kind(r, i) = "query"
  <2>1. Kind(r, i) \notin {"changes"} \cup Bodied \cup Submits
    BY <1>1 DEF Bodied, Submits
  <2> QED
    BY <1>1, <2>1 DEF StateOf
<1>2. CASE Kind(r, i) = "changes"
  <2>1. Kind(r, i) \notin {"query"} \cup Bodied \cup Submits
    BY <1>2 DEF Bodied, Submits
  <2> QED
    BY <1>2, <2>1 DEF StateOf
<1> QED
  BY <1>1, <1>2

\* A pass answers a query from what was brought for it; the first leaves a
\* need for every write the request opens with, whose row starts there.
LEMMA PassHits ==
    ASSUME HitInv, NEW r \in Owners, Pass(r) PROVE HitSays(r)'
<1> DEFINE open == Left(r, Answers(r))
           more == open # {} /\ req[r].pass < MAX_PASSES
           m == Min(open)
           Before(i) == IF i = 1 THEN NoAnswer ELSE Answers(r)[i - 1]
<1>1. /\ req[r].pc = "pass" /\ InHand(r)
      /\ resp' = [resp EXCEPT ![r] = Answers(r)]
      /\ needs' = [needs EXCEPT ![r] = IF more THEN open ELSE {}]
      /\ req' = [req EXCEPT ![r].pc = IF more THEN "bring" ELSE "done",
                            ![r].row = IF more THEN m ELSE 0,
                            ![r].first = IF more THEN m ELSE 0]
      /\ UNCHANGED <<calls, brought, done>>
  BY DEF Pass, InHand, history
<1>2. /\ req \in [Owners -> Stands] /\ needs \in [Owners -> SUBSET Nat] /\ DOMAIN resp = Owners
      /\ Indices(r) = 1..Len(calls[r]) /\ Len(calls[r]) \in Nat /\ req[r].first \in Nat
  BY ByRequest, Calls, StandType DEF HitInv, CallInv
<1>3. \A i \in open : /\ i \in Indices(r) /\ req[r].first <= i
                      /\ Answers(r)[i].st = "unavailable" /\ ~Gifted(r, i)
  BY DEF Left, Asks, Gifted
<1>4. \A i \in Indices(r) : req[r].first <= i => Answers(r)[i] = AnswerOf(r, i, Before(i))
  <2>1. \A i \in Indices(r) : req[r].first <= i => ~(i < req[r].first)
    BY <1>2
  <2> QED
    BY <2>1, AnswersAre DEF HitInv, CallInv
<1>5. \A i \in Indices(r) : i < req[r].first => Answers(r)[i] = resp[r][i]
  BY AnswersAre DEF HitInv, CallInv
<1>6. resp'[r] = Answers(r)
  BY <1>1, <1>2
<1>7. /\ Indices(r)' = Indices(r) /\ Queries(r)' = Queries(r) /\ DoneBy(r)' = DoneBy(r)
      /\ \A j : AtHead(r, j)' <=> AtHead(r, j)
      /\ \A i : Gifted(r, i)' <=> Gifted(r, i)
  BY <1>1, HeadsSame DEF DoneBy, Gifted
<1>8. QuerySays(r) /\ HeadSays(r)
  BY <1>1 DEF Told, HitInv, HitSays
<1> HIDE DEF Before
<1>9. ASSUME NEW q \in Queries(r), Gifted(r, q) PROVE HitsSay(r, q)'
  <2>1. HitsSay(r, q)
    BY <1>8, <1>9 DEF QuerySays
  <2>2. HeadsGiven(r)'
    BY <1>7, <2>1 DEF HitsSay, HeadsGiven
  <2> QED
    BY <1>1, <1>7, <2>1, <2>2 DEF HitsSay
<1>10. ASSUME NEW q \in Queries(r), Answers(r)[q].st = "ok"
       PROVE  Gifted(r, q) /\ Answers(r)[q].found = brought[r][q].saw
  <2>1. q \in Indices(r) /\ Kind(r, q) = "query" /\ q \in Nat
    BY <1>2 DEF Queries
  <2>2. CASE q < req[r].first
    BY <1>5, <1>8, <1>10, <2>1, <2>2 DEF QuerySays
  <2>3. CASE ~(q < req[r].first)
    <3>1. Answers(r)[q] = AnswerOf(r, q, Before(q))
      BY <1>2, <1>4, <2>1, <2>3
    <3>2. StateOf(r, q) = "ok" /\ Answers(r)[q].found = brought[r][q].saw
      BY <1>10, <2>1, <3>1 DEF AnswerOf
    <3>3. brought[r][q].what = "hits"
      BY <2>1, <3>2, QueryIs
    <3> QED
      BY <3>2, <3>3 DEF Gifted
  <2> QED
    BY <2>2, <2>3
<1>11. CASE ~more
  <2>1. req'[r].pc = "done" /\ needs'[r] = {}
    BY <1>1, <1>2, <1>11 DEF Stands
  <2>2. QuerySays(r)'
    BY <1>1, <1>6, <1>7, <1>9, <1>10, <2>1 DEF QuerySays
  <2>3. HeadSays(r)'
    BY <2>1 DEF HeadSays
  <2> QED
    BY <2>2, <2>3 DEF HitSays
<1>12. CASE more
  <2> HIDE DEF open
  <2>1. /\ req'[r].pc = "bring" /\ req'[r].row = m /\ req'[r].first = m /\ needs'[r] = open
    BY <1>1, <1>2, <1>12 DEF Stands
  <2>2. m \in open /\ \A i \in open : m <= i
    <3>1. open \in SUBSET Nat /\ open # {}
      BY <1>2, <1>3, <1>12
    <3>2. \E x \in open : \A y \in open : x <= y
      BY <3>1, SmallestInNat
    <3> QED
      BY <3>2, Zenon DEF Min
  <2> HIDE DEF m, more
  <2>3. QuerySays(r)'
    BY <1>1, <1>3, <1>6, <1>7, <1>9, <1>10, <2>1, <2>2 DEF QuerySays
  <2>4. ASSUME NEW j \in Indices(r), AtHead(r, j), ~Gifted(r, j)
        PROVE  j \in open /\ AtHead(r, m)
    <3>1. req[r].first = 0 /\ \A i \in Indices(r) : ~Gifted(r, i)
      BY <1>1, <1>8, <2>4 DEF HeadSays, HeadsGiven
    <3>2. j \in Nat /\ m \in Nat /\ m \in Indices(r) /\ 1 <= m
      BY <1>2, <1>3, <2>2
    <3>3. Plain(r, j) /\ Kind(r, j) \in Writes /\ Kind(r, j) \notin Refers
      BY <2>4, <3>2, HeadIs
    <3>4. StateOf(r, j) = "unavailable"
      BY <2>4, <3>3, StateIs DEF Gifted, Stored
    <3>5. Resolves(r, j, Before(j)) /\ InState(r, j)
      BY <3>3 DEF Resolves, InState, Plain
    <3>6. Answers(r)[j].st = "unavailable"
      <4>1. Answers(r)[j] = AnswerOf(r, j, Before(j))
        BY <1>4, <3>1, <3>2
      <4> QED
        BY <3>4, <3>5, <4>1 DEF AnswerOf
    <3>7. j \in open
      BY <2>4, <3>1, <3>2, <3>6 DEF open, Left, Asks, Gifted
    <3>8. Kind(r, m) # "changes"
      <4>1. Answers(r)[m] = AnswerOf(r, m, Before(m)) /\ Answers(r)[m].st = "unavailable"
        BY <1>3, <1>4, <2>2, <3>2
      <4>2. StateOf(r, m) = "unavailable"
        BY <4>1 DEF AnswerOf
      <4> QED
        BY <4>2, QueryIs
    <3> QED
      BY <2>2, <2>4, <3>2, <3>7, <3>8, HeadIs
  <2>5. HeadSays(r)'
    <3>1. AtHead(r, req[r].row)' <=> AtHead(r, m)
      <4>1. \A k : Plain(r, k)' <=> Plain(r, k)
        BY <1>1 DEF Plain, Kind, NamesState
      <4>2. \A k : Kind(r, k)' = Kind(r, k)
        BY <1>1 DEF Kind
      <4> QED
        BY <2>1, <4>1, <4>2 DEF AtHead
    <3> QED
      BY <1>7, <2>1, <2>4, <3>1 DEF HeadSays
  <2> QED
    BY <2>3, <2>5 DEF HitSays
<1> QED
  BY <1>11, <1>12

\* Every step keeps where the searches stand.
LEMMA HitsKeep == HitInv /\ [Next]_vars => HitInv'
<1> SUFFICES ASSUME HitInv, [Next]_vars PROVE HitInv'
  OBVIOUS
<1>1. CallInv'
  BY CallsKeep DEF HitInv
<1>2. ASSUME NEW r \in Owners, Step(r) \/ GoAway(r) PROVE \A o \in Owners : HitSays(o)'
  <2>1. ASSUME NEW o \in Owners, o # r PROVE HitSays(o)'
    <3>1. /\ calls' = calls /\ done'[o] = done[o] /\ resp'[o] = resp[o]
          /\ req'[o] = req[o] /\ needs'[o] = needs[o] /\ brought'[o] = brought[o]
      BY <1>2, <2>1, OnlyOne DEF HitInv
    <3> QED
      BY <3>1, HitsStay
  <2>2. CASE GoAway(r)
    <3>1. req'[r].gone /\ req'[r].pc # "done"
      BY <2>2, ByRequest DEF GoAway, HitInv, Stands
    <3> QED
      BY <2>1, <3>1 DEF HitSays, Told, InHand
  <2>3. CASE SendStep(r) /\ ~TakeOutcome(r)
    <3>1. UNCHANGED <<calls, resp, done, req, needs, brought>>
      BY <2>3 DEF SendStep, TakeTurn, ReadRow, FetchMessage, ConnectSubmission, MailAndRecipients,
         Data, RecordSubmission, ImplicitSet, LeaveDraft, TaskEnds, passes, history
    <3> QED
      BY <3>1, HitsStay
  <2>4. CASE Begin(r) \/ Pass(r) \/ Brings(r) \/ TakeOutcome(r)
    BY <2>1, <2>4, PlaceHits, PassHits, WriteHits, EndRowHits, EndFillHits, SearchHits DEF Brings
  <2> QED
    BY <1>2, <2>2, <2>3, <2>4 DEF Step
<1>3. CASE Around \/ UNCHANGED vars
  <2>1. UNCHANGED <<calls, resp, done, req, needs, brought>>
    BY <1>3 DEF Around, vars, passes, history
  <2> QED
    BY <1>1, <2>1, HitsStay DEF HitInv
<1> QED
  BY <1>1, <1>2, <1>3 DEF Next, HitInv

\* However many passes a request takes and whatever fails in it: its calls
\* answer from rows with the writes before them and no other; the search a
\* query answers from ran on a server without the writes behind the query and
\* with those the request opens with before it; and no write is done twice or
\* done and told as not (jmap/request.rs).
THEOREM CallsStandAlways == Spec => []CallsStand
<1>1. HitInv /\ [Next]_vars => HitInv'
  BY HitsKeep
<1>2. Spec => []HitInv
  BY HitsInit, <1>1, PTL DEF Spec
<1> QED
  BY <1>2, HitsGiven, PTL
=============================================================================
