------------------------------ MODULE ChangeLog ------------------------------
(***************************************************************************)
(* The change log of one account, the `/changes` method that reads it and  *)
(* a client that follows it.                                               *)
(*                                                                         *)
(* A write of the store is one transaction: its changes are folded in a    *)
(* ledger, one per object, and logged under the next sequence, which is    *)
(* the account's state; the log then forgets its oldest sequences.  The    *)
(* client asks for the changes since its state, reads the objects they     *)
(* name one store read at a time while writes go on, and lands all of it   *)
(* in one batch.  An object's value is the sequence it last changed under. *)
(***************************************************************************)
EXTENDS Integers, Sequences, FiniteSets

CONSTANTS
    Ids,             \* the objects of the account, of every type
    Followed,        \* those of the type the client follows
    CHANGES_HORIZON, \* the newest rows the log keeps
    MaxChanges,      \* the caps a client may set on an answer; the web client sets none
    MaxSequence,     \* bound: the writes that change something
    MaxNotes,        \* bound: the changes of one write
    MaxFailures      \* bound: the rounds that fail

ASSUME ChangesAssumption ==
    /\ IsFiniteSet(Ids) /\ Followed \subseteq Ids
    /\ CHANGES_HORIZON \in Nat \ {0} /\ MaxChanges \subseteq Nat \ {0}
    /\ {MaxSequence, MaxNotes, MaxFailures} \subseteq Nat

VARIABLES
    objects,      \* id -> the sequence it last changed under, 0 for none
    sequence,     \* bridge_state: the account's state
    log,          \* bridge_changes: sequence -> id -> kind
    client,       \* the store of the client and the round it runs
    existed,      \* history: state -> the ids that existed at it
    failures

vars == <<objects, sequence, log, client, existed, failures>>

NULL == -1
NONE == "none"
Kinds == {"created", "updated", "destroyed"}
NoRows == [id \in Ids |-> NONE]

-----------------------------------------------------------------------------
(* The ledger of one write *)

\* Ledger::note: one entry per object.
Folded(before, kind) ==
    CASE before = "created" /\ kind = "destroyed" -> NONE
      [] before = "created" /\ kind # "destroyed" -> "created"
      [] before \in {"destroyed", "updated"} /\ kind = "created" -> "updated"
      [] before = "destroyed" /\ kind # "created" -> "destroyed"
      [] OTHER -> kind

\* One change inside a write: a touched object is created or updated, any
\* other leaves.
Noted(write, op) ==
    LET kind == IF ~op.touch THEN "destroyed"
                ELSE IF write.objects[op.id] = 0 THEN "created" ELSE "updated"
    IN IF kind = "destroyed" /\ write.objects[op.id] = 0 THEN write
       ELSE [objects |-> [write.objects EXCEPT ![op.id] =
                            IF op.touch THEN sequence + 1 ELSE 0],
             ledger  |-> [write.ledger EXCEPT ![op.id] = Folded(@, kind)]]

\* The store and the ledger after the changes of one write, in their order.
Written(ops) ==
    LET write[i \in 0..Len(ops)] ==
          IF i = 0 THEN [objects |-> objects, ledger |-> NoRows]
          ELSE Noted(write[i - 1], ops[i])
    IN write[Len(ops)]

-----------------------------------------------------------------------------
(* The log *)

\* The number of rows at or above a sequence.
RowsFrom(rows, n) ==
    Cardinality({p \in (n..MaxSequence) \X Ids : rows[p[1]][p[2]] # NONE})

\* prune: the sequences below the one the newest CHANGES_HORIZON rows reach
\* leave whole.
Pruned(rows) ==
    [n \in 1..MaxSequence |->
       IF RowsFrom(rows, n + 1) >= CHANGES_HORIZON THEN NoRows ELSE rows[n]]

\* oldest_kept: the lowest sequence with a row, NULL for an empty log.
OldestKept ==
    LET kept == {n \in 1..MaxSequence : log[n] # NoRows}
    IN IF kept = {} THEN NULL ELSE CHOOSE n \in kept : \A m \in kept : n <= m

\* changes_since: whether the log holds every row after the state.
Calculable(since) ==
    /\ since <= sequence
    /\ IF OldestKept = NULL THEN since = sequence ELSE since + 1 >= OldestKept

-----------------------------------------------------------------------------
(* The answer of a /changes *)

\* Mutant: a destroyed object created again reads as created.
ThenAnew(fate, kind) ==
    CASE fate \in {NONE, "gone"} /\ kind = "created" -> "created"
      [] fate = "gone" /\ kind # "created" -> "gone"
      [] fate = "created" -> IF kind = "destroyed" THEN "gone" ELSE "created"
      [] fate \in {"updated", "destroyed"} /\ kind = "created" -> "created"
      [] OTHER -> kind

\* Fate::start and Fate::then.
Then(fate, kind) ==
    CASE fate = NONE -> kind
      [] fate = "gone" /\ kind = "created" -> "created"
      [] fate = "gone" /\ kind # "created" -> "gone"
      [] fate = "created" /\ kind = "destroyed" -> "gone"
      [] fate = "created" /\ kind # "destroyed" -> "created"
      [] fate \in {"updated", "destroyed"} /\ kind = "destroyed" -> "destroyed"
      [] fate \in {"updated", "destroyed"} /\ kind = "updated" -> fate
      [] fate \in {"updated", "destroyed"} /\ kind = "created" -> "updated"

\* What each followed object went through from `since` to `through`.
Fates(since, through) ==
    LET fate[n \in since..through] ==
          IF n = since THEN [id \in Followed |-> NONE]
          ELSE [id \in Followed |-> IF log[n][id] = NONE THEN fate[n - 1][id]
                                    ELSE Then(fate[n - 1][id], log[n][id])]
    IN fate[through]

Listed(since, through, kind) == {id \in Followed : Fates(since, through)[id] = kind}

\* The ids the three lists name.
Size(since, through) ==
    Cardinality({id \in Followed : Fates(since, through)[id] \in Kinds})

\* The sequences after `since` with a row of the followed type.
Entered(since) ==
    {n \in (since + 1)..sequence : \E id \in Followed : log[n][id] # NONE}

\* cut: the sequences before the first that carries the lists past the cap.
Cut(since, max) ==
    {n \in Entered(since) : \A m \in Entered(since) : m <= n => Size(since, m) <= max}

\* Mutant: with no sequence entered the answer stays at the old state.
WindowStill(since, max) ==
    LET cut == IF max = NULL THEN Entered(since) ELSE Cut(since, max)
        last == CHOOSE n \in cut \cup {since} : \A m \in cut : m <= n
        all == cut = Entered(since)
    IN [new_state |-> IF all THEN sequence ELSE last, has_more |-> ~all,
        created |-> Listed(since, last, "created"),
        updated |-> Listed(since, last, "updated"),
        destroyed |-> Listed(since, last, "destroyed")]

NoWindow == [new_state |-> NULL, has_more |-> FALSE,
             created |-> {}, updated |-> {}, destroyed |-> {}]

\* fold: whole sequences up to the cut; NoWindow, which answers
\* cannotCalculateChanges, when the first one alone passes the cap.
Window(since, max) ==
    LET cut == IF max = NULL THEN Entered(since) ELSE Cut(since, max)
        last == CHOOSE n \in cut \cup {since} : \A m \in cut : m <= n
        all == cut = Entered(since)
    IN IF ~all /\ cut = {} THEN NoWindow
       ELSE [new_state |-> IF all THEN sequence ELSE last, has_more |-> ~all,
             created |-> Listed(since, last, "created"),
             updated |-> Listed(since, last, "updated"),
             destroyed |-> Listed(since, last, "destroyed")]

-----------------------------------------------------------------------------
Idle == [phase |-> "idle", max |-> NULL, since |-> NULL, window |-> NoWindow,
         got |-> [id \in Followed |-> NULL]]

Init ==
    /\ objects = [id \in Ids |-> 0]
    /\ sequence = 0
    /\ log = [n \in 1..MaxSequence |-> NoRows]
    /\ client = [held |-> [id \in Followed |-> 0], state |-> NULL, round |-> Idle]
    /\ existed = [n \in 0..MaxSequence |-> {}]
    /\ failures = 0

Existing(values) == {id \in Ids : values[id] # 0}

\* One transaction of the store.  A write whose ledger ends up empty opens
\* no state.
Write ==
    /\ sequence < MaxSequence
    /\ \E ops \in UNION {[1..n -> [id : Ids, touch : BOOLEAN]] : n \in 1..MaxNotes} :
         LET write == Written(ops)
         IN /\ write.ledger # NoRows
            /\ objects' = write.objects
            /\ log' = Pruned([log EXCEPT ![sequence + 1] = write.ledger])
            /\ existed' = [existed EXCEPT ![sequence + 1] = Existing(write.objects)]
    /\ sequence' = sequence + 1
    /\ UNCHANGED <<client, failures>>

\* The round of a client that holds a state: /changes is answered.
Ask ==
    /\ client.round = Idle /\ client.state # NULL
    /\ \E max \in MaxChanges \cup {NULL} :
         client' = [client EXCEPT !.round =
             LET window == IF Calculable(client.state) THEN Window(client.state, max)
                                                       ELSE NoWindow
             IN [phase |-> IF window = NoWindow THEN "refetch" ELSE "get",
                 max |-> max, since |-> client.state, window |-> window, got |-> Idle.got]]
    /\ UNCHANGED <<objects, sequence, log, existed, failures>>

Named == client.round.window.created \cup client.round.window.updated

\* A /get answers one of the named objects, 0 for one not found.  The objects
\* come by result reference or in chunks, each a read of the store of its
\* own: a chunk is that many of these steps with no write between them.
Get ==
    /\ client.round.phase = "get"
    /\ \E id \in Named :
         /\ client.round.got[id] = NULL
         /\ client' = [client EXCEPT !.round.got[id] = objects[id]]
    /\ UNCHANGED <<objects, sequence, log, existed, failures>>

\* Mutant: the state the client lands is the one the server stands at.
LandedNow(held, round) ==
    [held |-> [id \in Followed |->
                 IF id \in round.window.destroyed THEN 0
                 ELSE IF round.got[id] \notin {NULL, 0} THEN round.got[id] ELSE held[id]],
     state |-> sequence, round |-> Idle]

\* landMailboxes: what left is removed, what was found is put, and the state
\* is the one the answer reaches.
Landed(held, round) ==
    [held |-> [id \in Followed |->
                 IF round.got[id] \notin {NULL, 0} THEN round.got[id]
                 ELSE IF id \in round.window.destroyed THEN 0 ELSE held[id]],
     state |-> round.window.new_state, round |-> Idle]

Land ==
    /\ client.round.phase = "get"
    /\ \A id \in Named : client.round.got[id] # NULL
    /\ client' = Landed(client.held, client.round)
    /\ UNCHANGED <<objects, sequence, log, existed, failures>>

\* hydrateMailboxes: every object and the state, in one read of the store;
\* the first time, and when a state cannot be calculated from.
Hydrate ==
    /\ client.state = NULL \/ client.round.phase = "refetch"
    /\ client' = [held |-> [id \in Followed |-> objects[id]],
                  state |-> sequence, round |-> Idle]
    /\ UNCHANGED <<objects, sequence, log, existed, failures>>

\* A request of the round brings no answer: nothing of the round lands.
RoundFails ==
    /\ client.round # Idle /\ failures < MaxFailures
    /\ client' = [client EXCEPT !.round = Idle]
    /\ failures' = failures + 1
    /\ UNCHANGED <<objects, sequence, log, existed>>

Round == Ask \/ Get \/ Land \/ Hydrate

Next == Write \/ Round \/ RoundFails

Spec == Init /\ [][Next]_vars

\* The client polls again and again and its requests are answered.
FairSpec == Spec /\ WF_vars(Round)

-----------------------------------------------------------------------------
(* Properties *)

Windows == [new_state : NULL..MaxSequence, has_more : BOOLEAN,
            created : SUBSET Followed, updated : SUBSET Followed,
            destroyed : SUBSET Followed]

Rounds == [phase : {"idle", "get", "refetch"}, max : MaxChanges \cup {NULL},
           since : NULL..MaxSequence, window : Windows,
           got : [Followed -> NULL..MaxSequence]]

\* The types of the store's and the client's state.
TypeOK ==
    /\ objects \in [Ids -> 0..MaxSequence] /\ sequence \in 0..MaxSequence
    /\ log \in [1..MaxSequence -> [Ids -> Kinds \cup {NONE}]]
    /\ client \in [held : [Followed -> 0..MaxSequence], state : NULL..MaxSequence, round : Rounds]
    /\ existed \in [0..MaxSequence -> SUBSET Ids]
    /\ failures \in 0..MaxFailures

\* Whatever the client shows wrong, the log names it after the client's
\* state or has forgotten that state: a poll that answers "no changes" is
\* never wrong, and a client at the account's state shows every object.
NothingMissed ==
    client.state # NULL =>
        \A id \in Followed :
            \/ client.held[id] = objects[id]
            \/ ~Calculable(client.state)
            \/ \E n \in (client.state + 1)..sequence : log[n][id] # NONE

\* The three lists say what RFC 8620 section 5.2 asks of them: the objects
\* the new state has and the old one had not, the ones both have that were
\* changed, and the ones the old state had alone, whatever they went
\* through in between and in whichever writes.  An answer with more to come
\* lies ahead of the old state, and one with a cap names no more objects.
AnswerExact ==
    LET round == client.round
        window == round.window
        old == existed[round.since] \cap Followed
        new == existed[window.new_state] \cap Followed
    IN round.phase = "get" =>
         /\ window.created = new \ old
         /\ window.destroyed = old \ new
         /\ window.updated \subseteq old \cap new
         /\ \A id \in (old \cap new) \ window.updated :
              \A n \in (round.since + 1)..window.new_state : log[n][id] = NONE
         /\ window.has_more => window.new_state > round.since
         /\ round.max # NULL =>
              Cardinality(window.created \cup window.updated \cup window.destroyed) <= round.max

\* Once the writes end, the client comes to show every object as it is and
\* keeps doing so, whatever caps and failures its rounds met.
CatchesUp == <>[](client.state # NULL /\ \A id \in Followed : client.held[id] = objects[id])

=============================================================================
