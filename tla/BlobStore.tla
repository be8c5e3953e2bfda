----------------------------- MODULE BlobStore -----------------------------
(***************************************************************************)
(* What the upload store promises whoever was handed a blob id (RFC 8620   *)
(* section 6): an upload is kept once, whole, from the moment its id is    *)
(* answered, and leaves only because a newer one needs its room, because   *)
(* its day is over or because the account is removed.  It never comes      *)
(* back, and room is taken from the oldest first.                          *)
(***************************************************************************)
EXTENDS Integers

CONSTANTS
  Ids,          \* uploads, by their id
  UPLOAD_TTL    \* how long an upload lives, in ticks

VARIABLES
  held,    \* the age of every upload the store holds
  settled, \* uploads that are decided: kept once, or never
  leaving  \* the account is being removed

vars == <<held, settled, leaving>>

Without(S) == [id \in DOMAIN held \ S |-> held[id]]

Init ==
  /\ settled \in SUBSET Ids
  /\ held \in [settled -> 0..UPLOAD_TTL]
  /\ leaving = FALSE

(* An upload arrives; its age counts from the end of its body.             *)
Keep(id) ==
  /\ id \in Ids \ settled
  /\ settled' = settled \cup {id}
  /\ UNCHANGED leaving
  /\ \E age \in 0..UPLOAD_TTL :
       held' = [k \in DOMAIN held \cup {id} |-> IF k = id THEN age ELSE held[k]]

(* Room is made: whatever stays is at most as old as whatever leaves.      *)
Evict ==
  /\ \E S \in SUBSET DOMAIN held :
       /\ \A out \in S, in \in DOMAIN held \ S : held[in] <= held[out]
       /\ held' = Without(S)
  /\ UNCHANGED <<settled, leaving>>

(* The sweep: only uploads past their time leave.                          *)
Expire ==
  /\ \E S \in SUBSET {id \in DOMAIN held : held[id] >= UPLOAD_TTL} : held' = Without(S)
  /\ UNCHANGED <<settled, leaving>>

(* The account is removed with everything it uploaded.                     *)
Forget == leaving /\ held' = Without(Ids) /\ UNCHANGED <<settled, leaving>>

(* An upload fails or its client goes away: its id opens nothing, ever.    *)
Refuse ==
  /\ \E S \in SUBSET (Ids \ settled) : settled' = settled \cup S
  /\ UNCHANGED <<held, leaving>>

(* A removal begins, or ends with the process before its rows left, as     *)
(* every upload under way does.                                            *)
Leave == ~leaving /\ leaving' = TRUE /\ UNCHANGED <<held, settled>>

Restart ==
  /\ leaving' = FALSE
  /\ \E S \in SUBSET (Ids \ settled) : settled' = settled \cup S
  /\ UNCHANGED held

Older ==
  /\ held' = [id \in DOMAIN held |-> IF held[id] < UPLOAD_TTL THEN held[id] + 1 ELSE held[id]]
  /\ UNCHANGED <<settled, leaving>>

Next == (\E id \in Ids : Keep(id)) \/ Evict \/ Expire \/ Forget
        \/ Refuse \/ Leave \/ Restart \/ Older

Spec == Init /\ [][Next]_vars
=============================================================================
