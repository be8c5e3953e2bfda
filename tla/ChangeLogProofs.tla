--------------------------- MODULE ChangeLogProofs ---------------------------
(***************************************************************************)
(* What the change log promises a client that follows it, for every        *)
(* account, horizon and cap: the three lists of an answer are the ones     *)
(* RFC 8620 asks for, and a poll never leaves a wrong object unnamed.      *)
(*                                                                         *)
(* The ledger of a write and the lists of an answer are recursive          *)
(* functions.  What they compute is proved by induction, stated with the   *)
(* set of the positions a fact holds at.                                   *)
(***************************************************************************)
EXTENDS ChangeLog, FiniteSetTheorems, WellFoundedInduction, TLAPS

-----------------------------------------------------------------------------
(* Induction and recursion over an interval *)

\* A set of naturals that is not empty has a least element.
LEMMA LeastNatural ==
    ASSUME NEW S \in SUBSET Nat, S # {}
    PROVE  \E x \in S : \A y \in S : x <= y
<1> DEFINE R == OpToRel(<, Nat)
<1>1. \E x \in S : \A y \in S : ~(<<y, x>> \in R)
  BY NatLessThanWellFounded, WFMin
<1>2. R = {p \in Nat \X Nat : p[1] < p[2]}
  BY DEF OpToRel
<1> HIDE DEF R
<1>3. PICK x \in S : \A y \in S : ~(<<y, x>> \in R)
  BY <1>1
<1>4. ASSUME NEW y \in S PROVE x <= y
  <2>1. <<y, x>> \notin R /\ x \in Nat /\ y \in Nat
    BY <1>3
  <2>2. ~(y < x)
    BY <2>1, <1>2
  <2> QED
    BY <2>1, <2>2
<1> QED
  BY <1>4

\* Induction over an interval, for the set of the positions a fact holds at.
LEMMA SetInduction ==
    ASSUME NEW a \in Nat, NEW b \in Nat, NEW S, a \in S,
           \A n \in a..b : n # b /\ n \in S => n + 1 \in S
    PROVE  a..b \subseteq S
<1> SUFFICES ASSUME a..b \ S # {} PROVE FALSE
  OBVIOUS
<1>1. a..b \ S \in SUBSET Nat
  OBVIOUS
<1>2. PICK x \in a..b \ S : \A y \in a..b \ S : x <= y
  BY <1>1, LeastNatural
<1>3. x \in a..b /\ x # a /\ x \notin S
  BY <1>2
<1>4. x - 1 \in a..b /\ x - 1 # b /\ (x - 1) + 1 = x /\ ~(x <= x - 1)
  BY <1>3
<1>5. x - 1 \in S
  BY <1>2, <1>4
<1> QED
  BY <1>3, <1>4, <1>5

\* The value of the function at a position, from the one before it.
Steps(a, b, V) == [(a..b) \X V -> V]

\* The function with a value at the first position and a step to every later one.
Computes(f, a, b, V, base, step) ==
    /\ f \in [a..b -> V]
    /\ f[a] = base
    /\ \A n \in (a + 1)..b : f[n] = step[<<n, f[n - 1]>>]

\* A value for the first position and a step to every later one make a
\* function over the interval.
LEMMA Recursion ==
    ASSUME NEW a \in Nat, NEW b \in Nat, a <= b,
           NEW V, NEW base \in V, NEW step \in Steps(a, b, V)
    PROVE  \E f : Computes(f, a, b, V, base, step)
<1> USE DEF Steps
<1> DEFINE Good(k, f) == f[a] = base /\ \A n \in (a + 1)..k : f[n] = step[<<n, f[n - 1]>>]
<1> DEFINE S == {k \in a..b : \E f \in [a..k -> V] : Good(k, f)}
<1>1. a \in S
  <2> DEFINE f == [n \in a..a |-> base]
  <2>1. f \in [a..a -> V] /\ Good(a, f)
    OBVIOUS
  <2> HIDE DEF f
  <2>2. a \in a..b
    OBVIOUS
  <2> QED
    BY <2>1, <2>2
<1>2. ASSUME NEW k \in a..b, k # b, k \in S PROVE k + 1 \in S
  <2>1. PICK f \in [a..k -> V] : Good(k, f)
    BY <1>2
  <2> DEFINE g == [n \in a..(k + 1) |-> IF n = k + 1 THEN step[<<k + 1, f[k]>>] ELSE f[n]]
  <2>2. g \in [a..(k + 1) -> V]
    BY <1>2
  <2>3. g[k + 1] = step[<<k + 1, f[k]>>] /\ \A n \in a..k : g[n] = f[n]
    OBVIOUS
  <2> HIDE DEF g
  <2>4. ASSUME NEW n \in (a + 1)..(k + 1) PROVE g[n] = step[<<n, g[n - 1]>>]
    <3>1. CASE n = k + 1
      <4>1. n - 1 = k /\ k \in a..k
        BY <3>1
      <4>2. g[k] = f[k]
        BY <2>3, <4>1
      <4> QED
        BY <3>1, <4>1, <4>2, <2>3
    <3>2. CASE n # k + 1
      <4>1. n \in (a + 1)..k /\ n \in a..k /\ n - 1 \in a..k
        BY <3>2
      <4>2. f[n] = step[<<n, f[n - 1]>>]
        BY <4>1, <2>1
      <4> QED
        BY <4>1, <4>2, <2>3
    <3> QED
      BY <3>1, <3>2
  <2>5. g[a] = base
    BY <2>1, <2>3
  <2>6. k + 1 \in a..b
    BY <1>2
  <2> QED
    BY <2>2, <2>4, <2>5, <2>6
<1> HIDE DEF S
<1>3. a..b \subseteq S
  BY <1>1, <1>2, SetInduction
<1>4. b \in S
  BY <1>3
<1>5. PICK f \in [a..b -> V] : Good(b, f)
  BY <1>4 DEF S
<1>6. Computes(f, a, b, V, base, step)
  BY <1>5 DEF Computes
<1> QED
  BY <1>6

-----------------------------------------------------------------------------
(* The ledger of one write *)

Writes == [objects : [Ids -> 0..MaxSequence], ledger : [Ids -> Kinds \cup {NONE}]]

Ops == [id : Ids, touch : BOOLEAN]

\* What the ledger of a write says of an object, against the store the write
\* began from.
Accounts(write, id) ==
    /\ write.ledger[id] = NONE => write.objects[id] = objects[id]
    /\ write.ledger[id] = "created" => objects[id] = 0 /\ write.objects[id] # 0
    /\ write.ledger[id] = "updated" => objects[id] # 0 /\ write.objects[id] # 0
    /\ write.ledger[id] = "destroyed" => objects[id] # 0 /\ write.objects[id] = 0

\* A change of a write keeps the ledger's word on every object.
LEMMA NotedFacts ==
    ASSUME TypeOK, sequence < MaxSequence, NEW write \in Writes, NEW op \in Ops,
           \A id \in Ids : Accounts(write, id)
    PROVE  /\ Noted(write, op) \in Writes
           /\ \A id \in Ids : Accounts(Noted(write, op), id)
<1> USE ChangesAssumption
<1> DEFINE kind == IF ~op.touch THEN "destroyed"
                   ELSE IF write.objects[op.id] = 0 THEN "created" ELSE "updated"
           value == IF op.touch THEN sequence + 1 ELSE 0
           fold == Folded(write.ledger[op.id], kind)
           next == [objects |-> [write.objects EXCEPT ![op.id] = value],
                    ledger |-> [write.ledger EXCEPT ![op.id] = fold]]
<1>1. op.id \in Ids /\ op.touch \in BOOLEAN
  BY DEF Ops
<1>2. write.objects \in [Ids -> 0..MaxSequence] /\ write.ledger \in [Ids -> Kinds \cup {NONE}]
  BY DEF Writes
<1>3. CASE kind = "destroyed" /\ write.objects[op.id] = 0
  <2>1. Noted(write, op) = write
    BY <1>3 DEF Noted
  <2> QED
    BY <2>1
<1>4. CASE ~(kind = "destroyed" /\ write.objects[op.id] = 0)
  <2>1. Noted(write, op) = next
    BY <1>4 DEF Noted
  <2>2. value \in 0..MaxSequence /\ (value = 0 <=> ~op.touch)
    BY <1>1 DEF TypeOK
  <2>3. kind \in Kinds /\ (kind = "destroyed" <=> ~op.touch)
        /\ (kind = "created" <=> op.touch /\ write.objects[op.id] = 0)
    BY <1>1 DEF Kinds
  <2>4. write.ledger[op.id] \in Kinds \cup {NONE}
    BY <1>1, <1>2
  <2>5. kind # "created" => write.objects[op.id] # 0
    BY <1>4, <2>3 DEF Kinds
  <2> HIDE DEF kind, value
  <2>6. fold \in Kinds \cup {NONE}
    BY <2>3, <2>4 DEF Folded, Kinds, NONE
  <2>7. /\ fold = NONE => objects[op.id] = 0 /\ value = 0
        /\ fold = "created" => objects[op.id] = 0 /\ value # 0
        /\ fold = "updated" => objects[op.id] # 0 /\ value # 0
        /\ fold = "destroyed" => objects[op.id] # 0 /\ value = 0
    <3>1. Accounts(write, op.id)
      BY <1>1
    <3>2. CASE write.ledger[op.id] = NONE
      <4>1. fold = kind
        BY <3>2, <2>3 DEF Folded, Kinds, NONE
      <4>2. write.objects[op.id] = objects[op.id]
        BY <3>1, <3>2 DEF Accounts
      <4> HIDE DEF fold
      <4> QED
        BY <4>1, <4>2, <2>2, <2>3, <2>5 DEF Kinds, NONE
    <3>3. CASE write.ledger[op.id] = "created"
      <4>1. fold = IF kind = "destroyed" THEN NONE ELSE "created"
        BY <3>3, <2>3 DEF Folded, Kinds, NONE
      <4>2. objects[op.id] = 0 /\ write.objects[op.id] # 0
        BY <3>1, <3>3 DEF Accounts, NONE
      <4> HIDE DEF fold
      <4> QED
        BY <4>1, <4>2, <2>2, <2>3, <2>5 DEF Kinds, NONE
    <3>4. CASE write.ledger[op.id] = "updated"
      <4>1. fold = IF kind = "created" THEN "updated" ELSE kind
        BY <3>4, <2>3 DEF Folded, Kinds, NONE
      <4>2. objects[op.id] # 0 /\ write.objects[op.id] # 0
        BY <3>1, <3>4 DEF Accounts, NONE
      <4> HIDE DEF fold
      <4> QED
        BY <4>1, <4>2, <2>2, <2>3, <2>5 DEF Kinds, NONE
    <3>5. CASE write.ledger[op.id] = "destroyed"
      <4>1. fold = IF kind = "created" THEN "updated" ELSE "destroyed"
        BY <3>5, <2>3 DEF Folded, Kinds, NONE
      <4>2. objects[op.id] # 0 /\ write.objects[op.id] = 0
        BY <3>1, <3>5 DEF Accounts, NONE
      <4> HIDE DEF fold
      <4> QED
        BY <4>1, <4>2, <2>2, <2>3, <2>5 DEF Kinds, NONE
    <3> QED
      BY <3>2, <3>3, <3>4, <3>5, <2>4 DEF Kinds
  <2> HIDE DEF fold
  <2>8. next \in Writes
    BY <1>2, <2>2, <2>6 DEF Writes
  <2>9. ASSUME NEW id \in Ids PROVE Accounts(next, id)
    <3>1. CASE id = op.id
      <4>1. next.objects[id] = value /\ next.ledger[id] = fold
        BY <3>1, <1>2
      <4> HIDE DEF next
      <4> QED
        BY <3>1, <4>1, <2>7 DEF Accounts
    <3>2. CASE id # op.id
      <4>1. next.objects[id] = write.objects[id] /\ next.ledger[id] = write.ledger[id]
        BY <3>2, <1>2
      <4> HIDE DEF next
      <4>2. Accounts(write, id)
        OBVIOUS
      <4> QED
        BY <4>1, <4>2 DEF Accounts
    <3> QED
      BY <3>1, <3>2
  <2> HIDE DEF next
  <2> QED
    BY <2>1, <2>8, <2>9
<1> QED
  BY <1>3, <1>4

\* What a write leaves: its ledger is true of every object.
LEMMA WrittenFacts ==
    ASSUME TypeOK, sequence < MaxSequence, NEW n \in Nat, NEW ops \in [1..n -> Ops]
    PROVE  /\ Written(ops) \in Writes
           /\ \A id \in Ids : Accounts(Written(ops), id)
<1> DEFINE base == [objects |-> objects, ledger |-> NoRows]
           V == {w \in Writes : \A id \in Ids : Accounts(w, id)}
           step == [p \in (0..n) \X V |-> IF p[1] = 0 THEN p[2] ELSE Noted(p[2], ops[p[1]])]
           g == CHOOSE f : f = [i \in 0..n |-> IF i = 0 THEN base ELSE Noted(f[i - 1], ops[i])]
<1>1. Len(ops) = n
  OBVIOUS
<1>2. base \in V
  <2>1. base.objects = objects /\ base.ledger = NoRows
    OBVIOUS
  <2>2. base \in Writes
    BY DEF Writes, NoRows, TypeOK
  <2> HIDE DEF base
  <2>3. ASSUME NEW id \in Ids PROVE Accounts(base, id)
    BY <2>1 DEF Accounts, NoRows, NONE
  <2> QED
    BY <2>2, <2>3
<1>3. Written(ops) = g[n]
  BY <1>1 DEF Written
<1>4. step \in [(0..n) \X V -> V]
  <2> SUFFICES ASSUME NEW p \in (0..n) \X V
               PROVE  (IF p[1] = 0 THEN p[2] ELSE Noted(p[2], ops[p[1]])) \in V
    OBVIOUS
  <2>1. p[1] \in 0..n /\ p[2] \in V
    OBVIOUS
  <2>2. CASE p[1] = 0
    BY <2>1, <2>2
  <2>3. CASE p[1] # 0
    <3>1. ops[p[1]] \in Ops
      BY <2>1, <2>3
    <3>2. Noted(p[2], ops[p[1]]) \in V
      BY <3>1, <2>1, NotedFacts
    <3> QED
      BY <3>2, <2>3
  <2> QED
    BY <2>2, <2>3
<1> HIDE DEF V
<1>5. PICK f : Computes(f, 0, n, V, base, step)
  <2> HIDE DEF step, base, g
  <2>1. 0 \in Nat /\ 0 <= n /\ step \in Steps(0, n, V)
    BY <1>4 DEF Steps
  <2> QED
    BY <1>2, <2>1, Recursion
<1>6. ASSUME NEW i \in 0..n
      PROVE  f[i] = IF i = 0 THEN base ELSE Noted(f[i - 1], ops[i])
  <2>1. CASE i = 0
    BY <2>1, <1>5 DEF Computes
  <2>2. CASE i # 0
    <3>1. i \in (0 + 1)..n /\ i - 1 \in 0..n /\ f[i - 1] \in V
      BY <2>2, <1>5 DEF Computes
    <3>2. f[i] = step[<<i, f[i - 1]>>]
      BY <3>1, <1>5 DEF Computes
    <3>3. <<i, f[i - 1]>> \in (0..n) \X V
      BY <3>1
    <3> QED
      BY <3>2, <3>3, <2>2
  <2> QED
    BY <2>1, <2>2
<1>7. f = [i \in 0..n |-> IF i = 0 THEN base ELSE Noted(f[i - 1], ops[i])]
  BY <1>5, <1>6 DEF Computes
<1>8. g = [i \in 0..n |-> IF i = 0 THEN base ELSE Noted(g[i - 1], ops[i])]
  BY <1>7, Zenon
<1> HIDE DEF g, base
<1> DEFINE S == {i \in 0..n : g[i] \in V}
<1>9. 0 \in S
  <2>1. 0 \in 0..n
    OBVIOUS
  <2> QED
    BY <1>2, <1>8, <2>1
<1>10. ASSUME NEW i \in 0..n, i # n, i \in S PROVE i + 1 \in S
  <2>1. i + 1 \in 0..n /\ i + 1 # 0 /\ (i + 1) - 1 = i /\ i + 1 \in 1..n
    BY <1>10
  <2>2. g[i + 1] = Noted(g[(i + 1) - 1], ops[i + 1])
    BY <1>8, <2>1
  <2>3. ops[i + 1] \in Ops
    BY <2>1
  <2>4. g[i] \in V
    BY <1>10
  <2>5. Noted(g[i], ops[i + 1]) \in V
    BY <2>3, <2>4, NotedFacts DEF V
  <2> QED
    BY <2>1, <2>2, <2>5
<1> HIDE DEF S
<1>11. 0..n \subseteq S
  BY <1>9, <1>10, SetInduction
<1>12. g[n] \in V
  BY <1>11 DEF S
<1> QED
  BY <1>3, <1>12 DEF V

-----------------------------------------------------------------------------
(* What the log says *)

\* What the log says of an object under a sequence it holds.
Tells(n, id) ==
    /\ log[n][id] = NONE => (id \in existed[n - 1] <=> id \in existed[n])
    /\ log[n][id] = "created" => id \notin existed[n - 1] /\ id \in existed[n]
    /\ log[n][id] = "updated" => id \in existed[n - 1] /\ id \in existed[n]
    /\ log[n][id] = "destroyed" => id \in existed[n - 1] /\ id \notin existed[n]

\* The log holds an unbroken run of sequences up to the account's state,
\* and tells of every object what happened to it under each of them.
LogInv ==
    /\ existed[sequence] = Existing(objects)
    /\ \A n \in 1..MaxSequence : n > sequence => log[n] = NoRows
    /\ sequence > 0 => log[sequence] # NoRows
    /\ \A m, n \in 1..sequence : m <= n /\ log[m] # NoRows => log[n] # NoRows
    /\ \A n \in 1..sequence : log[n] # NoRows => \A id \in Ids : Tells(n, id)

\* The sequences after a state are all in the log.
Unbroken(s) == \A n \in (s + 1)..sequence : log[n] # NoRows

CalculableMeans == \A s \in 0..sequence : Calculable(s) <=> Unbroken(s)

\* changes_since compares a state with the oldest sequence kept; that finds
\* out whether every sequence after the state is kept.
LEMMA CalculableIsUnbroken == TypeOK /\ LogInv => CalculableMeans
<1> SUFFICES ASSUME TypeOK, LogInv, NEW s \in 0..sequence
             PROVE  Calculable(s) <=> Unbroken(s)
  BY DEF CalculableMeans
<1> DEFINE kept == {n \in 1..MaxSequence : log[n] # NoRows}
<1>1. sequence \in Nat /\ s \in Nat /\ s <= sequence /\ sequence <= MaxSequence /\ MaxSequence \in Nat
  BY ChangesAssumption DEF TypeOK
<1>2. OldestKept = IF kept = {} THEN NULL ELSE CHOOSE n \in kept : \A m \in kept : n <= m
  BY DEF OldestKept
<1>3. \A n \in kept : n \in 1..sequence
  <2> SUFFICES ASSUME NEW n \in kept PROVE n \in 1..sequence
    OBVIOUS
  <2>1. n \in 1..MaxSequence /\ log[n] # NoRows
    OBVIOUS
  <2>2. ~(n > sequence)
    BY <2>1 DEF LogInv
  <2> QED
    BY <1>1, <2>1, <2>2
<1>4. CASE sequence = 0
  <2>1. kept = {}
    <3>1. 1..sequence = {}
      BY <1>4
    <3> QED
      BY <1>3, <3>1
  <2>2. OldestKept = NULL
    BY <1>2, <2>1
  <2>3. s = sequence /\ Unbroken(s)
    BY <1>1, <1>4 DEF Unbroken
  <2>4. Calculable(s)
    BY <2>2, <2>3, <1>1 DEF Calculable
  <2> QED
    BY <2>3, <2>4
<1>5. CASE sequence # 0
  <2>1. sequence \in kept
    <3>1. sequence > 0 /\ sequence \in 1..MaxSequence
      BY <1>1, <1>5
    <3> QED
      BY <3>1 DEF LogInv
  <2>2. kept \in SUBSET Nat
    OBVIOUS
  <2> HIDE DEF kept
  <2>3. \E n \in kept : \A m \in kept : n <= m
    BY <2>1, <2>2, LeastNatural
  <2> DEFINE least == CHOOSE n \in kept : \A m \in kept : n <= m
  <2>4. least \in kept /\ \A m \in kept : least <= m
    BY <2>3, Zenon
  <2>5. OldestKept = least
    BY <1>2, <2>1
  <2> HIDE DEF least
  <2>6. least \in 1..sequence
    BY <1>3, <2>4
  <2>7. Calculable(s) <=> s + 1 >= least
    <3>1. least # NULL
      BY <2>6 DEF NULL
    <3> QED
      BY <2>5, <3>1, <1>1 DEF Calculable
  <2>8. log[least] # NoRows
    BY <2>4 DEF kept
  <2>9. ASSUME s + 1 >= least PROVE Unbroken(s)
    <3> SUFFICES ASSUME NEW n \in (s + 1)..sequence PROVE log[n] # NoRows
      BY DEF Unbroken
    <3>1. n \in 1..sequence /\ least <= n
      BY <1>1, <2>6, <2>9
    <3> QED
      BY <3>1, <2>6, <2>8 DEF LogInv
  <2>10. ASSUME ~(s + 1 >= least), Unbroken(s) PROVE FALSE
    <3>1. s + 1 \in (s + 1)..sequence /\ s + 1 \in 1..MaxSequence
      BY <1>1, <2>6, <2>10
    <3>2. s + 1 \in kept
      BY <3>1, <2>10 DEF Unbroken, kept
    <3>3. least <= s + 1
      BY <3>2, <2>4
    <3> QED
      BY <3>3, <2>10, <1>1, <2>6
  <2> QED
    BY <2>7, <2>9, <2>10
<1> QED
  BY <1>4, <1>5

\* Over sequences the log holds with no row of an object, the object
\* exists or does not as before.
LEMMA QuietSpan ==
    ASSUME TypeOK, LogInv, NEW a \in 0..sequence, NEW b \in a..sequence, NEW id \in Ids,
           \A n \in (a + 1)..b : log[n] # NoRows /\ log[n][id] = NONE
    PROVE  id \in existed[a] <=> id \in existed[b]
<1> DEFINE S == {n \in a..b : id \in existed[a] <=> id \in existed[n]}
<1>1. a \in Nat /\ b \in Nat /\ a <= b /\ b <= sequence /\ sequence \in Nat
  BY DEF TypeOK
<1>2. a \in S
  BY <1>1
<1>3. ASSUME NEW n \in a..b, n # b, n \in S PROVE n + 1 \in S
  <2>1. n + 1 \in (a + 1)..b /\ n + 1 \in 1..sequence /\ (n + 1) - 1 = n /\ n + 1 \in a..b
    BY <1>1, <1>3
  <2>2. log[n + 1] # NoRows /\ log[n + 1][id] = NONE
    BY <2>1
  <2>3. Tells(n + 1, id)
    BY <2>1, <2>2 DEF LogInv
  <2>4. id \in existed[n] <=> id \in existed[n + 1]
    BY <2>1, <2>2, <2>3 DEF Tells
  <2> QED
    BY <2>1, <2>4, <1>3
<1> HIDE DEF S
<1>4. a..b \subseteq S
  BY <1>1, <1>2, <1>3, SetInduction
<1>5. b \in S
  BY <1>1, <1>4
<1> QED
  BY <1>5 DEF S

-----------------------------------------------------------------------------
(* What an object went through *)

FateSet == Kinds \cup {NONE, "gone"}

\* What a fate means: the object's place in the two states, and whether a
\* row names it.
FateHolds(fate, since, n, id) ==
    /\ fate \in FateSet
    /\ fate = NONE <=> \A m \in (since + 1)..n : log[m][id] = NONE
    /\ fate = NONE => (id \in existed[since] <=> id \in existed[n])
    /\ fate = "created" => id \notin existed[since] /\ id \in existed[n]
    /\ fate = "updated" => id \in existed[since] /\ id \in existed[n]
    /\ fate = "destroyed" => id \in existed[since] /\ id \notin existed[n]
    /\ fate = "gone" => id \notin existed[since] /\ id \notin existed[n]

\* Fate::then stays among the fates.
LEMMA ThenType ==
    ASSUME NEW fate \in FateSet, NEW kind \in Kinds
    PROVE  Then(fate, kind) \in FateSet /\ Then(fate, kind) # NONE
BY DEF Then, FateSet, Kinds, NONE

\* One more sequence of the log keeps what a fate means.
LEMMA FateStep ==
    ASSUME TypeOK, LogInv, NEW since \in 0..sequence, NEW n \in (since + 1)..sequence,
           NEW id \in Ids, log[n] # NoRows, NEW fate, FateHolds(fate, since, n - 1, id)
    PROVE  FateHolds(IF log[n][id] = NONE THEN fate ELSE Then(fate, log[n][id]), since, n, id)
<1> DEFINE kind == log[n][id]
           next == IF kind = NONE THEN fate ELSE Then(fate, kind)
<1>1. since \in Nat /\ n \in 1..sequence /\ n \in 1..MaxSequence /\ since < n /\ n - 1 \in 0..sequence
  BY ChangesAssumption DEF TypeOK
<1>2. kind \in Kinds \cup {NONE}
  BY <1>1 DEF TypeOK
<1>3. Tells(n, id)
  BY <1>1 DEF LogInv
<1>4. \A m \in (since + 1)..n : m = n \/ m \in (since + 1)..(n - 1)
  BY <1>1
<1>5. \A m \in (since + 1)..(n - 1) : m \in (since + 1)..n
  BY <1>1
<1>6. n \in (since + 1)..n
  BY <1>1
<1>7. fate \in FateSet
  BY DEF FateHolds
<1>8. CASE kind = NONE
  <2>1. next = fate
    BY <1>8
  <2>2. id \in existed[n - 1] <=> id \in existed[n]
    BY <1>3, <1>8 DEF Tells
  <2>3. (\A m \in (since + 1)..n : log[m][id] = NONE) <=> (\A m \in (since + 1)..(n - 1) : log[m][id] = NONE)
    BY <1>4, <1>5, <1>8
  <2> HIDE DEF kind, next
  <2>4. FateHolds(next, since, n, id)
    BY <2>1, <2>2, <2>3 DEF FateHolds
  <2> QED
    BY <2>4 DEF next, kind
<1>9. CASE kind # NONE
  <2>1. next = Then(fate, kind) /\ kind \in Kinds
    BY <1>9, <1>2
  <2>2. ~(\A m \in (since + 1)..n : log[m][id] = NONE)
    BY <1>6, <1>9
  <2>3. /\ kind = "created" => id \notin existed[n - 1] /\ id \in existed[n]
        /\ kind = "updated" => id \in existed[n - 1] /\ id \in existed[n]
        /\ kind = "destroyed" => id \in existed[n - 1] /\ id \notin existed[n]
    BY <1>3 DEF Tells
  <2>4. /\ fate = NONE => (id \in existed[since] <=> id \in existed[n - 1])
        /\ fate = "created" => id \notin existed[since] /\ id \in existed[n - 1]
        /\ fate = "updated" => id \in existed[since] /\ id \in existed[n - 1]
        /\ fate = "destroyed" => id \in existed[since] /\ id \notin existed[n - 1]
        /\ fate = "gone" => id \notin existed[since] /\ id \notin existed[n - 1]
    BY DEF FateHolds
  <2> HIDE DEF kind, next
  <2>5. next \in FateSet /\ next # NONE
    BY <2>1, <1>7, ThenType
  <2>6. /\ next = "created" => id \notin existed[since] /\ id \in existed[n]
        /\ next = "updated" => id \in existed[since] /\ id \in existed[n]
        /\ next = "destroyed" => id \in existed[since] /\ id \notin existed[n]
        /\ next = "gone" => id \notin existed[since] /\ id \notin existed[n]
    <3>1. CASE fate = NONE
      <4>1. next = kind
        BY <3>1, <2>1 DEF Then, NONE
      <4> QED
        BY <4>1, <3>1, <2>1, <2>3, <2>4 DEF Kinds
    <3>2. CASE fate = "gone"
      <4>1. next = IF kind = "created" THEN "created" ELSE "gone"
        BY <3>2, <2>1 DEF Then, NONE, Kinds
      <4> QED
        BY <4>1, <3>2, <2>1, <2>3, <2>4 DEF Kinds
    <3>3. CASE fate = "created"
      <4>1. next = IF kind = "destroyed" THEN "gone" ELSE "created"
        BY <3>3, <2>1 DEF Then, NONE, Kinds
      <4> QED
        BY <4>1, <3>3, <2>1, <2>3, <2>4 DEF Kinds
    <3>4. CASE fate = "updated"
      <4>1. next = IF kind = "destroyed" THEN "destroyed" ELSE "updated"
        BY <3>4, <2>1 DEF Then, NONE, Kinds
      <4> QED
        BY <4>1, <3>4, <2>1, <2>3, <2>4 DEF Kinds
    <3>5. CASE fate = "destroyed"
      <4>1. next = IF kind = "created" THEN "updated" ELSE "destroyed"
        BY <3>5, <2>1 DEF Then, NONE, Kinds
      <4> QED
        BY <4>1, <3>5, <2>1, <2>3, <2>4 DEF Kinds
    <3> QED
      BY <3>1, <3>2, <3>3, <3>4, <3>5, <1>7 DEF FateSet, Kinds
  <2>7. FateHolds(next, since, n, id)
    BY <2>2, <2>5, <2>6 DEF FateHolds
  <2> QED
    BY <2>7 DEF next, kind
<1> QED
  BY <1>8, <1>9

\* What the lists of an answer are read from: the fate of every followed
\* object over sequences the log holds.
LEMMA FatesFacts ==
    ASSUME TypeOK, LogInv, NEW since \in 0..sequence, Unbroken(since),
           NEW through \in since..sequence
    PROVE  \A id \in Followed : FateHolds(Fates(since, through)[id], since, through, id)
<1> DEFINE base == [id \in Followed |-> NONE]
           V == [Followed -> FateSet]
           Go(n, fates) == [id \in Followed |-> IF log[n][id] = NONE THEN fates[id]
                                                ELSE Then(fates[id], log[n][id])]
           step == [p \in (since..through) \X V |-> IF p[1] = since THEN p[2] ELSE Go(p[1], p[2])]
           g == CHOOSE f : f = [n \in since..through |-> IF n = since THEN base ELSE Go(n, f[n - 1])]
<1>1. since \in Nat /\ through \in Nat /\ since <= through /\ through <= sequence
      /\ sequence <= MaxSequence /\ MaxSequence \in Nat /\ Followed \subseteq Ids /\ sequence \in Nat
  BY ChangesAssumption DEF TypeOK
<1>2. base \in V
  BY DEF FateSet, NONE
<1>3. Fates(since, through) = g[through]
  BY DEF Fates
<1>4. ASSUME NEW n \in (since + 1)..through, NEW fates \in V PROVE Go(n, fates) \in V
  <2>1. n \in 1..MaxSequence
    BY <1>1
  <2> SUFFICES ASSUME NEW id \in Followed
               PROVE (IF log[n][id] = NONE THEN fates[id] ELSE Then(fates[id], log[n][id])) \in FateSet
    OBVIOUS
  <2>2. log[n][id] \in Kinds \cup {NONE} /\ fates[id] \in FateSet
    BY <2>1, <1>1 DEF TypeOK
  <2> QED
    BY <2>2, ThenType
<1>5. step \in Steps(since, through, V)
  <2> SUFFICES ASSUME NEW p \in (since..through) \X V
               PROVE  (IF p[1] = since THEN p[2] ELSE Go(p[1], p[2])) \in V
    BY DEF Steps
  <2>1. p[1] \in since..through /\ p[2] \in V
    OBVIOUS
  <2> HIDE DEF V, Go
  <2>2. CASE p[1] = since
    BY <2>1, <2>2
  <2>3. CASE p[1] # since
    <3>1. p[1] \in (since + 1)..through
      BY <2>1, <2>3, <1>1
    <3> QED
      BY <3>1, <2>1, <2>3, <1>4
  <2> QED
    BY <2>2, <2>3
<1>6. PICK f : Computes(f, since, through, V, base, step)
  <2> HIDE DEF step, base, g, V
  <2> QED
    BY <1>1, <1>2, <1>5, Recursion
<1>7. ASSUME NEW n \in since..through
      PROVE  f[n] = IF n = since THEN base ELSE Go(n, f[n - 1])
  <2> HIDE DEF base, V, Go
  <2>1. CASE n = since
    BY <2>1, <1>6 DEF Computes
  <2>2. CASE n # since
    <3>1. n \in (since + 1)..through /\ n - 1 \in since..through
      BY <1>1, <2>2
    <3>2. f[n - 1] \in V /\ f[n] = step[<<n, f[n - 1]>>]
      BY <3>1, <1>6 DEF Computes
    <3>3. <<n, f[n - 1]>> \in (since..through) \X V
      BY <3>2
    <3> QED
      BY <3>2, <3>3, <2>2
  <2> QED
    BY <2>1, <2>2
<1>8. f = [n \in since..through |-> IF n = since THEN base ELSE Go(n, f[n - 1])]
  <2> HIDE DEF Go, base
  <2> QED
    BY <1>6, <1>7 DEF Computes
<1>9. g = [n \in since..through |-> IF n = since THEN base ELSE Go(n, g[n - 1])]
  <2> HIDE DEF Go, base
  <2> QED
    BY <1>8, Zenon
<1> HIDE DEF g, V
<1> DEFINE S == {n \in since..through : \A id \in Followed : FateHolds(g[n][id], since, n, id)}
<1>10. since \in S
  <2>1. since \in since..through /\ (since + 1)..since = {}
    BY <1>1
  <2>2. g[since] = base
    BY <1>9, <2>1
  <2>3. ASSUME NEW id \in Followed PROVE FateHolds(g[since][id], since, since, id)
    <3>1. g[since][id] = NONE
      BY <2>2
    <3> QED
      BY <3>1, <2>1 DEF FateHolds, FateSet, NONE
  <2> QED
    BY <2>1, <2>3
<1>11. ASSUME NEW n \in since..through, n # through, n \in S PROVE n + 1 \in S
  <2>1. n + 1 \in since..through /\ n + 1 # since /\ (n + 1) - 1 = n /\ n + 1 \in (since + 1)..sequence
    BY <1>1, <1>11
  <2>2. g[n + 1] = Go(n + 1, g[n])
    <3> HIDE DEF Go
    <3> QED
      BY <1>9, <2>1
  <2>3. ASSUME NEW id \in Followed PROVE FateHolds(g[n + 1][id], since, n + 1, id)
    <3>1. FateHolds(g[n][id], since, (n + 1) - 1, id)
      BY <1>11, <2>1
    <3>2. log[n + 1] # NoRows /\ id \in Ids
      BY <2>1, <1>1 DEF Unbroken
    <3>3. g[n + 1][id] = IF log[n + 1][id] = NONE THEN g[n][id] ELSE Then(g[n][id], log[n + 1][id])
      BY <2>2
    <3> DEFINE k == n + 1
    <3>4. k \in (since + 1)..sequence /\ log[k] # NoRows /\ FateHolds(g[n][id], since, k - 1, id)
      BY <2>1, <3>1, <3>2
    <3> HIDE DEF k
    <3>5. FateHolds(IF log[k][id] = NONE THEN g[n][id] ELSE Then(g[n][id], log[k][id]), since, k, id)
      BY <3>2, <3>4, FateStep
    <3> QED
      BY <3>3, <3>5 DEF k
  <2> QED
    BY <2>1, <2>3
<1> HIDE DEF S
<1>12. since..through \subseteq S
  BY <1>1, <1>10, <1>11, SetInduction
<1>13. through \in S
  BY <1>1, <1>12
<1> QED
  BY <1>3, <1>13 DEF S

-----------------------------------------------------------------------------
(* The answer of a /changes *)

\* A set of naturals with a bound in Nat that is not empty has a greatest element.
LEMMA GreatestNatural ==
    ASSUME NEW S \in SUBSET Nat, S # {}, NEW b \in Nat, \A m \in S : m <= b
    PROVE  \E x \in S : \A y \in S : y <= x
<1> DEFINE U == {x \in Nat : \A m \in S : m <= x}
<1>1. U \in SUBSET Nat /\ U # {}
  OBVIOUS
<1>2. PICK x \in U : \A y \in U : x <= y
  <2> HIDE DEF U
  <2> QED
    BY <1>1, LeastNatural
<1>3. ASSUME x \notin S PROVE FALSE
  <2>1. \A m \in S : m <= x /\ m # x
    BY <1>2, <1>3
  <2>2. PICK m \in S : TRUE
    OBVIOUS
  <2>3. x \in Nat /\ x > 0
    BY <2>1, <2>2, <1>2
  <2>4. x - 1 \in Nat /\ \A k \in S : k <= x - 1
    BY <2>1, <2>3
  <2>5. x - 1 \in U
    BY <2>4
  <2> QED
    BY <2>5, <1>2, <2>3
<1> QED
  BY <1>2, <1>3

\* What an answer is worth: the objects the new state has and the old one
\* had not, the ones the old state had alone, and the changed ones of both.
Exact(window, since, max) ==
    LET s == window.new_state
        old == existed[since]
        new == existed[s]
    IN /\ s \in since..sequence
       /\ window.created = (new \ old) \cap Followed
       /\ window.destroyed = (old \ new) \cap Followed
       /\ window.updated \subseteq old \cap new \cap Followed
       /\ \A id \in (old \cap new \cap Followed) \ window.updated :
            \A n \in (since + 1)..s : log[n][id] = NONE
       /\ window.has_more => s > since
       /\ max # NULL =>
            Cardinality(window.created \cup window.updated \cup window.destroyed) <= max

\* The answer Window computes is worth that, cut by a cap or not.
LEMMA WindowExact ==
    ASSUME TypeOK, LogInv, NEW since \in 0..sequence, Unbroken(since),
           NEW max \in MaxChanges \cup {NULL}, Window(since, max) # NoWindow
    PROVE  /\ Window(since, max) \in Windows
           /\ Exact(Window(since, max), since, max)
<1> DEFINE cut == IF max = NULL THEN Entered(since) ELSE Cut(since, max)
           last == CHOOSE n \in cut \cup {since} : \A m \in cut : m <= n
           all == cut = Entered(since)
           state == IF all THEN sequence ELSE last
           C == Listed(since, last, "created")
           U == Listed(since, last, "updated")
           D == Listed(since, last, "destroyed")
           W == [new_state |-> state, has_more |-> ~all, created |-> C, updated |-> U, destroyed |-> D]
<1>1. since \in Nat /\ sequence \in Nat /\ since <= sequence /\ sequence <= MaxSequence
      /\ MaxSequence \in Nat /\ Followed \subseteq Ids
  BY ChangesAssumption DEF TypeOK
<1>2. Window(since, max) = W /\ ~(~all /\ cut = {})
  BY DEF Window
<1>3. Entered(since) \subseteq (since + 1)..sequence
  BY DEF Entered
<1>4. cut \subseteq Entered(since) /\ cut \subseteq (since + 1)..sequence
  BY <1>3 DEF Cut
<1>5. last \in cut \cup {since} /\ \A m \in cut : m <= last
  <2> HIDE DEF cut
  <2>1. cut \cup {since} \in SUBSET Nat /\ cut \cup {since} # {}
        /\ \A m \in cut \cup {since} : m <= sequence
    BY <1>1, <1>4
  <2> DEFINE T == cut \cup {since}
  <2>2. \E x \in T : \A y \in T : y <= x
    <3> HIDE DEF T
    <3>1. T \in SUBSET Nat /\ T # {} /\ \A m \in T : m <= sequence
      BY <2>1 DEF T
    <3> QED
      BY <3>1, <1>1, GreatestNatural
  <2>3. \E n \in cut \cup {since} : \A m \in cut : m <= n
    BY <2>2
  <2> QED
    BY <2>3, Zenon
<1>6. max # NULL => \A n \in cut : Size(since, n) <= max
  <2> SUFFICES ASSUME max # NULL, NEW n \in cut PROVE Size(since, n) <= max
    OBVIOUS
  <2>1. n \in Entered(since) /\ \A m \in Entered(since) : m <= n => Size(since, m) <= max
    BY DEF Cut
  <2>2. n <= n
    BY <1>3, <2>1
  <2> QED
    BY <2>1, <2>2
<1> HIDE DEF cut, last
<1>7. last \in since..sequence
  BY <1>1, <1>4, <1>5
<1>8. \A id \in Followed : FateHolds(Fates(since, last)[id], since, last, id)
  BY <1>7, FatesFacts
<1>9. /\ C = {id \in Followed : Fates(since, last)[id] = "created"}
      /\ U = {id \in Followed : Fates(since, last)[id] = "updated"}
      /\ D = {id \in Followed : Fates(since, last)[id] = "destroyed"}
  BY DEF Listed
<1> HIDE DEF C, U, D
<1>10. \A id \in Followed : id \in existed[last] <=> id \in existed[state]
  <2> SUFFICES ASSUME NEW id \in Followed, all
               PROVE  id \in existed[last] <=> id \in existed[sequence]
    OBVIOUS
  <2>1. ASSUME NEW n \in (last + 1)..sequence PROVE log[n] # NoRows /\ log[n][id] = NONE
    <3>1. n \in (since + 1)..sequence /\ n > last
      BY <1>1, <1>7
    <3>2. n \notin Entered(since)
      BY <3>1, <1>5, <1>7
    <3> QED
      BY <3>1, <3>2 DEF Entered, Unbroken
  <2>2. last \in 0..sequence /\ sequence \in last..sequence /\ id \in Ids
    BY <1>1, <1>7
  <2> QED
    BY <2>1, <2>2, QuietSpan
<1>11. \A id \in Followed : \A n \in (since + 1)..state :
          (\A m \in (since + 1)..last : log[m][id] = NONE) => log[n][id] = NONE
  <2> SUFFICES ASSUME NEW id \in Followed, NEW n \in (since + 1)..state,
                      \A m \in (since + 1)..last : log[m][id] = NONE
               PROVE  log[n][id] = NONE
    OBVIOUS
  <2>1. CASE ~all
    BY <2>1
  <2>2. CASE all /\ n > last
    <3>1. n \in (since + 1)..sequence
      BY <2>2
    <3>2. n \notin Entered(since)
      BY <3>1, <2>2, <1>5, <1>7
    <3> QED
      BY <3>1, <3>2 DEF Entered
  <2>3. CASE all /\ ~(n > last)
    <3>1. n \in (since + 1)..last
      BY <2>3, <1>1, <1>7
    <3> QED
      BY <3>1
  <2> QED
    BY <2>1, <2>2, <2>3
<1>12. state \in since..sequence /\ (~all => state > since)
  <2>1. CASE all
    BY <2>1, <1>1
  <2>2. CASE ~all
    <3>1. PICK m \in cut : TRUE
      BY <1>2, <2>2
    <3>2. m > since /\ m <= last
      BY <1>1, <1>4, <1>5
    <3> QED
      BY <2>2, <3>2, <1>1, <1>4, <1>7
  <2> QED
    BY <2>1, <2>2
<1>13. max # NULL => Cardinality(C \cup U \cup D) <= max
  <2> SUFFICES ASSUME max # NULL PROVE Cardinality(C \cup U \cup D) <= max
    OBVIOUS
  <2>1. C \cup U \cup D = {id \in Followed : Fates(since, last)[id] \in Kinds}
    BY <1>9 DEF Kinds
  <2>2. CASE last \in cut
    BY <2>1, <2>2, <1>6 DEF Size
  <2>3. CASE last = since
    <3>1. (since + 1)..last = {}
      BY <2>3, <1>1
    <3>2. \A id \in Followed : Fates(since, last)[id] = NONE
      BY <3>1, <1>8 DEF FateHolds
    <3>3. C \cup U \cup D = {}
      BY <2>1, <3>2 DEF Kinds, NONE
    <3>4. max \in Nat
      BY ChangesAssumption
    <3> QED
      BY <3>3, <3>4, FS_EmptySet
  <2> QED
    BY <2>2, <2>3, <1>5
<1>14. /\ C = (existed[state] \ existed[since]) \cap Followed
       /\ D = (existed[since] \ existed[state]) \cap Followed
       /\ U \subseteq existed[since] \cap existed[state] \cap Followed
       /\ \A id \in (existed[since] \cap existed[state] \cap Followed) \ U :
            Fates(since, last)[id] = NONE
  <2>1. \A id \in Followed :
          /\ Fates(since, last)[id] \in FateSet
          /\ Fates(since, last)[id] = NONE => (id \in existed[since] <=> id \in existed[state])
          /\ Fates(since, last)[id] = "created" => id \notin existed[since] /\ id \in existed[state]
          /\ Fates(since, last)[id] = "updated" => id \in existed[since] /\ id \in existed[state]
          /\ Fates(since, last)[id] = "destroyed" => id \in existed[since] /\ id \notin existed[state]
          /\ Fates(since, last)[id] = "gone" => id \notin existed[since] /\ id \notin existed[state]
    BY <1>8, <1>10 DEF FateHolds
  <2> HIDE DEF state
  <2> QED
    BY <2>1, <1>9 DEF FateSet, Kinds
<1>15. \A id \in (existed[since] \cap existed[state] \cap Followed) \ U :
         \A n \in (since + 1)..state : log[n][id] = NONE
  <2> SUFFICES ASSUME NEW id \in (existed[since] \cap existed[state] \cap Followed) \ U,
                      NEW n \in (since + 1)..state
               PROVE  log[n][id] = NONE
    OBVIOUS
  <2>1. id \in Followed /\ Fates(since, last)[id] = NONE
    BY <1>14
  <2>2. \A m \in (since + 1)..last : log[m][id] = NONE
    BY <2>1, <1>8 DEF FateHolds
  <2> HIDE DEF state
  <2> QED
    BY <2>1, <2>2, <1>11
<1>16. C \in SUBSET Followed /\ U \in SUBSET Followed /\ D \in SUBSET Followed
  BY <1>9
<1>17. state \in NULL..MaxSequence /\ (~all) \in BOOLEAN
  BY <1>1, <1>12 DEF NULL
<1> HIDE DEF state, all
<1>18. W \in Windows
  BY <1>16, <1>17 DEF Windows
<1>19. W.new_state = state /\ W.has_more = (~all) /\ W.created = C /\ W.updated = U /\ W.destroyed = D
  OBVIOUS
<1> HIDE DEF W
<1>20. Exact(W, since, max)
  BY <1>12, <1>13, <1>14, <1>15, <1>19 DEF Exact
<1> QED
  BY <1>2, <1>18, <1>20

-----------------------------------------------------------------------------
(* The inductive invariant *)

\* A poll from the state names the object, or cannot be calculated.
Renamed(s, id) ==
    \/ ~Calculable(s)
    \/ \E n \in (s + 1)..sequence : log[n][id] # NONE

\* A client at the state may show the value.
Shows(s, id, value) == value = objects[id] \/ Renamed(s, id)

HeldInv ==
    client.state # NULL =>
      /\ client.state \in 0..sequence
      /\ \A id \in Followed :
           /\ Shows(client.state, id, client.held[id])
           /\ client.held[id] # 0 => id \in existed[client.state]

\* What landing the round would make the client show.
LandsWell(held, round) ==
    LET window == round.window
        s == window.new_state
        named == window.created \cup window.updated
    IN \A id \in Followed :
         /\ round.got[id] # NULL => id \in named
         /\ round.got[id] \notin {NULL, 0} => Shows(s, id, round.got[id])
         /\ round.got[id] = 0 => Renamed(s, id)
         /\ id \in window.destroyed => Shows(s, id, 0)
         /\ id \notin named \cup window.destroyed => Shows(s, id, held[id])

RoundInv ==
    /\ client.round # Idle => client.state # NULL
    /\ client.round.phase = "get" =>
         /\ client.round.since = client.state
         /\ Exact(client.round.window, client.round.since, client.round.max)
         /\ LandsWell(client.held, client.round)

IInv == TypeOK /\ LogInv /\ HeldInv /\ RoundInv

-----------------------------------------------------------------------------
(* A write *)

\* The later a sequence, the fewer rows at or above it.
LEMMA RowsFromFalls ==
    ASSUME NEW rows, NEW m \in Nat, NEW n \in Nat, m <= n
    PROVE  RowsFrom(rows, m) \in Nat /\ RowsFrom(rows, n) \in Nat
           /\ RowsFrom(rows, n) <= RowsFrom(rows, m)
<1> DEFINE S(k) == {p \in (k..MaxSequence) \X Ids : rows[p[1]][p[2]] # NONE}
<1>1. ASSUME NEW k \in Nat PROVE IsFiniteSet(S(k))
  <2>1. IsFiniteSet(k..MaxSequence)
    BY ChangesAssumption, FS_Interval
  <2>2. IsFiniteSet((k..MaxSequence) \X Ids)
    BY <2>1, ChangesAssumption, FS_Product
  <2>3. S(k) \subseteq (k..MaxSequence) \X Ids
    OBVIOUS
  <2> QED
    BY <2>2, <2>3, FS_Subset
<1>2. S(n) \subseteq S(m)
  <2>1. \A k \in n..MaxSequence : k \in m..MaxSequence
    BY ChangesAssumption
  <2> QED
    BY <2>1
<1>3. RowsFrom(rows, m) = Cardinality(S(m)) /\ RowsFrom(rows, n) = Cardinality(S(n))
  BY DEF RowsFrom
<1>4. IsFiniteSet(S(m)) /\ IsFiniteSet(S(n))
  BY <1>1
<1> HIDE DEF S
<1> QED
  BY <1>2, <1>3, <1>4, FS_Subset, FS_CardinalityType

\* What prune leaves of the rows up to a sequence: nothing or all of each,
\* the newest one whole, and a kept one with every later one.
LEMMA PrunedFacts ==
    ASSUME NEW rows \in [1..MaxSequence -> [Ids -> Kinds \cup {NONE}]],
           NEW top \in 1..MaxSequence,
           \A n \in 1..MaxSequence : n > top => rows[n] = NoRows
    PROVE  /\ Pruned(rows) \in [1..MaxSequence -> [Ids -> Kinds \cup {NONE}]]
           /\ \A n \in 1..MaxSequence : Pruned(rows)[n] \in {NoRows, rows[n]}
           /\ Pruned(rows)[top] = rows[top]
           /\ \A m, n \in 1..MaxSequence :
                m <= n /\ Pruned(rows)[m] # NoRows => Pruned(rows)[n] = rows[n]
<1>1. \A n \in 1..MaxSequence :
        Pruned(rows)[n] = IF RowsFrom(rows, n + 1) >= CHANGES_HORIZON THEN NoRows ELSE rows[n]
  BY DEF Pruned
<1>2. \A n \in 1..MaxSequence : Pruned(rows)[n] \in {NoRows, rows[n]}
  BY <1>1
<1>3. NoRows \in [Ids -> Kinds \cup {NONE}]
  BY DEF NoRows
<1>4. Pruned(rows) \in [1..MaxSequence -> [Ids -> Kinds \cup {NONE}]]
  <2>1. Pruned(rows) = [n \in 1..MaxSequence |-> Pruned(rows)[n]]
    BY DEF Pruned
  <2>2. \A n \in 1..MaxSequence : Pruned(rows)[n] \in [Ids -> Kinds \cup {NONE}]
    BY <1>2, <1>3
  <2> QED
    BY <2>1, <2>2
<1>5. Pruned(rows)[top] = rows[top]
  <2>1. ASSUME NEW p \in ((top + 1)..MaxSequence) \X Ids PROVE rows[p[1]][p[2]] = NONE
    <3>1. p[1] \in 1..MaxSequence /\ p[1] > top /\ p[2] \in Ids
      BY ChangesAssumption
    <3>2. rows[p[1]] = NoRows
      BY <3>1
    <3> QED
      BY <3>1, <3>2 DEF NoRows
  <2>2. {p \in ((top + 1)..MaxSequence) \X Ids : rows[p[1]][p[2]] # NONE} = {}
    BY <2>1
  <2>3. RowsFrom(rows, top + 1) = 0
    BY <2>2, FS_EmptySet DEF RowsFrom
  <2> QED
    BY <2>3, <1>1, ChangesAssumption
<1>6. ASSUME NEW m \in 1..MaxSequence, NEW n \in 1..MaxSequence, m <= n, Pruned(rows)[m] # NoRows
      PROVE  Pruned(rows)[n] = rows[n]
  <2>1. ~(RowsFrom(rows, m + 1) >= CHANGES_HORIZON)
    BY <1>1, <1>6
  <2> DEFINE a == m + 1
             b == n + 1
  <2>2. a \in Nat /\ b \in Nat /\ a <= b
    BY <1>6
  <2> HIDE DEF a, b
  <2>3. RowsFrom(rows, a) \in Nat /\ RowsFrom(rows, b) \in Nat /\ RowsFrom(rows, b) <= RowsFrom(rows, a)
    BY <2>2, RowsFromFalls
  <2>4. ~(RowsFrom(rows, n + 1) >= CHANGES_HORIZON)
    BY <2>1, <2>3, ChangesAssumption DEF a, b
  <2> QED
    BY <2>4, <1>1
<1> QED
  BY <1>2, <1>4, <1>5, <1>6

\* What one write does to the store, in the terms of the invariant.
Wrote(ledger) ==
    /\ sequence' = sequence + 1 /\ sequence + 1 \in 1..MaxSequence
    /\ ledger \in [Ids -> Kinds \cup {NONE}] /\ ledger # NoRows
    /\ log' = Pruned([log EXCEPT ![sequence + 1] = ledger])
    /\ objects' \in [Ids -> 0..MaxSequence]
    /\ existed' = [existed EXCEPT ![sequence + 1] = {id \in Ids : objects'[id] # 0}]
    /\ \A id \in Ids :
         /\ ledger[id] = NONE => objects'[id] = objects[id]
         /\ ledger[id] = "created" => objects[id] = 0 /\ objects'[id] # 0
         /\ ledger[id] = "updated" => objects[id] # 0 /\ objects'[id] # 0
         /\ ledger[id] = "destroyed" => objects[id] # 0 /\ objects'[id] = 0
    /\ client' = client /\ failures' = failures

\* Write is such a write, for some ledger.
LEMMA WriteWrites ==
    ASSUME TypeOK, Write PROVE \E ledger : Wrote(ledger)
<1>0. PICK ops \in UNION {[1..k -> [id : Ids, touch : BOOLEAN]] : k \in 1..MaxNotes} :
        /\ Written(ops).ledger # NoRows
        /\ objects' = Written(ops).objects
        /\ log' = Pruned([log EXCEPT ![sequence + 1] = Written(ops).ledger])
        /\ existed' = [existed EXCEPT ![sequence + 1] = Existing(Written(ops).objects)]
  BY DEF Write
<1>1. PICK n \in 1..MaxNotes : ops \in [1..n -> [id : Ids, touch : BOOLEAN]]
  BY <1>0
<1>2. /\ sequence < MaxSequence /\ sequence' = sequence + 1
      /\ client' = client /\ failures' = failures
  BY DEF Write
<1>3. n \in Nat /\ ops \in [1..n -> Ops] /\ sequence + 1 \in 1..MaxSequence
  BY <1>1, <1>2, ChangesAssumption DEF Ops, TypeOK
<1> DEFINE w == Written(ops)
<1>4. w \in Writes /\ \A id \in Ids : Accounts(w, id)
  BY <1>2, <1>3, WrittenFacts
<1> HIDE DEF w
<1>5. w.objects \in [Ids -> 0..MaxSequence] /\ w.ledger \in [Ids -> Kinds \cup {NONE}]
  BY <1>4 DEF Writes
<1>6. /\ w.ledger # NoRows /\ objects' = w.objects
      /\ log' = Pruned([log EXCEPT ![sequence + 1] = w.ledger])
      /\ existed' = [existed EXCEPT ![sequence + 1] = {id \in Ids : w.objects[id] # 0}]
  BY <1>0 DEF w, Existing
<1>7. Wrote(w.ledger)
  BY <1>2, <1>3, <1>4, <1>5, <1>6 DEF Wrote, Accounts
<1> QED
  BY <1>7

\* The rows a write leaves.
LEMMA WroteLog ==
    ASSUME TypeOK, LogInv, NEW ledger, Wrote(ledger)
    PROVE  /\ log' \in [1..MaxSequence -> [Ids -> Kinds \cup {NONE}]]
           /\ log'[sequence + 1] = ledger
           /\ \A n \in 1..sequence : log'[n] \in {NoRows, log[n]}
           /\ \A n \in 1..MaxSequence : n > sequence + 1 => log'[n] = NoRows
           /\ \A m, n \in 1..(sequence + 1) :
                m <= n /\ log'[m] # NoRows => log'[n] # NoRows
<1> DEFINE top == sequence + 1
           rows == [log EXCEPT ![top] = ledger]
<1>1. /\ top \in 1..MaxSequence /\ ledger \in [Ids -> Kinds \cup {NONE}] /\ ledger # NoRows
      /\ log' = Pruned(rows)
  BY DEF Wrote
<1>2. sequence \in Nat /\ MaxSequence \in Nat /\ sequence < top
  BY ChangesAssumption DEF TypeOK
<1>3. /\ rows \in [1..MaxSequence -> [Ids -> Kinds \cup {NONE}]] /\ rows[top] = ledger
      /\ \A n \in 1..MaxSequence : n # top => rows[n] = log[n]
  BY <1>1 DEF TypeOK
<1>4. \A n \in 1..sequence : n \in 1..MaxSequence /\ n # top
  BY <1>1, <1>2
<1> HIDE DEF rows
<1>5. \A n \in 1..MaxSequence : n > top => rows[n] = NoRows
  <2> SUFFICES ASSUME NEW n \in 1..MaxSequence, n > top PROVE rows[n] = NoRows
    OBVIOUS
  <2>1. n > sequence /\ n # top
    BY <1>2
  <2> QED
    BY <2>1, <1>3 DEF LogInv
<1>6. \A m, n \in 1..top : m \in 1..MaxSequence /\ n \in 1..MaxSequence
  BY <1>1, <1>2
<1>7. \A n \in 1..top : n # top => n \in 1..sequence
  BY <1>1, <1>2
<1> HIDE DEF top
<1>8. /\ log' \in [1..MaxSequence -> [Ids -> Kinds \cup {NONE}]]
      /\ \A n \in 1..MaxSequence : log'[n] \in {NoRows, rows[n]}
      /\ log'[top] = rows[top]
      /\ \A m, n \in 1..MaxSequence : m <= n /\ log'[m] # NoRows => log'[n] = rows[n]
  BY <1>1, <1>3, <1>5, PrunedFacts
<1>9. \A n \in 1..sequence : log'[n] \in {NoRows, log[n]}
  BY <1>3, <1>4, <1>8
<1>10. \A n \in 1..MaxSequence : n > top => log'[n] = NoRows
  BY <1>5, <1>8
<1>11. ASSUME NEW m \in 1..top, NEW n \in 1..top, m <= n, log'[m] # NoRows
       PROVE  log'[n] # NoRows
  <2>1. m \in 1..MaxSequence /\ n \in 1..MaxSequence /\ log'[n] = rows[n]
    BY <1>6, <1>8, <1>11
  <2>2. CASE n = top
    BY <2>1, <2>2, <1>1, <1>3
  <2>3. CASE n # top
    <3>1. n \in 1..sequence /\ m \in 1..sequence
      BY <1>7, <1>11, <2>3
    <3>2. log[m] # NoRows
      BY <3>1, <1>9, <1>11
    <3>3. log[n] # NoRows
      BY <3>1, <3>2, <1>11 DEF LogInv
    <3> QED
      BY <2>1, <2>3, <3>3, <1>3
  <2> QED
    BY <2>2, <2>3
<1>12. log'[top] = ledger
  BY <1>3, <1>8
<1> QED
  BY <1>8, <1>9, <1>10, <1>11, <1>12 DEF top

\* A write keeps the log's word.
LEMMA WriteKeepsLog ==
    ASSUME TypeOK, LogInv, NEW ledger, Wrote(ledger)
    PROVE  TypeOK' /\ LogInv'
<1> DEFINE top == sequence + 1
<1>1. sequence \in Nat /\ MaxSequence \in Nat /\ sequence < top /\ top - 1 = sequence
      /\ top \in 1..MaxSequence /\ sequence' = top /\ sequence' \in 0..MaxSequence
  BY ChangesAssumption DEF TypeOK, Wrote
<1>2. /\ log' \in [1..MaxSequence -> [Ids -> Kinds \cup {NONE}]]
      /\ log'[top] = ledger
      /\ \A n \in 1..sequence : log'[n] \in {NoRows, log[n]}
      /\ \A n \in 1..MaxSequence : n > top => log'[n] = NoRows
      /\ \A m, n \in 1..top : m <= n /\ log'[m] # NoRows => log'[n] # NoRows
  BY WroteLog
<1>3. /\ objects' \in [Ids -> 0..MaxSequence]
      /\ client' = client /\ failures' = failures /\ ledger # NoRows
      /\ ledger \in [Ids -> Kinds \cup {NONE}]
  BY DEF Wrote
<1>4. /\ existed' \in [0..MaxSequence -> SUBSET Ids]
      /\ existed'[top] = {id \in Ids : objects'[id] # 0}
      /\ \A n \in 0..sequence : existed'[n] = existed[n]
  <2>1. existed' = [existed EXCEPT ![top] = {id \in Ids : objects'[id] # 0}]
    BY DEF Wrote
  <2>2. top \in 0..MaxSequence /\ \A n \in 0..sequence : n \in 0..MaxSequence /\ n # top
    BY <1>1
  <2>3. existed \in [0..MaxSequence -> SUBSET Ids]
    BY DEF TypeOK
  <2> QED
    BY <2>1, <2>2, <2>3
<1>5. TypeOK'
  BY <1>1, <1>2, <1>3, <1>4 DEF TypeOK
<1>6. ASSUME NEW n \in 1..top, log'[n] # NoRows, NEW id \in Ids PROVE Tells(n, id)'
  <2>1. CASE n = top
    <3>1. existed'[n - 1] = {i \in Ids : objects[i] # 0}
      <4>1. n - 1 = sequence /\ sequence \in 0..sequence
        BY <2>1, <1>1
      <4> QED
        BY <4>1, <1>4 DEF LogInv, Existing
    <3>2. existed'[n] = {i \in Ids : objects'[i] # 0} /\ log'[n] = ledger
      BY <2>1, <1>2, <1>4
    <3>3. /\ ledger[id] = NONE => objects'[id] = objects[id]
          /\ ledger[id] = "created" => objects[id] = 0 /\ objects'[id] # 0
          /\ ledger[id] = "updated" => objects[id] # 0 /\ objects'[id] # 0
          /\ ledger[id] = "destroyed" => objects[id] # 0 /\ objects'[id] = 0
      BY DEF Wrote
    <3> QED
      BY <3>1, <3>2, <3>3 DEF Tells
  <2>2. CASE n # top
    <3>1. n \in 1..sequence /\ n \in 0..sequence /\ n - 1 \in 0..sequence
      BY <2>2, <1>1
    <3>2. existed'[n] = existed[n] /\ existed'[n - 1] = existed[n - 1]
      BY <3>1, <1>4
    <3>3. log'[n] = log[n]
      BY <3>1, <1>2, <1>6
    <3>4. Tells(n, id)
      BY <3>1, <3>3, <1>6 DEF LogInv
    <3> QED
      BY <3>2, <3>3, <3>4 DEF Tells
  <2> QED
    BY <2>1, <2>2
<1>7. LogInv'
  <2>1. existed'[sequence'] = {id \in Ids : objects'[id] # 0}
    BY <1>1, <1>4
  <2>2. log'[sequence'] # NoRows
    BY <1>1, <1>2, <1>3
  <2> HIDE DEF top
  <2> QED
    BY <1>1, <1>2, <1>6, <2>1, <2>2 DEF LogInv, Existing, NoRows
<1> QED
  BY <1>5, <1>7

\* What a client may show before a write it may show after it: an object
\* the write changes has a row at the new state.
LEMMA WriteKeepsShows ==
    ASSUME TypeOK, LogInv, NEW ledger, Wrote(ledger),
           NEW s \in 0..sequence, NEW id \in Ids
    PROVE  /\ Renamed(s, id) => Renamed(s, id)'
           /\ \A value : Shows(s, id, value) => Shows(s, id, value)'
<1> DEFINE top == sequence + 1
<1>1. sequence \in Nat /\ s \in Nat /\ s <= sequence /\ sequence' = top /\ s \in 0..top
  BY DEF TypeOK, Wrote
<1>2. /\ log'[top] = ledger
      /\ \A n \in 1..sequence : log'[n] \in {NoRows, log[n]}
  BY WroteLog
<1>3. Calculable(s) <=> Unbroken(s)
  BY CalculableIsUnbroken DEF CalculableMeans
<1>4. Calculable(s)' <=> Unbroken(s)'
  <2>1. (TypeOK /\ LogInv => CalculableMeans)'
    BY CalculableIsUnbroken, PTL
  <2>2. TypeOK' /\ LogInv'
    BY WriteKeepsLog
  <2>3. CalculableMeans'
    BY <2>1, <2>2
  <2>4. s \in 0..sequence'
    BY <1>1
  <2> QED
    BY <2>3, <2>4 DEF CalculableMeans
<1>5. \A n \in (s + 1)..sequence : n \in 1..sequence /\ n \in (s + 1)..top
  BY <1>1
<1>6. top \in (s + 1)..top
  BY <1>1
<1>7. ASSUME Renamed(s, id) PROVE Renamed(s, id)'
  <2>1. CASE ~Calculable(s)
    <3>1. PICK n \in (s + 1)..sequence : log[n] = NoRows
      BY <2>1, <1>3 DEF Unbroken
    <3>2. log'[n] = NoRows /\ n \in (s + 1)..top
      BY <3>1, <1>2, <1>5
    <3>3. ~Calculable(s)'
      BY <3>2, <1>1, <1>4 DEF Unbroken, NoRows
    <3> QED
      BY <3>3 DEF Renamed
  <2>2. CASE \E n \in (s + 1)..sequence : log[n][id] # NONE
    <3>1. PICK n \in (s + 1)..sequence : log[n][id] # NONE
      BY <2>2
    <3>2. n \in 1..sequence /\ n \in (s + 1)..top
      BY <1>5
    <3>3. CASE log'[n] = NoRows
      <4>1. ~Calculable(s)'
        BY <3>2, <3>3, <1>1, <1>4 DEF Unbroken, NoRows
      <4> QED
        BY <4>1 DEF Renamed
    <3>4. CASE log'[n] = log[n]
      <4>1. \E k \in (s + 1)..sequence' : log'[k][id] # NONE
        BY <3>1, <3>2, <3>4, <1>1
      <4> QED
        BY <4>1 DEF Renamed, NONE
    <3> QED
      BY <3>2, <3>3, <3>4, <1>2
  <2> QED
    BY <1>7, <2>1, <2>2 DEF Renamed
<1>8. ASSUME NEW value, Shows(s, id, value) PROVE Shows(s, id, value)'
  <2>1. CASE Renamed(s, id)
    BY <2>1, <1>7 DEF Shows
  <2>2. CASE value = objects[id] /\ ledger[id] = NONE
    <3>1. objects'[id] = objects[id]
      BY <2>2 DEF Wrote
    <3> QED
      BY <2>2, <3>1 DEF Shows
  <2>3. CASE ledger[id] # NONE
    <3>1. \E k \in (s + 1)..sequence' : log'[k][id] # NONE
      BY <2>3, <1>1, <1>2, <1>6
    <3> QED
      BY <3>1 DEF Shows, Renamed, NONE
  <2> QED
    BY <1>8, <2>1, <2>2, <2>3 DEF Shows
<1> QED
  BY <1>7, <1>8

\* A write keeps the answer a client holds exact: the states it lies between
\* are past.
LEMMA WriteKeepsExact ==
    ASSUME TypeOK, LogInv, NEW ledger, Wrote(ledger),
           NEW window, NEW since \in 0..sequence, NEW max, Exact(window, since, max)
    PROVE  Exact(window, since, max)'
<1> DEFINE s == window.new_state
<1>1. sequence \in Nat /\ sequence' = sequence + 1 /\ since \in Nat /\ s \in since..sequence
  BY DEF TypeOK, Wrote, Exact
<1>2. existed'[since] = existed[since] /\ existed'[s] = existed[s]
  <2>1. existed' = [existed EXCEPT ![sequence + 1] = {id \in Ids : objects'[id] # 0}]
    BY DEF Wrote
  <2>2. existed \in [0..MaxSequence -> SUBSET Ids] /\ sequence \in 0..MaxSequence /\ MaxSequence \in Nat
    BY ChangesAssumption DEF TypeOK
  <2>3. /\ since \in 0..MaxSequence /\ since # sequence + 1
        /\ s \in 0..MaxSequence /\ s # sequence + 1
    BY <1>1, <2>2
  <2> HIDE DEF s
  <2> QED
    BY <2>1, <2>2, <2>3
<1>3. \A id \in Followed : \A n \in (since + 1)..s : log[n][id] = NONE => log'[n][id] = NONE
  <2> SUFFICES ASSUME NEW id \in Followed, NEW n \in (since + 1)..s, log[n][id] = NONE
               PROVE  log'[n][id] = NONE
    OBVIOUS
  <2>1. n \in 1..sequence
    BY <1>1
  <2>2. log'[n] \in {NoRows, log[n]}
    BY <2>1, WroteLog
  <2>3. id \in Ids
    BY ChangesAssumption
  <2> QED
    BY <2>2, <2>3 DEF NoRows
<1>4. s \in since..sequence'
  BY <1>1
<1> QED
  BY <1>2, <1>3, <1>4 DEF Exact, NONE, NULL

\* What may be landed stays fit to be landed while clients may show what
\* they might.
LEMMA LandsWellStays ==
    ASSUME NEW held, NEW round, LandsWell(held, round),
           \A id \in Followed :
             /\ Renamed(round.window.new_state, id) => Renamed(round.window.new_state, id)'
             /\ \A value : Shows(round.window.new_state, id, value)
                             => Shows(round.window.new_state, id, value)'
    PROVE  LandsWell(held, round)'
BY DEF LandsWell, NULL

\* A write leaves a client's store and round sound.
LEMMA WriteKeeps ==
    ASSUME IInv, Write PROVE IInv'
<1>1. TypeOK /\ LogInv /\ HeldInv /\ RoundInv
  BY DEF IInv
<1>2. PICK ledger : Wrote(ledger)
  BY <1>1, WriteWrites
<1>3. TypeOK' /\ LogInv'
  BY <1>1, <1>2, WriteKeepsLog
<1>4. client' = client /\ sequence' = sequence + 1 /\ sequence \in Nat
      /\ \A s \in 0..sequence : s \in 0..sequence'
  BY <1>1, <1>2 DEF Wrote, TypeOK
<1>5. \A n \in 0..sequence : existed'[n] = existed[n]
  <2>1. existed' = [existed EXCEPT ![sequence + 1] = {id \in Ids : objects'[id] # 0}]
    BY <1>2 DEF Wrote
  <2>2. existed \in [0..MaxSequence -> SUBSET Ids] /\ sequence \in 0..MaxSequence /\ MaxSequence \in Nat
    BY <1>1, ChangesAssumption DEF TypeOK
  <2>3. \A n \in 0..sequence : n \in 0..MaxSequence /\ n # sequence + 1
    BY <2>2
  <2> QED
    BY <2>1, <2>2, <2>3
<1>6. \A id \in Followed : id \in Ids
  BY ChangesAssumption
<1>7. \A s \in 0..sequence : \A id \in Followed :
        /\ Renamed(s, id) => Renamed(s, id)'
        /\ \A value : Shows(s, id, value) => Shows(s, id, value)'
  BY <1>1, <1>2, <1>6, WriteKeepsShows
<1>8. HeldInv'
  <2> SUFFICES ASSUME client.state # NULL
               PROVE  /\ client.state \in 0..sequence'
                      /\ \A id \in Followed :
                           /\ Shows(client.state, id, client.held[id])'
                           /\ client.held[id] # 0 => id \in existed'[client.state]
    BY <1>4 DEF HeldInv, NULL
  <2>1. PICK s, held : s = client.state /\ held = client.held
    OBVIOUS
  <2>2. s \in 0..sequence /\ \A id \in Followed : Shows(s, id, held[id]) /\ (held[id] # 0 => id \in existed[s])
    BY <1>1, <2>1 DEF HeldInv
  <2>3. s \in 0..sequence' /\ existed'[s] = existed[s]
    BY <2>2, <1>4, <1>5
  <2>4. ASSUME NEW id \in Followed PROVE Shows(s, id, held[id])'
    BY <2>2, <1>7
  <2> QED
    BY <2>1, <2>2, <2>3, <2>4, <1>4
<1>9. RoundInv'
  <2>1. client.round # Idle => client.state # NULL
    BY <1>1 DEF RoundInv
  <2>2. ASSUME client.round.phase = "get"
        PROVE  /\ client.round.since = client.state
               /\ Exact(client.round.window, client.round.since, client.round.max)'
               /\ LandsWell(client.held, client.round)'
    <3>1. PICK round, held : round = client.round /\ held = client.held
      OBVIOUS
    <3>2. PICK window, since, max : window = round.window /\ since = round.since /\ max = round.max
      OBVIOUS
    <3>3. /\ since = client.state /\ Exact(window, since, max) /\ LandsWell(held, round)
      BY <1>1, <2>2, <3>1, <3>2 DEF RoundInv
    <3>4. client.state # NULL
      BY <2>1, <2>2 DEF Idle
    <3>5. since \in 0..sequence /\ window.new_state \in 0..sequence
      <4>1. since \in 0..sequence
        BY <1>1, <3>3, <3>4 DEF HeldInv
      <4>2. window.new_state \in since..sequence
        BY <3>3 DEF Exact
      <4> QED
        BY <4>1, <4>2, <1>4
    <3>6. Exact(window, since, max)'
      BY <1>1, <1>2, <3>3, <3>5, WriteKeepsExact
    <3>7. LandsWell(held, round)'
      BY <3>2, <3>3, <3>5, <1>7, LandsWellStays
    <3> QED
      BY <3>1, <3>2, <3>3, <3>6, <3>7, <1>4
  <2> QED
    BY <1>4, <2>1, <2>2 DEF RoundInv, Idle, NoWindow, NULL
<1> QED
  BY <1>3, <1>8, <1>9 DEF IInv

-----------------------------------------------------------------------------
(* The client's round *)

StoreStays == UNCHANGED <<objects, sequence, log, existed>>

\* While the store stays, what a client may show, what an answer is worth
\* and what may be landed stay.
LEMMA StoreStaysFacts ==
    ASSUME StoreStays
    PROVE  /\ LogInv => LogInv'
           /\ \A s, id : Renamed(s, id)' <=> Renamed(s, id)
           /\ \A s, id, value : Shows(s, id, value)' <=> Shows(s, id, value)
           /\ \A window, since, max : Exact(window, since, max)' <=> Exact(window, since, max)
           /\ \A held, round : LandsWell(held, round)' <=> LandsWell(held, round)
<1>1. objects' = objects /\ sequence' = sequence /\ log' = log /\ existed' = existed
  BY DEF StoreStays
<1>2. LogInv => LogInv'
  BY <1>1 DEF LogInv, Existing, Tells, NoRows, NONE
<1>3. OldestKept' = OldestKept
  BY <1>1 DEF OldestKept, NoRows, NONE, NULL
<1>4. \A s : Calculable(s)' <=> Calculable(s)
  BY <1>1, <1>3 DEF Calculable, NULL
<1>5. \A s, id : Renamed(s, id)' <=> Renamed(s, id)
  BY <1>1, <1>4 DEF Renamed, NONE
<1>6. \A s, id, value : Shows(s, id, value)' <=> Shows(s, id, value)
  BY <1>1, <1>5 DEF Shows
<1>7. \A window, since, max : Exact(window, since, max)' <=> Exact(window, since, max)
  BY <1>1 DEF Exact, NULL, NONE
<1>8. \A held, round : LandsWell(held, round)' <=> LandsWell(held, round)
  BY <1>5, <1>6 DEF LandsWell, NULL
<1> QED
  BY <1>2, <1>5, <1>6, <1>7, <1>8

\* A client that holds what it may show, in a round that lands well, as the
\* invariant has it.
ClientHolds(c) ==
    /\ c.state # NULL =>
         /\ c.state \in 0..sequence
         /\ \A id \in Followed :
              /\ Shows(c.state, id, c.held[id])
              /\ c.held[id] # 0 => id \in existed[c.state]
    /\ c.round # Idle => c.state # NULL
    /\ c.round.phase = "get" =>
         /\ c.round.since = c.state
         /\ Exact(c.round.window, c.round.since, c.round.max)
         /\ LandsWell(c.held, c.round)

Clients == [held : [Followed -> 0..MaxSequence], state : NULL..MaxSequence, round : Rounds]

\* A step of the client keeps the invariant when the client it leaves holds it.
LEMMA ClientStep ==
    ASSUME IInv, StoreStays, NEW c \in Clients, client' = c, failures' \in 0..MaxFailures, ClientHolds(c)
    PROVE  IInv'
<1>1. objects' = objects /\ sequence' = sequence /\ log' = log /\ existed' = existed
  BY DEF StoreStays
<1>2. TypeOK'
  BY <1>1 DEF IInv, TypeOK, Clients, Kinds, NONE, NULL, Rounds, Windows
<1>3. LogInv'
  BY StoreStaysFacts DEF IInv
<1>4. ClientHolds(c)'
  BY <1>1, StoreStaysFacts DEF ClientHolds, NULL, Idle, NoWindow
<1>5. HeldInv'
  BY <1>4 DEF ClientHolds, HeldInv
<1>6. RoundInv'
  BY <1>4 DEF ClientHolds, RoundInv
<1> QED
  BY <1>2, <1>3, <1>5, <1>6 DEF IInv

\* The client as the invariant has it.
LEMMA ClientNow ==
    ASSUME IInv
    PROVE  client \in Clients /\ ClientHolds(client) /\ TypeOK /\ LogInv
BY DEF IInv, TypeOK, Clients, ClientHolds, HeldInv, RoundInv

\* The parts of a round between requests.
LEMMA IdleFacts ==
    Idle \in Rounds /\ Idle.phase = "idle"
<1>1. NoWindow \in Windows
  BY ChangesAssumption DEF NoWindow, Windows, NULL
<1>2. NULL \in NULL..MaxSequence /\ NULL \in MaxChanges \cup {NULL}
  BY ChangesAssumption DEF NULL
<1> QED
  BY <1>1, <1>2 DEF Idle, Rounds

\* An object that a state has not, in a log unbroken from it: no value of
\* it, or a row to come.
LEMMA AbsentShows ==
    ASSUME TypeOK, LogInv, NEW s \in 0..sequence, NEW id \in Ids, id \notin existed[s]
    PROVE  Shows(s, id, 0)
<1> SUFFICES ASSUME Calculable(s), \A n \in (s + 1)..sequence : log[n][id] = NONE
             PROVE  objects[id] = 0
  BY DEF Shows, Renamed
<1>1. Unbroken(s)
  BY CalculableIsUnbroken DEF CalculableMeans
<1>2. sequence \in s..sequence
  BY DEF TypeOK
<1>3. id \notin existed[sequence]
  BY <1>1, <1>2, QuietSpan DEF Unbroken
<1> QED
  BY <1>3 DEF LogInv, Existing

\* An object that a state has and the store has not is named after it.
LEMMA GoneIsRenamed ==
    ASSUME TypeOK, LogInv, NEW s \in 0..sequence, NEW id \in Ids, id \in existed[s], objects[id] = 0
    PROVE  Renamed(s, id)
<1> SUFFICES ASSUME Calculable(s), \A n \in (s + 1)..sequence : log[n][id] = NONE
             PROVE  FALSE
  BY DEF Renamed
<1>1. Unbroken(s)
  BY CalculableIsUnbroken DEF CalculableMeans
<1>2. sequence \in s..sequence
  BY DEF TypeOK
<1>3. id \in existed[sequence]
  BY <1>1, <1>2, QuietSpan DEF Unbroken
<1> QED
  BY <1>3 DEF LogInv, Existing

\* /changes is answered: landing the answer as it is would do no harm.
LEMMA AskKeeps ==
    ASSUME IInv, Ask PROVE IInv'
<1>1. client \in Clients /\ ClientHolds(client) /\ TypeOK /\ LogInv
  BY ClientNow
<1>2. PICK max \in MaxChanges \cup {NULL} :
        client' = [client EXCEPT !.round =
             LET window == IF Calculable(client.state) THEN Window(client.state, max)
                                                       ELSE NoWindow
             IN [phase |-> IF window = NoWindow THEN "refetch" ELSE "get",
                 max |-> max, since |-> client.state, window |-> window, got |-> Idle.got]]
  BY DEF Ask
<1>3. client.state # NULL /\ StoreStays /\ failures' \in 0..MaxFailures
  BY <1>1 DEF Ask, StoreStays, TypeOK
<1> DEFINE since == client.state
           held == client.held
           window == IF Calculable(since) THEN Window(since, max) ELSE NoWindow
           phase == IF window = NoWindow THEN "refetch" ELSE "get"
           got == [id \in Followed |-> NULL]
           round == [phase |-> phase, max |-> max, since |-> since, window |-> window, got |-> got]
           c == [held |-> held, state |-> since, round |-> round]
<1>4. client = [held |-> client.held, state |-> client.state, round |-> client.round]
      /\ held \in [Followed -> 0..MaxSequence] /\ since \in NULL..MaxSequence
  BY <1>1 DEF Clients
<1>5. client' = c
  <2>1. client' = [client EXCEPT !.round = [phase |-> phase, max |-> max, since |-> since,
                                            window |-> window, got |-> Idle.got]]
    BY <1>2
  <2>2. Idle.got = got
    BY DEF Idle
  <2> HIDE DEF phase, window, got
  <2>3. client' = [client EXCEPT !.round = round]
    BY <2>1, <2>2
  <2> HIDE DEF round
  <2> QED
    BY <1>4, <2>3
<1>6. /\ since \in 0..sequence
      /\ \A id \in Followed : Shows(since, id, held[id]) /\ (held[id] # 0 => id \in existed[since])
  BY <1>1, <1>3 DEF ClientHolds
<1>7. /\ window \in Windows
      /\ phase = "get" => Calculable(since) /\ Unbroken(since) /\ Exact(window, since, max)
  <2>1. CASE Calculable(since) /\ Window(since, max) # NoWindow
    <3>1. Unbroken(since)
      BY <1>1, <1>6, <2>1, CalculableIsUnbroken DEF CalculableMeans
    <3>2. Window(since, max) \in Windows /\ Exact(Window(since, max), since, max)
      <4> HIDE DEF since
      <4> QED
        BY <1>1, <1>6, <2>1, <3>1, WindowExact
    <3> QED
      BY <2>1, <3>1, <3>2
  <2>2. CASE ~(Calculable(since) /\ Window(since, max) # NoWindow)
    <3>1. window = NoWindow
      BY <2>2
    <3>2. NoWindow \in Windows
      BY ChangesAssumption DEF NoWindow, Windows, NULL
    <3> QED
      BY <3>1, <3>2
  <2> QED
    BY <2>1, <2>2
<1>8. phase \in {"idle", "get", "refetch"} /\ got \in [Followed -> NULL..MaxSequence]
  BY ChangesAssumption DEF NULL
<1> HIDE DEF window, phase
<1>9. c \in Clients
  <2> HIDE DEF since, held, got
  <2>1. round \in Rounds
    BY <1>4, <1>7, <1>8 DEF Rounds
  <2> HIDE DEF round
  <2> QED
    BY <1>4, <2>1 DEF Clients
<1>10. ASSUME phase = "get" PROVE LandsWell(held, round)
  <2> DEFINE s == window.new_state
  <2>1. Unbroken(since) /\ Exact(window, since, max)
    BY <1>7, <1>10
  <2>2. s \in since..sequence /\ s \in 0..sequence
    BY <1>1, <1>6, <2>1 DEF Exact, TypeOK
  <2>3. round.window = window /\ round.got = got
    OBVIOUS
  <2>4. ASSUME NEW id \in Followed, id \notin existed[s] PROVE Shows(s, id, 0)
    <3> HIDE DEF s
    <3>1. id \in Ids
      BY ChangesAssumption
    <3> QED
      BY <1>1, <2>2, <2>4, <3>1, AbsentShows
  <2>5. ASSUME NEW id \in Followed, id \in window.destroyed PROVE Shows(s, id, 0)
    BY <2>1, <2>4, <2>5 DEF Exact
  <2>6. ASSUME NEW id \in Followed, id \notin window.created \cup window.updated \cup window.destroyed
        PROVE  Shows(s, id, held[id])
    <3>1. CASE held[id] = objects[id]
      BY <3>1 DEF Shows
    <3>2. CASE id \in existed[since] /\ id \in existed[s] /\ held[id] # objects[id]
      <4>1. \A n \in (since + 1)..s : log[n][id] = NONE
        BY <3>2, <2>1, <2>6 DEF Exact
      <4>2. PICK n \in (since + 1)..sequence : log[n][id] # NONE
        BY <3>2, <1>6, <1>7, <1>10 DEF Shows, Renamed
      <4>3. n \in (s + 1)..sequence
        BY <4>1, <4>2, <1>1, <1>6, <2>2 DEF TypeOK
      <4> QED
        BY <4>2, <4>3 DEF Shows, Renamed
    <3>3. CASE id \notin existed[since] /\ id \notin existed[s]
      <4>1. held[id] = 0
        BY <3>3, <1>6
      <4> QED
        BY <4>1, <3>3, <2>4
    <3>4. id \in existed[since] <=> id \in existed[s]
      BY <2>1, <2>6 DEF Exact
    <3> QED
      BY <3>1, <3>2, <3>3, <3>4
  <2>7. \A id \in Followed : round.got[id] = NULL /\ NULL # 0
    BY <2>3 DEF NULL
  <2> HIDE DEF round, s
  <2> QED
    BY <2>3, <2>5, <2>6, <2>7 DEF LandsWell, s
<1>11. ClientHolds(c)
  <2>1. c.held = held /\ c.state = since /\ c.round = round /\ round.phase = phase
        /\ round.since = since /\ round.window = window /\ round.max = max
    OBVIOUS
  <2> HIDE DEF c, round
  <2> QED
    BY <2>1, <1>3, <1>6, <1>7, <1>10 DEF ClientHolds
<1> HIDE DEF c
<1> QED
  BY <1>3, <1>5, <1>9, <1>11, ClientStep

\* A /get reads a named object as the store has it now.
LEMMA GetKeeps ==
    ASSUME IInv, Get PROVE IInv'
<1>1. client \in Clients /\ ClientHolds(client) /\ TypeOK /\ LogInv
  BY ClientNow
<1>2. PICK id \in Named :
        /\ client.round.got[id] = NULL
        /\ client' = [client EXCEPT !.round.got[id] = objects[id]]
  BY DEF Get
<1>3. client.round.phase = "get" /\ StoreStays /\ failures' \in 0..MaxFailures
  BY <1>1 DEF Get, StoreStays, TypeOK
<1> DEFINE r == client.round
           window == r.window
           s == window.new_state
           got == [r.got EXCEPT ![id] = objects[id]]
           round == [phase |-> r.phase, max |-> r.max, since |-> r.since, window |-> window, got |-> got]
           c == [held |-> client.held, state |-> client.state, round |-> round]
<1>4. /\ client = [held |-> client.held, state |-> client.state, round |-> r]
      /\ r = [phase |-> r.phase, max |-> r.max, since |-> r.since, window |-> window, got |-> r.got]
      /\ r \in Rounds /\ window \in Windows
      /\ client.held \in [Followed -> 0..MaxSequence] /\ client.state \in NULL..MaxSequence
  BY <1>1 DEF Clients, Rounds
<1>5. client' = c
  BY <1>2, <1>4
<1>6. /\ client.state # NULL /\ client.state \in 0..sequence
      /\ r.since = client.state /\ Exact(window, r.since, r.max) /\ LandsWell(client.held, r)
      /\ \A i \in Followed : Shows(client.state, i, client.held[i])
                             /\ (client.held[i] # 0 => i \in existed[client.state])
  BY <1>1, <1>3, IdleFacts DEF ClientHolds
<1>7. Named = window.created \cup window.updated
  BY DEF Named
<1>8. id \in Followed /\ id \in Ids /\ id \in window.created \cup window.updated
  BY <1>2, <1>4, <1>7, ChangesAssumption DEF Windows
<1>9. s \in 0..sequence /\ id \in existed[s]
  BY <1>1, <1>6, <1>8 DEF Exact, TypeOK
<1>10. objects[id] \in 0..MaxSequence /\ r.got \in [Followed -> NULL..MaxSequence]
  BY <1>1, <1>4, <1>8 DEF TypeOK, Rounds
<1>11. got \in [Followed -> NULL..MaxSequence]
  BY <1>8, <1>10, ChangesAssumption DEF NULL
<1>12. got[id] = objects[id] /\ \A i \in Followed : i # id => got[i] = r.got[i]
  BY <1>8, <1>10
<1>13. Shows(s, id, objects[id]) /\ (objects[id] = 0 => Renamed(s, id))
  <2> HIDE DEF s
  <2> QED
    BY <1>1, <1>8, <1>9, GoneIsRenamed DEF Shows
<1> HIDE DEF got
<1>14. round \in Rounds
  BY <1>4, <1>11 DEF Rounds
<1>15. round.window = window /\ round.got = got /\ round.phase = "get" /\ round.since = r.since /\ round.max = r.max
  BY <1>3
<1> HIDE DEF round
<1>16. c \in Clients
  BY <1>4, <1>14 DEF Clients
<1>17. LandsWell(client.held, round)
  <2> SUFFICES ASSUME NEW i \in Followed
               PROVE  /\ got[i] # NULL => i \in window.created \cup window.updated
                      /\ got[i] \notin {NULL, 0} => Shows(s, i, got[i])
                      /\ got[i] = 0 => Renamed(s, i)
                      /\ i \in window.destroyed => Shows(s, i, 0)
                      /\ i \notin (window.created \cup window.updated) \cup window.destroyed
                           => Shows(s, i, client.held[i])
    BY <1>15 DEF LandsWell
  <2>1. /\ r.got[i] # NULL => i \in window.created \cup window.updated
        /\ r.got[i] \notin {NULL, 0} => Shows(s, i, r.got[i])
        /\ r.got[i] = 0 => Renamed(s, i)
        /\ i \in window.destroyed => Shows(s, i, 0)
        /\ i \notin (window.created \cup window.updated) \cup window.destroyed
             => Shows(s, i, client.held[i])
    BY <1>6 DEF LandsWell
  <2> HIDE DEF r, window, s
  <2>2. CASE i = id
    BY <2>1, <2>2, <1>8, <1>12, <1>13
  <2>3. CASE i # id
    BY <2>1, <2>3, <1>12
  <2> QED
    BY <2>2, <2>3
<1>18. ClientHolds(c)
  <2>1. c.held = client.held /\ c.state = client.state /\ c.round = round
    OBVIOUS
  <2> HIDE DEF c
  <2> QED
    BY <2>1, <1>6, <1>15, <1>17 DEF ClientHolds
<1> HIDE DEF c
<1> QED
  BY <1>3, <1>5, <1>16, <1>18, ClientStep

\* The round lands.
LEMMA LandKeeps ==
    ASSUME IInv, Land PROVE IInv'
<1>1. client \in Clients /\ ClientHolds(client) /\ TypeOK /\ LogInv
  BY ClientNow
<1> DEFINE r == client.round
           window == r.window
           s == window.new_state
           held == [id \in Followed |->
                      IF r.got[id] \notin {NULL, 0} THEN r.got[id]
                      ELSE IF id \in window.destroyed THEN 0 ELSE client.held[id]]
           c == [held |-> held, state |-> s, round |-> Idle]
<1>2. /\ r.phase = "get" /\ StoreStays /\ failures' \in 0..MaxFailures
      /\ \A id \in window.created \cup window.updated : r.got[id] # NULL
      /\ client' = c
  BY <1>1 DEF Land, Landed, StoreStays, TypeOK, Named
<1>3. /\ r.got \in [Followed -> NULL..MaxSequence] /\ window \in Windows
      /\ client.held \in [Followed -> 0..MaxSequence] /\ s \in NULL..MaxSequence
  BY <1>1 DEF Clients, Rounds, Windows
<1>4. /\ client.state \in 0..sequence
      /\ r.since = client.state /\ Exact(window, client.state, r.max) /\ LandsWell(client.held, r)
      /\ \A id \in Followed : client.held[id] # 0 => id \in existed[client.state]
  BY <1>1, <1>2, IdleFacts DEF ClientHolds
<1>5. s \in 0..sequence
  BY <1>1, <1>4 DEF Exact, TypeOK
<1>6. held \in [Followed -> 0..MaxSequence]
  <2> SUFFICES ASSUME NEW id \in Followed
               PROVE  (IF r.got[id] \notin {NULL, 0} THEN r.got[id]
                       ELSE IF id \in window.destroyed THEN 0 ELSE client.held[id]) \in 0..MaxSequence
    OBVIOUS
  <2>1. r.got[id] \in NULL..MaxSequence /\ client.held[id] \in 0..MaxSequence
    BY <1>3
  <2> QED
    BY <2>1, ChangesAssumption DEF NULL
<1>7. \A id \in Followed :
        held[id] = IF r.got[id] \notin {NULL, 0} THEN r.got[id]
                   ELSE IF id \in window.destroyed THEN 0 ELSE client.held[id]
  OBVIOUS
<1> HIDE DEF held
<1>8. ASSUME NEW id \in Followed PROVE Shows(s, id, held[id]) /\ (held[id] # 0 => id \in existed[s])
  <2>1. /\ r.got[id] # NULL => id \in window.created \cup window.updated
        /\ r.got[id] \notin {NULL, 0} => Shows(s, id, r.got[id])
        /\ r.got[id] = 0 => Renamed(s, id)
        /\ id \in window.destroyed => Shows(s, id, 0)
        /\ id \notin (window.created \cup window.updated) \cup window.destroyed
             => Shows(s, id, client.held[id])
    BY <1>4 DEF LandsWell
  <2>2. /\ window.created = (existed[s] \ existed[client.state]) \cap Followed
        /\ window.destroyed = (existed[client.state] \ existed[s]) \cap Followed
        /\ window.updated \subseteq existed[client.state] \cap existed[s] \cap Followed
    BY <1>4 DEF Exact
  <2>3. \A v : Renamed(s, id) => Shows(s, id, v)
    BY DEF Shows
  <2>4. id \in window.created \cup window.updated => r.got[id] # NULL
    BY <1>2
  <2>5. client.held[id] # 0 => id \in existed[client.state]
    BY <1>4
  <2> HIDE DEF r, window, s
  <2>6. CASE r.got[id] \notin {NULL, 0}
    <3>1. held[id] = r.got[id]
      BY <2>6, <1>7
    <3> QED
      BY <2>1, <2>2, <2>6, <3>1
  <2>7. CASE r.got[id] \in {NULL, 0} /\ id \in window.destroyed
    <3>1. held[id] = 0
      BY <2>7, <1>7
    <3> QED
      BY <2>1, <2>7, <3>1
  <2>8. CASE r.got[id] \in {NULL, 0} /\ id \notin window.destroyed
    <3>1. held[id] = client.held[id]
      BY <2>8, <1>7
    <3>2. Shows(s, id, held[id])
      BY <2>1, <2>3, <2>4, <2>8, <3>1
    <3> QED
      BY <2>2, <2>5, <2>8, <3>1, <3>2
  <2> QED
    BY <2>6, <2>7, <2>8
<1>9. c \in Clients
  BY <1>3, <1>6, IdleFacts DEF Clients
<1>10. ClientHolds(c)
  <2>1. c.held = held /\ c.state = s /\ c.round = Idle /\ s # NULL
    BY <1>5 DEF NULL
  <2> HIDE DEF c, s
  <2> QED
    BY <2>1, <1>5, <1>8, IdleFacts DEF ClientHolds
<1> HIDE DEF c
<1> QED
  BY <1>2, <1>9, <1>10, ClientStep

\* The client reads everything.
LEMMA HydrateKeeps ==
    ASSUME IInv, Hydrate PROVE IInv'
<1>1. client \in Clients /\ ClientHolds(client) /\ TypeOK /\ LogInv
  BY ClientNow
<1> DEFINE held == [id \in Followed |-> objects[id]]
           c == [held |-> held, state |-> sequence, round |-> Idle]
<1>2. client' = c /\ StoreStays /\ failures' \in 0..MaxFailures
  BY <1>1 DEF Hydrate, StoreStays, TypeOK
<1>3. /\ held \in [Followed -> 0..MaxSequence] /\ sequence \in NULL..MaxSequence
      /\ sequence \in 0..sequence /\ sequence # NULL
  BY <1>1, ChangesAssumption DEF TypeOK, NULL
<1>4. \A id \in Followed : held[id] = objects[id] /\ (held[id] # 0 => id \in existed[sequence])
  BY <1>1, ChangesAssumption DEF LogInv, Existing
<1> HIDE DEF held
<1>5. c \in Clients
  BY <1>3, IdleFacts DEF Clients
<1>6. ClientHolds(c)
  <2>1. c.held = held /\ c.state = sequence /\ c.round = Idle
    OBVIOUS
  <2> HIDE DEF c
  <2> QED
    BY <2>1, <1>3, <1>4, IdleFacts DEF ClientHolds, Shows
<1> HIDE DEF c
<1> QED
  BY <1>2, <1>5, <1>6, ClientStep

\* A round that fails leaves the client as it was before it.
LEMMA RoundFailsKeeps ==
    ASSUME IInv, RoundFails PROVE IInv'
<1>1. client \in Clients /\ ClientHolds(client) /\ TypeOK /\ LogInv
  BY ClientNow
<1> DEFINE c == [held |-> client.held, state |-> client.state, round |-> Idle]
<1>2. client = [held |-> client.held, state |-> client.state, round |-> client.round]
  BY <1>1 DEF Clients
<1>3. client' = c /\ StoreStays /\ failures' \in 0..MaxFailures
  BY <1>1, <1>2, ChangesAssumption DEF RoundFails, StoreStays, TypeOK
<1>4. c \in Clients
  BY <1>1, IdleFacts DEF Clients
<1>5. ClientHolds(c)
  <2>1. c.held = client.held /\ c.state = client.state /\ c.round = Idle
    OBVIOUS
  <2> HIDE DEF c
  <2> QED
    BY <2>1, <1>1, IdleFacts DEF ClientHolds
<1> HIDE DEF c
<1> QED
  BY <1>3, <1>4, <1>5, ClientStep

-----------------------------------------------------------------------------
(* The theorems *)

\* The account begins empty, with an empty log and a client that has read nothing.
LEMMA InitHolds == Init => IInv
<1> SUFFICES ASSUME Init PROVE IInv
  OBVIOUS
<1> USE ChangesAssumption
<1>1. /\ client.state = NULL /\ client.round = Idle
      /\ client.held \in [Followed -> 0..MaxSequence] /\ NULL \in NULL..MaxSequence
  BY DEF Init, NULL
<1>2. client \in Clients
  BY <1>1, IdleFacts DEF Init, Clients
<1>3. TypeOK
  BY <1>2 DEF Init, TypeOK, Clients, NoRows
<1>4. LogInv
  BY DEF Init, LogInv, Existing
<1>5. HeldInv /\ RoundInv
  BY <1>1, IdleFacts DEF HeldInv, RoundInv
<1> QED
  BY <1>3, <1>4, <1>5 DEF IInv

\* Every step keeps the invariant.
LEMMA StepKeeps == IInv /\ [Next]_vars => IInv'
<1> SUFFICES ASSUME IInv, [Next]_vars PROVE IInv'
  OBVIOUS
<1>1. CASE Write
  BY <1>1, WriteKeeps
<1>2. CASE Ask
  BY <1>2, AskKeeps
<1>3. CASE Get
  BY <1>3, GetKeeps
<1>4. CASE Land
  BY <1>4, LandKeeps
<1>5. CASE Hydrate
  BY <1>5, HydrateKeeps
<1>6. CASE RoundFails
  BY <1>6, RoundFailsKeeps
<1>7. CASE UNCHANGED vars
  <2>1. client \in Clients /\ ClientHolds(client) /\ TypeOK
    BY ClientNow
  <2>2. client' = client /\ StoreStays /\ failures' \in 0..MaxFailures
    BY <1>7, <2>1 DEF vars, StoreStays, TypeOK
  <2>3. PICK c : c = client
    OBVIOUS
  <2> QED
    BY <2>1, <2>2, <2>3, ClientStep
<1> QED
  BY <1>1, <1>2, <1>3, <1>4, <1>5, <1>6, <1>7 DEF Next, Round

\* The invariant holds in every state.
THEOREM Invariance == Spec => []IInv
  BY InitHolds, StepKeeps, PTL DEF Spec

\* The store and the client keep their types.
THEOREM ChangeLogTypeCorrect == Spec => []TypeOK
<1>1. IInv => TypeOK
  BY DEF IInv
<1> QED
  BY <1>1, Invariance, PTL

\* Whatever a client shows wrong, its next poll names or cannot answer: no
\* order of writes, prunings, capped answers, late reads and failed rounds
\* leaves an object wrong that no later /changes mentions.
THEOREM NothingIsMissed == Spec => []NothingMissed
<1>1. IInv => NothingMissed
  BY DEF IInv, HeldInv, NothingMissed, Shows, Renamed
<1> QED
  BY <1>1, Invariance, PTL

\* The three lists of every /changes answer are the ones RFC 8620 asks for,
\* over any writes since the old state, with a cap or without.
THEOREM AnswersAreExact == Spec => []AnswerExact
<1>1. IInv => AnswerExact
  <2> SUFFICES ASSUME IInv, client.round.phase = "get" PROVE AnswerExact
    BY DEF AnswerExact
  <2>1. Exact(client.round.window, client.round.since, client.round.max)
    BY DEF IInv, RoundInv
  <2> QED
    BY <2>1 DEF Exact, AnswerExact
<1> QED
  BY <1>1, Invariance, PTL

=============================================================================
