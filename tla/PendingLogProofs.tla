--------------------------- MODULE PendingLogProofs ---------------------------
(***************************************************************************)
(* What the pending log promises the user, for every number of emails,     *)
(* mailboxes, tabs, changes, meddling writes and faults: an open toast     *)
(* holds its destroy, taking the rows of an email back gives what the      *)
(* server said last, and no change is lost.                                *)
(*                                                                         *)
(* The argument.  The rows of an email always lead from what the server    *)
(* said of it to its header, each inverse undoing its patch (Fitting):     *)
(* whoever lets rows go or lands a state lays the others over it again.    *)
(* Where the server differs from what it said, another client wrote or a   *)
(* change went out (Mail), so rows that never went out and end where they  *)
(* began cost nothing to drop, and a refused row is owed no longer because *)
(* nothing else of its email was out.  A lost answer leaves the rows       *)
(* marked; what an answer took (Took) is what its rows say.                *)
(***************************************************************************)
EXTENDS PendingLog, FiniteSetTheorems, SequenceTheorems, WellFoundedInduction, TLAPS

-----------------------------------------------------------------------------
(* Induction and recursion over an interval *)

\* A set of naturals that is not empty has a least element.
LEMMA LeastNatural ==
    ASSUME NEW S \in SUBSET Nat, S # {}
    PROVE  \E x \in S : \A y \in S : x <= y
<1> DEFINE R == OpToRel(<, Nat)
<1>1. \E x \in S : \A y \in S : ~(<<y, x>> \in R)
  BY NatLessThanWellFounded, WFMin
<1>2. R = {p \in Nat \X Nat : p[1] < p[2]}
  BY DEF OpToRel
<1> HIDE DEF R
<1>3. PICK x \in S : \A y \in S : ~(<<y, x>> \in R)
  BY <1>1
<1>4. ASSUME NEW y \in S PROVE x <= y
  <2>1. <<y, x>> \notin R /\ x \in Nat /\ y \in Nat
    BY <1>3
  <2>2. ~(y < x)
    BY <2>1, <1>2
  <2> QED
    BY <2>1, <2>2
<1> QED
  BY <1>4

\* Induction over an interval, for the set of the positions a fact holds at.
LEMMA SetInduction ==
    ASSUME NEW n \in Nat, NEW S, 0 \in S,
           \A i \in 0..n : i # n /\ i \in S => i + 1 \in S
    PROVE  0..n \subseteq S
<1> SUFFICES ASSUME 0..n \ S # {} PROVE FALSE
  OBVIOUS
<1>1. 0..n \ S \in SUBSET Nat
  OBVIOUS
<1>2. PICK x \in 0..n \ S : \A y \in 0..n \ S : x <= y
  BY <1>1, LeastNatural
<1>3. x \in 0..n /\ x # 0 /\ x \notin S
  BY <1>2
<1>4. x - 1 \in 0..n /\ x - 1 # n /\ (x - 1) + 1 = x /\ ~(x <= x - 1)
  BY <1>3
<1>5. x - 1 \in S
  BY <1>2, <1>4
<1> QED
  BY <1>3, <1>4, <1>5

\* The values of a step at each position after the first, from the value
\* before it.
Steps(n, V) == [(1..n) \X V -> V]

\* The function with a value at zero and a step to every later position.
Computes(f, n, V, base, step) ==
    /\ f \in [0..n -> V]
    /\ f[0] = base
    /\ \A i \in 1..n : f[i] = step[<<i, f[i - 1]>>]

\* A value at zero and a step to every later position make a function.
LEMMA Recursion ==
    ASSUME NEW n \in Nat, NEW V, NEW base \in V, NEW step \in Steps(n, V)
    PROVE  \E f : Computes(f, n, V, base, step)
<1> USE DEF Steps
<1> DEFINE Good(k, f) == f[0] = base /\ \A i \in 1..k : f[i] = step[<<i, f[i - 1]>>]
<1> DEFINE S == {k \in 0..n : \E f \in [0..k -> V] : Good(k, f)}
<1>1. 0 \in S
  <2> DEFINE f == [i \in 0..0 |-> base]
  <2>1. f \in [0..0 -> V] /\ Good(0, f)
    OBVIOUS
  <2> HIDE DEF f
  <2>2. 0 \in 0..n
    OBVIOUS
  <2> QED
    BY <2>1, <2>2
<1>2. ASSUME NEW k \in 0..n, k # n, k \in S PROVE k + 1 \in S
  <2>1. PICK f \in [0..k -> V] : Good(k, f)
    BY <1>2
  <2> DEFINE g == [i \in 0..(k + 1) |-> IF i = k + 1 THEN step[<<k + 1, f[k]>>] ELSE f[i]]
  <2>2. g \in [0..(k + 1) -> V]
    BY <1>2
  <2>3. g[k + 1] = step[<<k + 1, f[k]>>] /\ \A i \in 0..k : g[i] = f[i]
    OBVIOUS
  <2> HIDE DEF g
  <2>4. ASSUME NEW i \in 1..(k + 1) PROVE g[i] = step[<<i, g[i - 1]>>]
    <3>1. CASE i = k + 1
      <4>1. i - 1 = k /\ k \in 0..k
        BY <3>1
      <4>2. g[k] = f[k]
        BY <2>3, <4>1
      <4> QED
        BY <3>1, <4>1, <4>2, <2>3
    <3>2. CASE i # k + 1
      <4>1. i \in 1..k /\ i \in 0..k /\ i - 1 \in 0..k
        BY <3>2
      <4>2. f[i] = step[<<i, f[i - 1]>>]
        BY <4>1, <2>1
      <4> QED
        BY <4>1, <4>2, <2>3
    <3> QED
      BY <3>1, <3>2
  <2>5. g[0] = base
    BY <2>1, <2>3
  <2>6. k + 1 \in 0..n
    BY <1>2
  <2> QED
    BY <2>2, <2>4, <2>5, <2>6
<1> HIDE DEF S
<1>3. 0..n \subseteq S
  BY <1>1, <1>2, SetInduction
<1>4. n \in S
  BY <1>3
<1>5. PICK f \in [0..n -> V] : Good(n, f)
  BY <1>4 DEF S
<1>6. Computes(f, n, V, base, step)
  BY <1>5 DEF Computes
<1> QED
  BY <1>6

-----------------------------------------------------------------------------
(* Rows picked from a sequence, in their order *)

\* p lists the positions of S in their order.
Lists(p, n, S) ==
    /\ n \in Nat /\ p \in [1..n -> S]
    /\ \A i, j \in 1..n : i < j => p[i] < p[j]
    /\ \A x \in S : \E i \in 1..n : p[i] = x

\* The positions p leads to.
Image(p, T) == {p[i] : i \in T}

\* p leads from the rows of s to where they stand.
Places(p, s, rows, S) == Lists(p, Len(s), S) /\ s = [i \in 1..Len(s) |-> rows[p[i]]]

\* s has the rows at the positions S, in their order.
Picks(s, rows, S) ==
    \E p : Lists(p, Len(s), S) /\ s = [i \in 1..Len(s) |-> rows[p[i]]]

\* One list of a set begins as another does, as far as it goes.
LEMMA ListsBegin ==
    ASSUME NEW S \in SUBSET Nat, NEW n, NEW m, NEW p, NEW q,
           Lists(p, n, S), Lists(q, m, S)
    PROVE  n <= m /\ \A i \in 1..n : p[i] = q[i]
<1> USE DEF Lists
<1> DEFINE T == {k \in 0..n : k <= m /\ \A i \in 1..k : p[i] = q[i]}
<1>1. 0 \in T
  OBVIOUS
<1>2. ASSUME NEW k \in 0..n, k # n, k \in T PROVE k + 1 \in T
  <2>1. k + 1 \in 1..n /\ p[k + 1] \in S /\ k <= m
    BY <1>2
  <2>2. PICK j \in 1..m : q[j] = p[k + 1]
    BY <2>1
  <2>3. ~(j <= k)
    <3> SUFFICES ASSUME j <= k PROVE FALSE
      OBVIOUS
    <3>1. j \in 1..k /\ j \in 1..n /\ j < k + 1
      BY <2>1
    <3>2. p[j] = q[j] /\ p[j] < p[k + 1] /\ p[j] \in Nat
      BY <3>1, <2>1, <1>2
    <3> QED
      BY <3>2, <2>2, <2>1
  <2>4. k + 1 <= m /\ k + 1 \in 1..m
    BY <2>3, <2>1
  <2>5. PICK i \in 1..n : p[i] = q[k + 1]
    BY <2>4
  <2>6. ~(i <= k)
    <3> SUFFICES ASSUME i <= k PROVE FALSE
      OBVIOUS
    <3>1. i \in 1..k /\ i \in 1..m /\ i < k + 1
      BY <2>4
    <3>2. p[i] = q[i] /\ q[i] < q[k + 1] /\ q[i] \in Nat
      BY <3>1, <2>4, <1>2
    <3> QED
      BY <3>2, <2>5, <2>4
  <2>7. p[k + 1] <= q[k + 1]
    <3>1. i = k + 1 \/ k + 1 < i
      BY <2>6
    <3>2. p[k + 1] \in Nat /\ p[i] \in Nat
      BY <2>1
    <3> QED
      BY <3>1, <3>2, <2>5, <2>1
  <2>8. q[k + 1] <= p[k + 1]
    <3>1. j = k + 1 \/ k + 1 < j
      BY <2>3
    <3>2. q[k + 1] \in Nat /\ q[j] \in Nat
      BY <2>4
    <3> QED
      BY <3>1, <3>2, <2>2, <2>4
  <2>9. p[k + 1] = q[k + 1]
    <3>1. p[k + 1] \in Nat /\ q[k + 1] \in Nat
      BY <2>1, <2>4
    <3> QED
      BY <2>7, <2>8, <3>1
  <2> QED
    BY <1>2, <2>4, <2>9
<1> HIDE DEF T
<1>3. 0..n \subseteq T
  BY <1>1, <1>2, SetInduction
<1>4. n \in T
  BY <1>3
<1> QED
  BY <1>4 DEF T

\* A set of positions has one list.
LEMMA ListsUnique ==
    ASSUME NEW S \in SUBSET Nat, NEW n, NEW m, NEW p, NEW q,
           Lists(p, n, S), Lists(q, m, S)
    PROVE  n = m /\ p = q
<1>1. n <= m /\ \A i \in 1..n : p[i] = q[i]
  BY ListsBegin
<1>4. m <= n
  BY ListsBegin
<1>2. n \in Nat /\ m \in Nat /\ p \in [1..n -> S] /\ q \in [1..m -> S]
  BY DEF Lists
<1>3. n = m
  BY <1>1, <1>2, <1>4
<1> QED
  BY <1>1, <1>2, <1>3

\* The rows at some positions make one sequence.
LEMMA PicksUnique ==
    ASSUME NEW R, NEW rows \in Seq(R), NEW S \in SUBSET (1..Len(rows)),
           NEW s, NEW t, Picks(s, rows, S), Picks(t, rows, S)
    PROVE  s = t
<1>1. PICK p : Lists(p, Len(s), S) /\ s = [i \in 1..Len(s) |-> rows[p[i]]]
  BY DEF Picks
<1>2. PICK q : Lists(q, Len(t), S) /\ t = [i \in 1..Len(t) |-> rows[q[i]]]
  BY DEF Picks
<1>3. S \in SUBSET Nat
  OBVIOUS
<1>4. Len(s) = Len(t) /\ p = q
  BY <1>1, <1>2, <1>3, ListsUnique
<1> QED
  BY <1>1, <1>2, <1>4

\* Rows picked from rows that were picked.
LEMMA PicksOfPicks ==
    ASSUME NEW R, NEW rows \in Seq(R), NEW S \in SUBSET (1..Len(rows)),
           NEW s \in Seq(R), NEW t \in Seq(R), NEW p,
           Places(p, s, rows, S), NEW T \in SUBSET (1..Len(s)), Picks(t, s, T)
    PROVE  Picks(t, rows, Image(p, T))
<1>1. PICK q : Lists(q, Len(t), T) /\ t = [i \in 1..Len(t) |-> s[q[i]]]
  BY DEF Picks
<1> DEFINE r == [i \in 1..Len(t) |-> p[q[i]]]
           U == Image(p, T)
<1> USE DEF Image, Places
<1>2. Len(t) \in Nat /\ Len(s) \in Nat /\ Len(rows) \in Nat
  OBVIOUS
<1>3. q \in [1..Len(t) -> T] /\ p \in [1..Len(s) -> S]
  BY <1>1 DEF Lists
<1>4. r \in [1..Len(t) -> U]
  BY <1>3
<1>5. ASSUME NEW i \in 1..Len(t), NEW j \in 1..Len(t), i < j PROVE r[i] < r[j]
  <2>1. q[i] < q[j] /\ q[i] \in 1..Len(s) /\ q[j] \in 1..Len(s)
    BY <1>1, <1>3, <1>5 DEF Lists
  <2> QED
    BY <2>1 DEF Lists
<1>6. ASSUME NEW x \in U PROVE \E i \in 1..Len(t) : r[i] = x
  <2>1. PICK k \in T : p[k] = x
    OBVIOUS
  <2>2. PICK i \in 1..Len(t) : q[i] = k
    BY <1>1 DEF Lists
  <2> QED
    BY <2>1, <2>2
<1>7. Lists(r, Len(t), U)
  BY <1>2, <1>4, <1>5, <1>6 DEF Lists
<1>8. t = [i \in 1..Len(t) |-> rows[r[i]]]
  <2>1. ASSUME NEW i \in 1..Len(t) PROVE s[q[i]] = rows[r[i]]
    <3>1. q[i] \in 1..Len(s)
      BY <1>3
    <3> QED
      BY <3>1
  <2> QED
    BY <2>1, <1>1
<1> HIDE DEF r, U
<1>9. Picks(t, rows, U)
  BY <1>7, <1>8 DEF Picks
<1> QED
  BY <1>9 DEF U

\* The positions picked so far, one row further.
LEMMA PicksOneMore ==
    ASSUME NEW R, NEW rows \in Seq(R), NEW S \in SUBSET (1..Len(rows)),
           NEW i \in 1..Len(rows), NEW s \in Seq(R), Picks(s, rows, S \cap (1..(i - 1))),
           NEW t, t = IF i \in S THEN Append(s, rows[i]) ELSE s
    PROVE  Picks(t, rows, S \cap (1..i))
<1> DEFINE B == S \cap (1..(i - 1))
           C == S \cap (1..i)
<1>1. CASE i \notin S
  <2>1. C = B
    BY <1>1
  <2> QED
    BY <1>1, <2>1
<1>2. CASE i \in S
  <2>1. PICK p : Lists(p, Len(s), B) /\ s = [k \in 1..Len(s) |-> rows[p[k]]]
    BY DEF Picks
  <2> DEFINE n == Len(s)
             q == [k \in 1..(n + 1) |-> IF k = n + 1 THEN i ELSE p[k]]
  <2>2. n \in Nat /\ rows[i] \in R
    OBVIOUS
  <2>3. t \in Seq(R) /\ Len(t) = n + 1 /\ t[n + 1] = rows[i] /\ \A k \in 1..n : t[k] = s[k]
    <3>1. t = Append(s, rows[i])
      BY <1>2
    <3> QED
      BY <2>2, <3>1
  <2>4. p \in [1..n -> B] /\ C = B \cup {i}
    BY <2>1, <1>2 DEF Lists
  <2>5. q \in [1..(n + 1) -> C]
    BY <2>2, <2>4
  <2>6. ASSUME NEW k \in 1..(n + 1), NEW l \in 1..(n + 1), k < l PROVE q[k] < q[l]
    <3>1. k \in 1..n /\ q[k] = p[k] /\ p[k] \in 1..(i - 1)
      <4>1. k \in 1..n /\ k # n + 1
        BY <2>6, <2>2
      <4> QED
        BY <4>1, <2>4
    <3>2. CASE l = n + 1
      BY <3>1, <3>2
    <3>3. CASE l # n + 1
      <4>1. l \in 1..n /\ q[l] = p[l]
        BY <3>3, <2>2
      <4> QED
        BY <4>1, <3>1, <2>1, <2>6 DEF Lists
    <3> QED
      BY <3>2, <3>3
  <2>7. ASSUME NEW x \in C PROVE \E k \in 1..(n + 1) : q[k] = x
    <3>1. CASE x = i
      BY <3>1, <2>2
    <3>2. CASE x # i
      <4>1. x \in B
        BY <3>2, <2>4
      <4>2. PICK k \in 1..n : p[k] = x
        BY <4>1, <2>1 DEF Lists
      <4>3. k \in 1..(n + 1) /\ k # n + 1
        BY <2>2
      <4> QED
        BY <4>2, <4>3
    <3> QED
      BY <3>1, <3>2
  <2>8. Lists(q, n + 1, C)
    BY <2>2, <2>5, <2>6, <2>7 DEF Lists
  <2>9. t = [k \in 1..(n + 1) |-> rows[q[k]]]
    <3>1. ASSUME NEW k \in 1..(n + 1) PROVE t[k] = rows[q[k]]
      <4>1. CASE k = n + 1
        BY <4>1, <2>3
      <4>2. CASE k # n + 1
        <5>1. k \in 1..n
          BY <4>2, <2>2
        <5> QED
          BY <5>1, <4>2, <2>3, <2>1
      <4> QED
        BY <4>1, <4>2
    <3>2. DOMAIN t = 1..(n + 1)
      BY <2>3
    <3>3. t = [k \in DOMAIN t |-> t[k]]
      BY <2>3
    <3> QED
      BY <3>1, <3>2, <3>3
  <2>10. Picks(t, rows, C)
    <3>1. Lists(q, Len(t), C) /\ t = [k \in 1..Len(t) |-> rows[q[k]]]
      BY <2>8, <2>9, <2>3
    <3> HIDE DEF q, C
    <3> QED
      BY <3>1 DEF Picks
  <2> QED
    BY <2>10
<1> QED
  BY <1>1, <1>2

\* The rows picked along a sequence.
Picking(g, rows, S) ==
    g = [i \in 0..Len(rows) |->
           IF i = 0 THEN <<>> ELSE IF i \in S THEN Append(g[i - 1], rows[i]) ELSE g[i - 1]]

\* The recursion Picked is defined by has a solution.
LEMMA PickingExists ==
    ASSUME NEW R, NEW rows \in Seq(R), NEW S \in SUBSET (1..Len(rows))
    PROVE  \E g : Picking(g, rows, S)
<1> DEFINE n == Len(rows)
           V == Seq(R)
           base == <<>>
           step == [p \in (1..n) \X V |-> IF p[1] \in S THEN Append(p[2], rows[p[1]]) ELSE p[2]]
<1>1. n \in Nat /\ base \in V
  OBVIOUS
<1>2. step \in Steps(n, V)
  <2>1. ASSUME NEW p \in (1..n) \X V
        PROVE  (IF p[1] \in S THEN Append(p[2], rows[p[1]]) ELSE p[2]) \in V
    <3>1. p[1] \in 1..n /\ p[2] \in Seq(R) /\ rows[p[1]] \in R
      OBVIOUS
    <3> QED
      BY <3>1
  <2> HIDE DEF V
  <2> QED
    BY <2>1 DEF Steps
<1>3. PICK f : Computes(f, n, V, base, step)
  <2> HIDE DEF n, V, base, step
  <2> QED
    BY <1>1, <1>2, Recursion
<1>4. f \in [0..n -> V] /\ f[0] = <<>>
  BY <1>3 DEF Computes
<1>5. ASSUME NEW i \in 0..n
      PROVE  f[i] = IF i = 0 THEN <<>> ELSE IF i \in S THEN Append(f[i - 1], rows[i]) ELSE f[i - 1]
  <2>1. CASE i = 0
    BY <2>1, <1>4
  <2>2. CASE i # 0
    <3>1. i \in 1..n /\ i - 1 \in 0..n
      BY <2>2, <1>1
    <3>2. f[i] = step[<<i, f[i - 1]>>]
      BY <1>3, <3>1 DEF Computes
    <3>3. <<i, f[i - 1]>> \in (1..n) \X V
      BY <1>4, <3>1
    <3> QED
      BY <3>2, <3>3, <2>2
  <2> QED
    BY <2>1, <2>2
<1>6. Picking(f, rows, S)
  BY <1>4, <1>5 DEF Picking
<1> QED
  BY <1>6

\* What a solution picks.
LEMMA PickingPicks ==
    ASSUME NEW R, NEW rows \in Seq(R), NEW S \in SUBSET (1..Len(rows)), NEW g,
           Picking(g, rows, S)
    PROVE  g[Len(rows)] \in Seq(R) /\ Picks(g[Len(rows)], rows, S)
<1> DEFINE n == Len(rows)
           T == {i \in 0..n : g[i] \in Seq(R) /\ Picks(g[i], rows, S \cap (1..i))}
<1>1. n \in Nat
  OBVIOUS
<1>2. \A i \in 0..n : g[i] = IF i = 0 THEN <<>>
                             ELSE IF i \in S THEN Append(g[i - 1], rows[i]) ELSE g[i - 1]
  <2>1. g = [i \in 0..n |->
              IF i = 0 THEN <<>> ELSE IF i \in S THEN Append(g[i - 1], rows[i]) ELSE g[i - 1]]
    BY DEF Picking
  <2> QED
    BY <2>1, Zenon
<1>3. 0 \in T
  <2>1. 0 \in 0..n /\ g[0] = <<>>
    BY <1>1, <1>2
  <2>2. Picks(<<>>, rows, S \cap (1..0))
    <3> DEFINE p == [k \in 1..0 |-> k]
    <3>1. Lists(p, Len(<<>>), S \cap (1..0))
      BY DEF Lists
    <3>2. <<>> = [k \in 1..Len(<<>>) |-> rows[p[k]]]
      OBVIOUS
    <3> QED
      BY <3>1, <3>2 DEF Picks
  <2>3. <<>> \in Seq(R)
    OBVIOUS
  <2> QED
    BY <2>1, <2>2, <2>3
<1>4. ASSUME NEW i \in 0..n, i # n, i \in T PROVE i + 1 \in T
  <2> DEFINE j == i + 1
  <2>1. j \in 1..n /\ j \in 0..n /\ j # 0 /\ j - 1 = i
    BY <1>1, <1>4
  <2>2. g[i] \in Seq(R) /\ Picks(g[i], rows, S \cap (1..(j - 1)))
    BY <1>4, <2>1
  <2>3. g[j] = IF j \in S THEN Append(g[i], rows[j]) ELSE g[i]
    BY <1>2, <2>1
  <2> HIDE DEF j
  <2>4. Picks(g[j], rows, S \cap (1..j))
    BY <2>1, <2>2, <2>3, PicksOneMore
  <2>5. g[j] \in Seq(R)
    <3>1. rows[j] \in R
      BY <2>1
    <3> QED
      BY <3>1, <2>2, <2>3
  <2>6. j \in T
    BY <2>1, <2>4, <2>5
  <2> QED
    BY <2>6 DEF j
<1> HIDE DEF T
<1>5. 0..n \subseteq T
  BY <1>1, <1>3, <1>4, SetInduction
<1>6. n \in T
  BY <1>1, <1>5
<1>7. S \cap (1..n) = S
  OBVIOUS
<1> QED
  BY <1>6, <1>7 DEF T

-----------------------------------------------------------------------------
(* What the operators of the log pick *)

States == SUBSET Members
Patches == UNION {[S -> BOOLEAN] : S \in SUBSET Members}
Rows == [seq : Nat, id : Emails, patch : Patches, inverse : Patches,
         sent : BOOLEAN, destroy : BOOLEAN, held : BOOLEAN, lease : Tabs]

\* The rows of an email.
LEMMA RowsOfPicks ==
    ASSUME NEW rows \in Seq(Rows), NEW e
    PROVE  /\ RowsOf(rows, e) \in Seq(Rows)
           /\ Picks(RowsOf(rows, e), rows, {i \in 1..Len(rows) : rows[i].id = e})
<1> DEFINE S == {i \in 1..Len(rows) : rows[i].id = e}
           g == CHOOSE g : g = [i \in 0..Len(rows) |->
                  IF i = 0 THEN <<>>
                  ELSE IF rows[i].id = e THEN Append(g[i - 1], rows[i]) ELSE g[i - 1]]
<1>1. RowsOf(rows, e) = g[Len(rows)]
  BY DEF RowsOf, Picked
<1>2. \A i \in 0..Len(rows) : i # 0 => (i \in S <=> rows[i].id = e)
  OBVIOUS
<1> HIDE DEF S
<1>3. S \in SUBSET (1..Len(rows))
  BY DEF S
<1>4. PICK f : Picking(f, rows, S)
  BY <1>3, PickingExists
<1>5. f = [i \in 0..Len(rows) |->
             IF i = 0 THEN <<>> ELSE IF rows[i].id = e THEN Append(f[i - 1], rows[i]) ELSE f[i - 1]]
  BY <1>2, <1>4 DEF Picking
<1>6. g = [i \in 0..Len(rows) |->
             IF i = 0 THEN <<>> ELSE IF rows[i].id = e THEN Append(g[i - 1], rows[i]) ELSE g[i - 1]]
  BY <1>5, Zenon
<1> HIDE DEF g
<1>7. Picking(g, rows, S)
  BY <1>2, <1>6 DEF Picking
<1>8. g[Len(rows)] \in Seq(Rows) /\ Picks(g[Len(rows)], rows, S)
  BY <1>3, <1>7, PickingPicks
<1> QED
  BY <1>1, <1>8 DEF S

\* The rows of other sequence numbers.
LEMMA WithoutPicks ==
    ASSUME NEW rows \in Seq(Rows), NEW seqs
    PROVE  /\ Without(rows, seqs) \in Seq(Rows)
           /\ Picks(Without(rows, seqs), rows, {i \in 1..Len(rows) : rows[i].seq \notin seqs})
<1> DEFINE S == {i \in 1..Len(rows) : rows[i].seq \notin seqs}
           g == CHOOSE g : g = [i \in 0..Len(rows) |->
                  IF i = 0 THEN <<>>
                  ELSE IF rows[i].seq \notin seqs THEN Append(g[i - 1], rows[i]) ELSE g[i - 1]]
<1>1. Without(rows, seqs) = g[Len(rows)]
  BY DEF Without, Picked
<1>2. \A i \in 0..Len(rows) : i # 0 => (i \in S <=> rows[i].seq \notin seqs)
  OBVIOUS
<1> HIDE DEF S
<1>3. S \in SUBSET (1..Len(rows))
  BY DEF S
<1>4. PICK f : Picking(f, rows, S)
  BY <1>3, PickingExists
<1>5. f = [i \in 0..Len(rows) |->
             IF i = 0 THEN <<>> ELSE IF rows[i].seq \notin seqs THEN Append(f[i - 1], rows[i]) ELSE f[i - 1]]
  BY <1>2, <1>4 DEF Picking
<1>6. g = [i \in 0..Len(rows) |->
             IF i = 0 THEN <<>> ELSE IF rows[i].seq \notin seqs THEN Append(g[i - 1], rows[i]) ELSE g[i - 1]]
  BY <1>5, Zenon
<1> HIDE DEF g
<1>7. Picking(g, rows, S)
  BY <1>2, <1>6 DEF Picking
<1>8. g[Len(rows)] \in Seq(Rows) /\ Picks(g[Len(rows)], rows, S)
  BY <1>3, <1>7, PickingPicks
<1> QED
  BY <1>1, <1>8 DEF S

\* The rows that are not held.
LEMMA ReadyPicks ==
    ASSUME NEW rows \in Seq(Rows)
    PROVE  /\ Ready(rows) \in Seq(Rows)
           /\ Picks(Ready(rows), rows, {i \in 1..Len(rows) : ~rows[i].held})
<1> DEFINE S == {i \in 1..Len(rows) : ~rows[i].held}
           g == CHOOSE g : g = [i \in 0..Len(rows) |->
                  IF i = 0 THEN <<>>
                  ELSE IF ~rows[i].held THEN Append(g[i - 1], rows[i]) ELSE g[i - 1]]
<1>1. Ready(rows) = g[Len(rows)]
  BY DEF Ready, Picked
<1>2. \A i \in 0..Len(rows) : i # 0 => (i \in S <=> ~rows[i].held)
  OBVIOUS
<1> HIDE DEF S
<1>3. S \in SUBSET (1..Len(rows))
  BY DEF S
<1>4. PICK f : Picking(f, rows, S)
  BY <1>3, PickingExists
<1>5. f = [i \in 0..Len(rows) |->
             IF i = 0 THEN <<>> ELSE IF ~rows[i].held THEN Append(f[i - 1], rows[i]) ELSE f[i - 1]]
  BY <1>2, <1>4 DEF Picking
<1>6. g = [i \in 0..Len(rows) |->
             IF i = 0 THEN <<>> ELSE IF ~rows[i].held THEN Append(g[i - 1], rows[i]) ELSE g[i - 1]]
  BY <1>5, Zenon
<1> HIDE DEF g
<1>7. Picking(g, rows, S)
  BY <1>2, <1>6 DEF Picking
<1>8. g[Len(rows)] \in Seq(Rows) /\ Picks(g[Len(rows)], rows, S)
  BY <1>3, <1>7, PickingPicks
<1> QED
  BY <1>1, <1>8 DEF S

\* The changes of an email.
LEMMA PatchesOfPicks ==
    ASSUME log \in Seq(Rows), NEW e
    PROVE  /\ PatchesOf(e) \in Seq(Rows)
           /\ Picks(PatchesOf(e), log, {i \in 1..Len(log) : log[i].id = e /\ ~log[i].destroy})
<1> DEFINE S == {i \in 1..Len(log) : log[i].id = e /\ ~log[i].destroy}
           g == CHOOSE g : g = [i \in 0..Len(log) |->
                  IF i = 0 THEN <<>>
                  ELSE IF log[i].id = e /\ ~log[i].destroy THEN Append(g[i - 1], log[i]) ELSE g[i - 1]]
<1>1. PatchesOf(e) = g[Len(log)]
  BY DEF PatchesOf, Picked
<1>2. \A i \in 0..Len(log) : i # 0 => (i \in S <=> log[i].id = e /\ ~log[i].destroy)
  OBVIOUS
<1> HIDE DEF S
<1>3. S \in SUBSET (1..Len(log))
  BY DEF S
<1>4. PICK f : Picking(f, log, S)
  BY <1>3, PickingExists
<1>5. f = [i \in 0..Len(log) |->
             IF i = 0 THEN <<>> ELSE IF log[i].id = e /\ ~log[i].destroy THEN Append(f[i - 1], log[i]) ELSE f[i - 1]]
  BY <1>2, <1>4 DEF Picking
<1>6. g = [i \in 0..Len(log) |->
             IF i = 0 THEN <<>> ELSE IF log[i].id = e /\ ~log[i].destroy THEN Append(g[i - 1], log[i]) ELSE g[i - 1]]
  BY <1>5, Zenon
<1> HIDE DEF g
<1>7. Picking(g, log, S)
  BY <1>2, <1>6 DEF Picking
<1>8. g[Len(log)] \in Seq(Rows) /\ Picks(g[Len(log)], log, S)
  BY <1>3, <1>7, PickingPicks
<1> QED
  BY <1>1, <1>8 DEF S

\* The log of an email that are out.
LEMMA SentPicks ==
    ASSUME log \in Seq(Rows), NEW e
    PROVE  /\ Sent(e) \in Seq(Rows)
           /\ Picks(Sent(e), log, {i \in 1..Len(log) : log[i].id = e /\ Out(log[i])})
<1> DEFINE S == {i \in 1..Len(log) : log[i].id = e /\ Out(log[i])}
           g == CHOOSE g : g = [i \in 0..Len(log) |->
                  IF i = 0 THEN <<>>
                  ELSE IF log[i].id = e /\ Out(log[i]) THEN Append(g[i - 1], log[i]) ELSE g[i - 1]]
<1>1. Sent(e) = g[Len(log)]
  BY DEF Sent, Picked
<1>2. \A i \in 0..Len(log) : i # 0 => (i \in S <=> log[i].id = e /\ Out(log[i]))
  OBVIOUS
<1> HIDE DEF S
<1>3. S \in SUBSET (1..Len(log))
  BY DEF S
<1>4. PICK f : Picking(f, log, S)
  BY <1>3, PickingExists
<1>5. f = [i \in 0..Len(log) |->
             IF i = 0 THEN <<>> ELSE IF log[i].id = e /\ Out(log[i]) THEN Append(f[i - 1], log[i]) ELSE f[i - 1]]
  BY <1>2, <1>4 DEF Picking
<1>6. g = [i \in 0..Len(log) |->
             IF i = 0 THEN <<>> ELSE IF log[i].id = e /\ Out(log[i]) THEN Append(g[i - 1], log[i]) ELSE g[i - 1]]
  BY <1>5, Zenon
<1> HIDE DEF g
<1>7. Picking(g, log, S)
  BY <1>2, <1>6 DEF Picking
<1>8. g[Len(log)] \in Seq(Rows) /\ Picks(g[Len(log)], log, S)
  BY <1>3, <1>7, PickingPicks
<1> QED
  BY <1>1, <1>8 DEF S

\* The emails a set may name, by their order in a sequence of rows.
Firsts(rows) ==
    LET Rank(e) == Min({i \in DOMAIN rows : rows[i].id = e})
    IN {e \in Emails : Cardinality({x \in Ids(rows) : Rank(x) < Rank(e)}) < MaxObjectsInSet}

\* Every row of the emails a set may name.
LEMMA FirstEmailsPicks ==
    ASSUME NEW rows \in Seq(Rows)
    PROVE  /\ FirstEmails(rows) \in Seq(Rows)
           /\ Picks(FirstEmails(rows), rows, {i \in 1..Len(rows) : rows[i].id \in Firsts(rows)})
<1> DEFINE S == {i \in 1..Len(rows) : rows[i].id \in Firsts(rows)}
           g == CHOOSE g : g = [i \in 0..Len(rows) |->
                  IF i = 0 THEN <<>>
                  ELSE IF Cardinality({x \in Ids(rows) : Min({k \in DOMAIN rows : rows[k].id = x})
                              < Min({k \in DOMAIN rows : rows[k].id = rows[i].id})}) < MaxObjectsInSet THEN Append(g[i - 1], rows[i]) ELSE g[i - 1]]
<1>1. FirstEmails(rows) = g[Len(rows)]
  BY DEF FirstEmails, Picked
<1>2. \A i \in 0..Len(rows) : i # 0 => (i \in S <=> Cardinality({x \in Ids(rows) : Min({k \in DOMAIN rows : rows[k].id = x})
                              < Min({k \in DOMAIN rows : rows[k].id = rows[i].id})}) < MaxObjectsInSet)
  <2>1. SUFFICES ASSUME NEW i \in 0..Len(rows), i # 0
                 PROVE  i \in S <=> Cardinality({x \in Ids(rows) : Min({k \in DOMAIN rows : rows[k].id = x})
                              < Min({k \in DOMAIN rows : rows[k].id = rows[i].id})}) < MaxObjectsInSet
    OBVIOUS
  <2>2. i \in 1..Len(rows) /\ rows[i].id \in Emails
    <3>1. i \in 1..Len(rows)
      BY <2>1
    <3>2. rows[i] \in Rows
      BY <3>1
    <3> QED
      BY <3>1, <3>2 DEF Rows
  <2>3. rows[i].id \in Firsts(rows) <=> Cardinality({x \in Ids(rows) : Min({k \in DOMAIN rows : rows[k].id = x})
                              < Min({k \in DOMAIN rows : rows[k].id = rows[i].id})}) < MaxObjectsInSet
    BY <2>2, Zenon DEF Firsts
  <2> QED
    BY <2>2, <2>3
<1> HIDE DEF S
<1>3. S \in SUBSET (1..Len(rows))
  BY DEF S
<1>4. PICK f : Picking(f, rows, S)
  BY <1>3, PickingExists
<1>5. f = [i \in 0..Len(rows) |->
             IF i = 0 THEN <<>> ELSE IF Cardinality({x \in Ids(rows) : Min({k \in DOMAIN rows : rows[k].id = x})
                              < Min({k \in DOMAIN rows : rows[k].id = rows[i].id})}) < MaxObjectsInSet THEN Append(f[i - 1], rows[i]) ELSE f[i - 1]]
  BY <1>2, <1>4 DEF Picking
<1>6. g = [i \in 0..Len(rows) |->
             IF i = 0 THEN <<>> ELSE IF Cardinality({x \in Ids(rows) : Min({k \in DOMAIN rows : rows[k].id = x})
                              < Min({k \in DOMAIN rows : rows[k].id = rows[i].id})}) < MaxObjectsInSet THEN Append(g[i - 1], rows[i]) ELSE g[i - 1]]
  BY <1>5, Zenon
<1> HIDE DEF g
<1>7. Picking(g, rows, S)
  BY <1>2, <1>6 DEF Picking
<1>8. g[Len(rows)] \in Seq(Rows) /\ Picks(g[Len(rows)], rows, S)
  BY <1>3, <1>7, PickingPicks
<1> QED
  BY <1>1, <1>8 DEF S

\* Nothing picked.
LEMMA PicksNone ==
    ASSUME NEW R, NEW rows, NEW s \in Seq(R), Picks(s, rows, {})
    PROVE  s = <<>>
<1>1. PICK p : Lists(p, Len(s), {})
  BY DEF Picks
<1>2. Len(s) \in Nat /\ p \in [1..Len(s) -> {}]
  BY <1>1 DEF Lists
<1>3. ~(1 \in 1..Len(s))
  BY <1>2
<1>4. Len(s) = 0
  BY <1>2, <1>3
<1> QED
  BY <1>4

\* A longer sequence has the same rows at the positions of the shorter.
LEMMA PicksLonger ==
    ASSUME NEW R, NEW rows \in Seq(R), NEW S \in SUBSET (1..Len(rows)), NEW r \in R, NEW s \in Seq(R),
           Picks(s, rows, S)
    PROVE  Picks(s, Append(rows, r), S)
<1>1. PICK p : Lists(p, Len(s), S) /\ s = [i \in 1..Len(s) |-> rows[p[i]]]
  BY DEF Picks
<1>2. ASSUME NEW i \in 1..Len(s) PROVE rows[p[i]] = Append(rows, r)[p[i]]
  <2>1. p[i] \in 1..Len(rows)
    BY <1>1 DEF Lists
  <2> QED
    BY <2>1
<1>3. s = [i \in 1..Len(s) |-> Append(rows, r)[p[i]]]
  BY <1>1, <1>2
<1> QED
  BY <1>1, <1>3 DEF Picks

\* What is picked before and after a place.
LEMMA PicksConcat ==
    ASSUME NEW R, NEW rows \in Seq(R), NEW A \in SUBSET (1..Len(rows)), NEW B \in SUBSET (1..Len(rows)),
           \A a \in A, b \in B : a < b,
           NEW s \in Seq(R), NEW t \in Seq(R), Picks(s, rows, A), Picks(t, rows, B)
    PROVE  Picks(s \o t, rows, A \cup B)
<1>1. PICK p : Lists(p, Len(s), A) /\ s = [i \in 1..Len(s) |-> rows[p[i]]]
  BY DEF Picks
<1>2. PICK q : Lists(q, Len(t), B) /\ t = [i \in 1..Len(t) |-> rows[q[i]]]
  BY DEF Picks
<1> DEFINE n == Len(s)
           m == Len(t)
           C == A \cup B
           r == [i \in 1..(n + m) |-> IF i <= n THEN p[i] ELSE q[i - n]]
<1>3. n \in Nat /\ m \in Nat /\ p \in [1..n -> A] /\ q \in [1..m -> B]
  BY <1>1, <1>2 DEF Lists
<1>4. s \o t = [i \in 1..(n + m) |-> IF i <= n THEN s[i] ELSE t[i - n]]
  <2>1. s \o t \in Seq(R) /\ Len(s \o t) = n + m
    BY ConcatProperties
  <2>2. \A i \in 1..(n + m) : (s \o t)[i] = IF i <= n THEN s[i] ELSE t[i - n]
    BY ConcatProperties
  <2> HIDE DEF n, m
  <2> DEFINE u == s \o t
  <2>3. u \in Seq(R) /\ Len(u) = n + m
    BY <2>1
  <2>4. \A i \in 1..(n + m) : u[i] = IF i <= n THEN s[i] ELSE t[i - n]
    BY <2>2
  <2> HIDE DEF u
  <2>5. u = [i \in 1..(n + m) |-> u[i]]
    BY <2>3
  <2>6. u = [i \in 1..(n + m) |-> IF i <= n THEN s[i] ELSE t[i - n]]
    BY <2>4, <2>5
  <2> QED
    BY <2>6 DEF u
<1> HIDE DEF n, m
<1>5. \A i \in 1..(n + m) : IF i <= n THEN i \in 1..n ELSE i - n \in 1..m
  BY <1>3
<1>6. r \in [1..(n + m) -> C]
  BY <1>3, <1>5
<1>7. ASSUME NEW i \in 1..(n + m), NEW j \in 1..(n + m), i < j PROVE r[i] < r[j]
  <2>1. CASE j <= n
    <3>1. i \in 1..n /\ j \in 1..n /\ i <= n
      BY <2>1, <1>7, <1>3
    <3>2. p[i] < p[j]
      BY <3>1, <1>1, <1>7 DEF Lists, n
    <3> QED
      BY <3>1, <3>2
  <2>2. CASE ~(i <= n)
    <3>1. ~(j <= n)
      BY <2>2, <1>7, <1>3
    <3>2. i - n \in 1..m /\ j - n \in 1..m /\ i - n < j - n
      BY <2>2, <3>1, <1>5, <1>7, <1>3
    <3>3. q[i - n] < q[j - n]
      BY <3>2, <1>2 DEF Lists, m
    <3> QED
      BY <3>1, <3>3, <2>2
  <2>3. CASE i <= n /\ ~(j <= n)
    <3>1. p[i] \in A /\ q[j - n] \in B
      BY <2>3, <1>5, <1>3
    <3> QED
      BY <3>1, <2>3
  <2> QED
    BY <2>1, <2>2, <2>3
<1>8. ASSUME NEW x \in C PROVE \E i \in 1..(n + m) : r[i] = x
  <2>1. CASE x \in A
    <3>1. PICK i \in 1..n : p[i] = x
      BY <2>1, <1>1 DEF Lists, n
    <3>2. i \in 1..(n + m) /\ i <= n
      BY <1>3
    <3> QED
      BY <3>1, <3>2
  <2>2. CASE x \in B
    <3>1. PICK i \in 1..m : q[i] = x
      BY <2>2, <1>2 DEF Lists, m
    <3>2. i + n \in 1..(n + m) /\ ~(i + n <= n) /\ (i + n) - n = i
      BY <1>3
    <3>3. r[i + n] = q[(i + n) - n]
      BY <3>2
    <3>4. r[i + n] = x
      BY <3>1, <3>2, <3>3
    <3> HIDE DEF r
    <3> QED
      BY <3>2, <3>4
  <2> QED
    BY <2>1, <2>2
<1>9. n + m \in Nat /\ Len(s \o t) = n + m
  BY <1>3 DEF n, m
<1>10. Lists(r, Len(s \o t), C)
  BY <1>6, <1>7, <1>8, <1>9 DEF Lists
<1>11. s \o t = [i \in 1..(n + m) |-> rows[r[i]]]
  <2>1. ASSUME NEW i \in 1..(n + m)
        PROVE  (IF i <= n THEN s[i] ELSE t[i - n]) = rows[r[i]]
    <3>1. CASE i <= n
      <4>1. s[i] = rows[p[i]]
        BY <3>1, <1>5, <1>1 DEF n
      <4> QED
        BY <4>1, <3>1
    <3>2. CASE ~(i <= n)
      <4>1. t[i - n] = rows[q[i - n]]
        BY <3>2, <1>5, <1>2 DEF m
      <4> QED
        BY <4>1, <3>2
    <3> QED
      BY <3>1, <3>2
  <2> HIDE DEF r
  <2> QED
    BY <2>1, <1>4
<1> HIDE DEF r, C
<1>12. Picks(s \o t, rows, C)
  BY <1>9, <1>10, <1>11 DEF Picks
<1> QED
  BY <1>12 DEF C

-----------------------------------------------------------------------------
(* Patches *)

\* What a patch is: some members, each set or unset.
LEMMA PatchType ==
    ASSUME NEW q \in Patches
    PROVE  DOMAIN q \subseteq Members /\ \A m \in DOMAIN q : q[m] \in BOOLEAN
BY DEF Patches

\* A function from some members is a patch.
LEMMA PatchIntro ==
    ASSUME NEW S \in SUBSET Members, NEW q \in [S -> BOOLEAN]
    PROVE  q \in Patches
BY DEF Patches

\* A patched state, a member at a time.
LEMMA PatchedSays ==
    ASSUME NEW s \in States, NEW q \in Patches
    PROVE  /\ Patched(s, q) \in States
           /\ \A m \in DOMAIN q : m \in Patched(s, q) <=> q[m]
           /\ \A m \in Members \ DOMAIN q : m \in Patched(s, q) <=> m \in s
BY PatchType DEF Patched, States

\* An inverse is a patch of the same paths.
LEMMA InverseType ==
    ASSUME NEW s \in States, NEW q \in Patches
    PROVE  InverseOf(s, q) \in Patches /\ DOMAIN InverseOf(s, q) = DOMAIN q
<1>1. DOMAIN q \in SUBSET Members
  BY PatchType
<1>2. InverseOf(s, q) \in [DOMAIN q -> BOOLEAN]
  BY DEF InverseOf
<1> QED
  BY <1>1, <1>2, PatchIntro

\* The inverse undoes its patch.
LEMMA Undone ==
    ASSUME NEW s \in States, NEW q \in Patches
    PROVE  Patched(Patched(s, q), InverseOf(s, q)) = s
<1> DEFINE t == Patched(s, q)
           r == InverseOf(s, q)
<1>1. t \in States /\ \A m \in Members \ DOMAIN q : m \in t <=> m \in s
  BY PatchedSays
<1>2. r \in Patches /\ DOMAIN r = DOMAIN q
  BY InverseType
<1>3. \A m \in DOMAIN q : r[m] <=> m \in s
  BY DEF InverseOf
<1> HIDE DEF t, r
<1>4. /\ Patched(t, r) \in States
      /\ \A m \in DOMAIN q : m \in Patched(t, r) <=> r[m]
      /\ \A m \in Members \ DOMAIN q : m \in Patched(t, r) <=> m \in t
  BY <1>1, <1>2, PatchedSays
<1>5. Patched(t, r) = s
  BY <1>1, <1>3, <1>4 DEF States
<1> QED
  BY <1>5 DEF t, r

\* Emptying the mailboxes of a state is a patch.
LEMMA EmptiedType ==
    ASSUME NEW s \in States
    PROVE  Emptied(s) \in Patches
<1>1. s \cap Mailboxes \in SUBSET Members
  BY DEF States
<1>2. Emptied(s) \in [s \cap Mailboxes -> BOOLEAN]
  BY DEF Emptied
<1> QED
  BY <1>1, <1>2, PatchIntro

\* A patch over another: the later wins a path both name.
LEMMA OverSays ==
    ASSUME NEW p \in Patches, NEW q \in Patches
    PROVE  /\ Over(p, q) \in Patches
           /\ DOMAIN Over(p, q) = DOMAIN p \cup DOMAIN q
           /\ \A m \in DOMAIN q : Over(p, q)[m] = q[m]
           /\ \A m \in DOMAIN p \ DOMAIN q : Over(p, q)[m] = p[m]
<1>1. DOMAIN p \cup DOMAIN q \in SUBSET Members
  BY PatchType
<1>2. Over(p, q) \in [DOMAIN p \cup DOMAIN q -> BOOLEAN]
  BY PatchType DEF Over
<1>3. Over(p, q) \in Patches
  BY <1>1, <1>2, PatchIntro
<1> QED
  BY <1>3 DEF Over

\* One patch after another is the one laid over the other.
LEMMA PatchedOver ==
    ASSUME NEW s \in States, NEW p \in Patches, NEW q \in Patches
    PROVE  Patched(Patched(s, p), q) = Patched(s, Over(p, q))
<1> DEFINE t == Patched(s, p)
           o == Over(p, q)
<1>1. /\ t \in States
      /\ \A m \in DOMAIN p : m \in t <=> p[m]
      /\ \A m \in Members \ DOMAIN p : m \in t <=> m \in s
  BY PatchedSays
<1>2. /\ o \in Patches /\ DOMAIN o = DOMAIN p \cup DOMAIN q
      /\ \A m \in DOMAIN q : o[m] = q[m]
      /\ \A m \in DOMAIN p \ DOMAIN q : o[m] = p[m]
  BY OverSays
<1> HIDE DEF t, o
<1>3. /\ Patched(t, q) \in States
      /\ \A m \in DOMAIN q : m \in Patched(t, q) <=> q[m]
      /\ \A m \in Members \ DOMAIN q : m \in Patched(t, q) <=> m \in t
  BY <1>1, PatchedSays
<1>4. /\ Patched(s, o) \in States
      /\ \A m \in DOMAIN o : m \in Patched(s, o) <=> o[m]
      /\ \A m \in Members \ DOMAIN o : m \in Patched(s, o) <=> m \in s
  BY <1>2, PatchedSays
<1>5. ASSUME NEW m \in Members PROVE m \in Patched(t, q) <=> m \in Patched(s, o)
  <2>1. CASE m \in DOMAIN q
    BY <2>1, <1>2, <1>3, <1>4
  <2>2. CASE m \in DOMAIN p \ DOMAIN q
    BY <2>2, <1>1, <1>2, <1>3, <1>4
  <2>3. CASE m \notin DOMAIN p \cup DOMAIN q
    BY <2>3, <1>1, <1>2, <1>3, <1>4
  <2> QED
    BY <2>1, <2>2, <2>3
<1>6. Patched(t, q) = Patched(s, o)
  BY <1>3, <1>4, <1>5 DEF States
<1> QED
  BY <1>6 DEF t, o

\* Without a path, nothing changes.
LEMMA NoPatchSays ==
    NoPatch \in Patches /\ DOMAIN NoPatch = {} /\ \A s \in States : Patched(s, NoPatch) = s
<1>1. NoPatch \in [{} -> BOOLEAN] /\ {} \in SUBSET Members
  BY DEF NoPatch
<1>2. NoPatch \in Patches /\ DOMAIN NoPatch = {}
  BY <1>1, PatchIntro
<1>3. \A s \in States : Patched(s, NoPatch) = s
  BY <1>2 DEF Patched, States
<1> QED
  BY <1>2, <1>3

-----------------------------------------------------------------------------
(* Rows that fit: each one's inverse is of the state it changes *)

\* The states the rows lead through.
Walks(f, rows) ==
    /\ f \in [0..Len(rows) -> States]
    /\ \A i \in 1..Len(rows) :
         /\ f[i] = Patched(f[i - 1], rows[i].patch)
         /\ rows[i].inverse = InverseOf(f[i - 1], rows[i].patch)

\* The rows lead from one state to another.
Fits(s, rows, h) == \E f : Walks(f, rows) /\ f[0] = s /\ f[Len(rows)] = h

\* The fields of a row.
LEMMA RowType ==
    ASSUME NEW rows \in Seq(Rows), NEW i \in 1..Len(rows)
    PROVE  /\ rows[i] \in Rows /\ rows[i].id \in Emails /\ rows[i].seq \in Nat
           /\ rows[i].patch \in Patches /\ rows[i].inverse \in Patches
           /\ rows[i].sent \in BOOLEAN /\ rows[i].destroy \in BOOLEAN /\ rows[i].held \in BOOLEAN
           /\ rows[i].lease \in Tabs
<1>1. rows[i] \in Rows
  OBVIOUS
<1> HIDE DEF Patches
<1> QED
  BY <1>1 DEF Rows

\* Rows that fit, undone: the state they began at.
LEMMA FitsUnpatched ==
    ASSUME NEW rows \in Seq(Rows), NEW s, NEW h, Fits(s, rows, h)
    PROVE  Unpatched(h, rows) = s
<1>1. PICK f : Walks(f, rows) /\ f[0] = s /\ f[Len(rows)] = h
  BY DEF Fits
<1> DEFINE n == Len(rows)
           before == CHOOSE b : b = [i \in 0..n |->
                       IF i = n THEN h ELSE Patched(b[i + 1], rows[i + 1].inverse)]
<1>2. Unpatched(h, rows) = before[0]
  BY DEF Unpatched
<1>3. n \in Nat /\ f \in [0..n -> States]
  BY <1>1 DEF Walks
<1>4. ASSUME NEW i \in 0..n, i # n PROVE f[i] = Patched(f[i + 1], rows[i + 1].inverse)
  <2>1. i + 1 \in 1..n /\ (i + 1) - 1 = i
    BY <1>3, <1>4
  <2>2. f[i + 1] = Patched(f[i], rows[i + 1].patch) /\ rows[i + 1].inverse = InverseOf(f[i], rows[i + 1].patch)
    BY <1>1, <2>1 DEF Walks
  <2>3. rows[i + 1].patch \in Patches /\ f[i] \in States
    BY <2>1, <1>3, RowType
  <2> QED
    BY <2>2, <2>3, Undone
<1>5. f = [i \in 0..n |-> IF i = n THEN h ELSE Patched(f[i + 1], rows[i + 1].inverse)]
  BY <1>1, <1>3, <1>4
<1>6. before = [i \in 0..n |-> IF i = n THEN h ELSE Patched(before[i + 1], rows[i + 1].inverse)]
  BY <1>5, Zenon
<1> HIDE DEF before, n
<1> DEFINE T == {k \in 0..n : before[n - k] = f[n - k]}
<1>7. 0 \in T
  <2>1. 0 \in 0..n /\ n - 0 = n /\ n \in 0..n
    BY <1>3
  <2> QED
    BY <2>1, <1>6, <1>1 DEF n
<1>8. ASSUME NEW k \in 0..n, k # n, k \in T PROVE k + 1 \in T
  <2>1. /\ k + 1 \in 0..n /\ n - (k + 1) \in 0..n /\ n - (k + 1) # n
        /\ (n - (k + 1)) + 1 = n - k
    BY <1>3, <1>8
  <2>2. before[n - (k + 1)] = Patched(before[n - k], rows[n - k].inverse)
    BY <2>1, <1>6
  <2>3. f[n - (k + 1)] = Patched(f[n - k], rows[n - k].inverse)
    BY <2>1, <1>4
  <2> QED
    BY <1>8, <2>1, <2>2, <2>3
<1> HIDE DEF T
<1>9. 0..n \subseteq T
  BY <1>3, <1>7, <1>8, SetInduction
<1>10. n \in T /\ n - n = 0
  BY <1>3, <1>9
<1>11. before[0] = f[0]
  BY <1>10 DEF T
<1> QED
  BY <1>1, <1>2, <1>11

\* No row leads nowhere.
LEMMA FitsNone ==
    ASSUME NEW s \in States
    PROVE  Fits(s, <<>>, s)
<1> DEFINE f == [i \in 0..0 |-> s]
<1>1. f \in [0..0 -> States] /\ f[0] = s
  OBVIOUS
<1>2. Len(<<>>) = 0
  OBVIOUS
<1> HIDE DEF f
<1>3. Walks(f, <<>>)
  BY <1>1, <1>2 DEF Walks
<1> QED
  BY <1>1, <1>2, <1>3 DEF Fits

\* Where rows that fit begin and end.
LEMMA FitsType ==
    ASSUME NEW rows \in Seq(Rows), NEW s, NEW h, Fits(s, rows, h)
    PROVE  s \in States /\ h \in States
<1>1. PICK f : Walks(f, rows) /\ f[0] = s /\ f[Len(rows)] = h
  BY DEF Fits
<1>2. 0 \in 0..Len(rows) /\ Len(rows) \in 0..Len(rows)
  OBVIOUS
<1> QED
  BY <1>1, <1>2 DEF Walks

\* Rows with the patches and inverses of others fit as they do.
LEMMA FitsSame ==
    ASSUME NEW rows \in Seq(Rows), NEW new \in Seq(Rows), NEW s, NEW h, Fits(s, rows, h),
           Len(new) = Len(rows),
           \A i \in 1..Len(rows) : new[i].patch = rows[i].patch /\ new[i].inverse = rows[i].inverse
    PROVE  Fits(s, new, h)
<1>1. PICK f : Walks(f, rows) /\ f[0] = s /\ f[Len(rows)] = h
  BY DEF Fits
<1>2. Walks(f, new)
  BY <1>1 DEF Walks
<1> QED
  BY <1>1, <1>2 DEF Fits

\* One more row, logged on the state the others led to.
LEMMA FitsAppend ==
    ASSUME NEW rows \in Seq(Rows), NEW s, NEW h, Fits(s, rows, h), NEW row \in Rows,
           row.inverse = InverseOf(h, row.patch)
    PROVE  Fits(s, Append(rows, row), Patched(h, row.patch))
<1>1. PICK f : Walks(f, rows) /\ f[0] = s /\ f[Len(rows)] = h
  BY DEF Fits
<1> DEFINE n == Len(rows)
           new == Append(rows, row)
           t == Patched(h, row.patch)
           g == [i \in 0..(n + 1) |-> IF i = n + 1 THEN t ELSE f[i]]
<1>2. n \in Nat /\ f \in [0..n -> States]
  BY <1>1 DEF Walks
<1>3. Len(new) = n + 1 /\ new[n + 1] = row /\ \A i \in 1..n : new[i] = rows[i]
  OBVIOUS
<1>4. t \in States
  BY DEF Patched, States
<1> HIDE DEF n, new, t
<1>5. g \in [0..(n + 1) -> States]
  BY <1>2, <1>4
<1>6. g[n + 1] = t /\ \A i \in 0..n : g[i] = f[i]
  BY <1>2
<1> HIDE DEF g
<1>7. ASSUME NEW i \in 1..(n + 1)
      PROVE  /\ g[i] = Patched(g[i - 1], new[i].patch)
             /\ new[i].inverse = InverseOf(g[i - 1], new[i].patch)
  <2>1. CASE i = n + 1
    <3>1. i - 1 = n /\ n \in 0..n /\ g[n] = h
      BY <2>1, <1>1, <1>2, <1>6 DEF n
    <3> QED
      BY <2>1, <3>1, <1>3, <1>6 DEF t
  <2>2. CASE i # n + 1
    <3>1. i \in 1..n /\ i \in 0..n /\ i - 1 \in 0..n
      BY <2>2, <1>2
    <3>2. f[i] = Patched(f[i - 1], rows[i].patch) /\ rows[i].inverse = InverseOf(f[i - 1], rows[i].patch)
      BY <3>1, <1>1 DEF Walks, n
    <3> QED
      BY <3>1, <3>2, <1>3, <1>6
  <2> QED
    BY <2>1, <2>2
<1>8. Walks(g, new)
  BY <1>3, <1>5, <1>7 DEF Walks
<1>9. g[0] = s /\ g[Len(new)] = t
  BY <1>1, <1>2, <1>3, <1>6
<1> QED
  BY <1>8, <1>9 DEF Fits, new, t

\* Rows that fit, in two parts.
LEMMA FitsConcat ==
    ASSUME NEW first \in Seq(Rows), NEW rest \in Seq(Rows), NEW s, NEW h,
           Fits(s, first \o rest, h)
    PROVE  \E mid : Fits(s, first, mid) /\ Fits(mid, rest, h)
<1> DEFINE n == Len(first)
           m == Len(rest)
           rows == first \o rest
<1>1. PICK f : Walks(f, rows) /\ f[0] = s /\ f[Len(rows)] = h
  BY DEF Fits
<1>2. n \in Nat /\ m \in Nat /\ Len(rows) = n + m
  BY ConcatProperties
<1>3. \A i \in 1..(n + m) : rows[i] = IF i <= n THEN first[i] ELSE rest[i - n]
  BY ConcatProperties
<1> HIDE DEF rows, n, m
<1>4. f \in [0..(n + m) -> States]
  BY <1>1, <1>2 DEF Walks
<1>5. \A i \in 1..(n + m) : /\ f[i] = Patched(f[i - 1], rows[i].patch)
                            /\ rows[i].inverse = InverseOf(f[i - 1], rows[i].patch)
  BY <1>1, <1>2 DEF Walks
<1> DEFINE g == [i \in 0..n |-> f[i]]
           k == [i \in 0..m |-> f[i + n]]
<1>6. g \in [0..n -> States] /\ k \in [0..m -> States]
  BY <1>2, <1>4
<1>7. (\A i \in 0..n : g[i] = f[i]) /\ (\A i \in 0..m : k[i] = f[i + n])
  OBVIOUS
<1> HIDE DEF g, k
<1>8. Walks(g, first)
  <2>1. ASSUME NEW i \in 1..n
        PROVE  /\ g[i] = Patched(g[i - 1], first[i].patch)
               /\ first[i].inverse = InverseOf(g[i - 1], first[i].patch)
    <3>1. i \in 1..(n + m) /\ i <= n /\ i \in 0..n /\ i - 1 \in 0..n
      BY <1>2
    <3>2. rows[i] = first[i]
      BY <3>1, <1>3
    <3> QED
      BY <3>1, <3>2, <1>5, <1>7
  <2> QED
    BY <1>6, <2>1 DEF Walks, n
<1>9. Walks(k, rest)
  <2>1. ASSUME NEW i \in 1..m
        PROVE  /\ k[i] = Patched(k[i - 1], rest[i].patch)
               /\ rest[i].inverse = InverseOf(k[i - 1], rest[i].patch)
    <3>1. /\ i + n \in 1..(n + m) /\ ~(i + n <= n) /\ (i + n) - n = i
          /\ (i + n) - 1 = (i - 1) + n /\ i \in 0..m /\ i - 1 \in 0..m
      BY <1>2
    <3>2. rows[i + n] = rest[i]
      BY <3>1, <1>3
    <3> QED
      BY <3>1, <3>2, <1>5, <1>7
  <2> QED
    BY <1>6, <2>1 DEF Walks, m
<1>10. g[0] = s /\ g[n] = f[n] /\ k[0] = f[n] /\ k[m] = h
  <2>1. 0 \in 0..n /\ n \in 0..n /\ 0 \in 0..m /\ m \in 0..m /\ 0 + n = n /\ m + n = n + m
    BY <1>2
  <2> QED
    BY <2>1, <1>1, <1>2, <1>7
<1>11. Fits(s, first, f[n]) /\ Fits(f[n], rest, h)
  BY <1>8, <1>9, <1>10 DEF Fits, n, m
<1> QED
  BY <1>11

\* Rows refitted: the sequence numbers, emails and flags they had; a change
\* keeps its patch.
KeepsRows(new, rows) ==
    /\ new \in Seq(Rows) /\ Len(new) = Len(rows)
    /\ \A i \in 1..Len(rows) :
         /\ new[i].seq = rows[i].seq /\ new[i].id = rows[i].id
         /\ new[i].sent = rows[i].sent /\ new[i].held = rows[i].held
         /\ new[i].destroy = rows[i].destroy /\ new[i].lease = rows[i].lease
         /\ ~rows[i].destroy => new[i].patch = rows[i].patch

\* What a replay makes of rows: they fit from the state it lays them over.
Replays(state, rows, made) ==
    /\ made.state \in States
    /\ KeepsRows(made.rows, rows)
    /\ Fits(state, made.rows, made.state)

\* A replay makes rows that fit.
LEMMA ReplayedSays ==
    ASSUME NEW state \in States, NEW rows \in Seq(Rows)
    PROVE  Replays(state, rows, Replayed(state, rows))
<1> DEFINE n == Len(rows)
           PatchAt(i, s) == IF rows[i].destroy THEN Emptied(s) ELSE rows[i].patch
           step == [p \in (1..n) \X States |-> Patched(p[2], PatchAt(p[1], p[2]))]
           after == CHOOSE a : a = [i \in 0..n |->
                      IF i = 0 THEN state ELSE Patched(a[i - 1], PatchAt(i, a[i - 1]))]
           made == [i \in 1..n |->
                      [rows[i] EXCEPT !.patch = PatchAt(i, after[i - 1]),
                                      !.inverse = InverseOf(after[i - 1], PatchAt(i, after[i - 1]))]]
<1>1. Replayed(state, rows) = [state |-> after[n], rows |-> made]
  BY DEF Replayed
<1>2. n \in Nat
  OBVIOUS
<1>3. ASSUME NEW i \in 1..n, NEW s \in States
      PROVE  PatchAt(i, s) \in Patches /\ (~rows[i].destroy => PatchAt(i, s) = rows[i].patch)
  BY <1>3, RowType, EmptiedType
<1>4. step \in Steps(n, States)
  <2>1. ASSUME NEW p \in (1..n) \X States PROVE Patched(p[2], PatchAt(p[1], p[2])) \in States
    BY DEF Patched, States
  <2> QED
    BY <2>1 DEF Steps
<1>5. PICK f : Computes(f, n, States, state, step)
  <2> HIDE DEF n, step
  <2> QED
    BY <1>2, <1>4, Recursion
<1>6. f \in [0..n -> States] /\ f[0] = state
  BY <1>5 DEF Computes
<1>7. ASSUME NEW i \in 1..n PROVE f[i] = Patched(f[i - 1], PatchAt(i, f[i - 1]))
  <2>1. i - 1 \in 0..n
    BY <1>2
  <2>2. f[i] = step[<<i, f[i - 1]>>]
    BY <1>5 DEF Computes
  <2>3. <<i, f[i - 1]>> \in (1..n) \X States
    BY <1>6, <2>1
  <2> QED
    BY <2>2, <2>3
<1> HIDE DEF step
<1>8. f = [i \in 0..n |-> IF i = 0 THEN state ELSE Patched(f[i - 1], PatchAt(i, f[i - 1]))]
  <2>1. \A i \in 0..n : i # 0 => i \in 1..n
    BY <1>2
  <2> HIDE DEF n, PatchAt
  <2> QED
    BY <2>1, <1>6, <1>7
<1>9. after = [i \in 0..n |-> IF i = 0 THEN state ELSE Patched(after[i - 1], PatchAt(i, after[i - 1]))]
  BY <1>8, Zenon
<1> HIDE DEF after
<1>10. /\ \A i \in 0..n : i = 0 => after[i] = state
       /\ \A i \in 1..n : after[i] = Patched(after[i - 1], PatchAt(i, after[i - 1]))
  <2>1. \A i \in 1..n : i \in 0..n /\ i # 0
    BY <1>2
  <2> HIDE DEF n, PatchAt
  <2> QED
    BY <2>1, <1>9
<1>11. after \in [0..n -> States]
  <2>1. \A i \in 0..n : (IF i = 0 THEN state ELSE Patched(after[i - 1], PatchAt(i, after[i - 1]))) \in States
    BY DEF Patched, States
  <2> HIDE DEF n, PatchAt
  <2> QED
    BY <2>1, <1>9
<1>12. ASSUME NEW i \in 1..n
       PROVE  /\ after[i - 1] \in States /\ PatchAt(i, after[i - 1]) \in Patches
              /\ made[i] \in Rows
              /\ made[i].patch = PatchAt(i, after[i - 1])
              /\ made[i].inverse = InverseOf(after[i - 1], made[i].patch)
              /\ made[i].seq = rows[i].seq /\ made[i].id = rows[i].id
              /\ made[i].sent = rows[i].sent /\ made[i].held = rows[i].held
              /\ made[i].destroy = rows[i].destroy /\ made[i].lease = rows[i].lease
              /\ ~rows[i].destroy => made[i].patch = rows[i].patch
  <2>1. after[i - 1] \in States
    BY <1>2, <1>11
  <2>2. PatchAt(i, after[i - 1]) \in Patches /\ (~rows[i].destroy => PatchAt(i, after[i - 1]) = rows[i].patch)
    BY <2>1, <1>3
  <2> DEFINE q == PatchAt(i, after[i - 1])
             inv == InverseOf(after[i - 1], q)
  <2>3. inv \in Patches
    BY <2>1, <2>2, InverseType
  <2>4. made[i] = [rows[i] EXCEPT !.patch = q, !.inverse = inv]
    OBVIOUS
  <2>5. rows[i] \in Rows
    OBVIOUS
  <2>6. q \in Patches /\ (~rows[i].destroy => q = rows[i].patch)
    BY <2>2
  <2> HIDE DEF q, inv, made
  <2>7. /\ made[i] \in Rows /\ made[i].patch = q /\ made[i].inverse = inv
        /\ made[i].seq = rows[i].seq /\ made[i].id = rows[i].id
        /\ made[i].sent = rows[i].sent /\ made[i].held = rows[i].held
        /\ made[i].destroy = rows[i].destroy /\ made[i].lease = rows[i].lease
    <3> HIDE DEF Patches
    <3> QED
      BY <2>3, <2>4, <2>5, <2>6 DEF Rows
  <2> QED
    BY <2>1, <2>2, <2>6, <2>7 DEF q, inv
<1>13. DOMAIN made = 1..n
  OBVIOUS
<1> HIDE DEF made, PatchAt
<1>14. made \in Seq(Rows) /\ Len(made) = n
  <2>1. made \in [1..n -> Rows]
    <3>1. \A i \in 1..n : made[i] \in Rows
      BY <1>12
    <3>2. made = [i \in 1..n |-> made[i]]
      BY <1>12, <1>13 DEF made
    <3> QED
      BY <3>1, <3>2
  <2> HIDE DEF n
  <2> QED
    BY <1>2, <2>1
<1>15. Walks(after, made)
  <2> HIDE DEF n
  <2>1. \A i \in 1..n : /\ after[i] = Patched(after[i - 1], made[i].patch)
                        /\ made[i].inverse = InverseOf(after[i - 1], made[i].patch)
    BY <1>10, <1>12
  <2> QED
    BY <1>11, <1>14, <2>1 DEF Walks
<1>16. after[0] = state /\ after[n] \in States
  BY <1>2, <1>10, <1>11
<1>17. Fits(state, made, after[n])
  BY <1>14, <1>15, <1>16 DEF Fits
<1> HIDE DEF n
<1> DEFINE r == Replayed(state, rows)
<1>18. r.state = after[n] /\ r.rows = made
  BY <1>1
<1> HIDE DEF r
<1>19. Replays(state, rows, r)
  BY <1>12, <1>14, <1>16, <1>17, <1>18 DEF Replays, KeepsRows, n
<1> QED
  BY <1>19 DEF r

-----------------------------------------------------------------------------
(* Rows merged *)

\* The merges of a growing number of rows.
Merges(g, rows) ==
    /\ g \in [0..Len(rows) -> Patches] /\ g[0] = NoPatch
    /\ \A i \in 1..Len(rows) : g[i] = Over(g[i - 1], rows[i].patch)

\* Merged rows, one row at a time.
LEMMA MergedBy ==
    ASSUME NEW rows \in Seq(Rows)
    PROVE  \E g : Merges(g, rows) /\ Merged(rows) = g[Len(rows)]
<1> DEFINE n == Len(rows)
           step == [p \in (1..n) \X Patches |-> Over(p[2], rows[p[1]].patch)]
           g == CHOOSE x : x = [i \in 0..n |->
                  IF i = 0 THEN NoPatch ELSE Over(x[i - 1], rows[i].patch)]
<1>1. Merged(rows) = g[n]
  BY DEF Merged
<1>2. n \in Nat /\ NoPatch \in Patches
  BY NoPatchSays
<1>3. step \in Steps(n, Patches)
  <2>1. ASSUME NEW p \in (1..n) \X Patches PROVE Over(p[2], rows[p[1]].patch) \in Patches
    <3>1. p[1] \in 1..n /\ p[2] \in Patches /\ rows[p[1]].patch \in Patches
      BY RowType
    <3> QED
      BY <3>1, OverSays
  <2> HIDE DEF n
  <2> QED
    BY <2>1 DEF Steps
<1>4. PICK f : Computes(f, n, Patches, NoPatch, step)
  <2> HIDE DEF n, step
  <2> QED
    BY <1>2, <1>3, Recursion
<1>5. f \in [0..n -> Patches] /\ f[0] = NoPatch
  BY <1>4 DEF Computes
<1>6. ASSUME NEW i \in 1..n PROVE f[i] = Over(f[i - 1], rows[i].patch)
  <2>1. i - 1 \in 0..n
    BY <1>2
  <2>2. f[i] = step[<<i, f[i - 1]>>]
    BY <1>4 DEF Computes
  <2>3. <<i, f[i - 1]>> \in (1..n) \X Patches
    BY <1>5, <2>1
  <2> HIDE DEF Patches
  <2> QED
    BY <2>2, <2>3
<1> HIDE DEF step
<1>7. \A i \in 0..n : i # 0 => i \in 1..n
  BY <1>2
<1>8. f = [i \in 0..n |-> IF i = 0 THEN NoPatch ELSE Over(f[i - 1], rows[i].patch)]
  <2> HIDE DEF n, Patches
  <2> QED
    BY <1>5, <1>6, <1>7
<1>9. g = [i \in 0..n |-> IF i = 0 THEN NoPatch ELSE Over(g[i - 1], rows[i].patch)]
  BY <1>8, Zenon
<1> HIDE DEF g
<1>10. g[0] = NoPatch /\ \A i \in 1..n : g[i] = Over(g[i - 1], rows[i].patch)
  <2>1. 0 \in 0..n /\ \A i \in 1..n : i \in 0..n /\ i # 0
    BY <1>2
  <2> HIDE DEF n
  <2> QED
    BY <2>1, <1>9
<1> DEFINE T == {i \in 0..n : g[i] \in Patches}
<1>11. 0 \in T
  BY <1>2, <1>10
<1>12. ASSUME NEW i \in 0..n, i # n, i \in T PROVE i + 1 \in T
  <2>1. i + 1 \in 1..n /\ i + 1 \in 0..n /\ (i + 1) - 1 = i
    BY <1>2, <1>12
  <2>2. g[i + 1] = Over(g[i], rows[i + 1].patch)
    BY <1>10, <2>1
  <2>3. rows[i + 1].patch \in Patches /\ g[i] \in Patches
    BY <2>1, <1>12, RowType
  <2> QED
    BY <2>1, <2>2, <2>3, OverSays
<1> HIDE DEF T
<1>13. 0..n \subseteq T
  BY <1>2, <1>11, <1>12, SetInduction
<1>14. g \in [0..n -> Patches]
  <2>1. \A i \in 0..n : g[i] \in Patches
    BY <1>13 DEF T
  <2>2. g = [i \in 0..n |-> g[i]]
    BY <1>9
  <2> HIDE DEF n, Patches
  <2> QED
    BY <2>1, <2>2
<1>15. Merges(g, rows)
  BY <1>10, <1>14 DEF Merges
<1> QED
  BY <1>1, <1>15

\* A path a row names, and what the last row that names it says.
Names(rows, m) == {j \in 1..Len(rows) : m \in DOMAIN rows[j].patch}

\* Merged rows name what one of them names; a later row wins.
LEMMA MergedSays ==
    ASSUME NEW rows \in Seq(Rows)
    PROVE  /\ Merged(rows) \in Patches
           /\ \A m : m \in DOMAIN Merged(rows) <=> Names(rows, m) # {}
           /\ \A m \in DOMAIN Merged(rows) :
                \E j \in Names(rows, m) :
                   Merged(rows)[m] = rows[j].patch[m] /\ \A k \in Names(rows, m) : k <= j
<1> DEFINE n == Len(rows)
<1>1. PICK g : Merges(g, rows) /\ Merged(rows) = g[n]
  BY MergedBy
<1>2. n \in Nat /\ g \in [0..n -> Patches] /\ g[0] = NoPatch
  BY <1>1 DEF Merges
<1> DEFINE Before(i, m) == {j \in Names(rows, m) : j <= i}
           T == {i \in 0..n : \A m :
                   /\ m \in DOMAIN g[i] <=> Before(i, m) # {}
                   /\ m \in DOMAIN g[i] =>
                        \E j \in Before(i, m) :
                           g[i][m] = rows[j].patch[m] /\ \A k \in Before(i, m) : k <= j}
<1>3. 0 \in T
  <2>1. 0 \in 0..n /\ DOMAIN g[0] = {}
    BY <1>2, NoPatchSays
  <2>2. \A m : Before(0, m) = {}
    BY DEF Names
  <2> HIDE DEF Before
  <2> QED
    BY <2>1, <2>2
<1>4. ASSUME NEW i \in 0..n, i # n, i \in T PROVE i + 1 \in T
  <2> DEFINE j == i + 1
  <2>1. j \in 1..n /\ j \in 0..n /\ j - 1 = i /\ i \in Nat
    BY <1>2, <1>4
  <2>2. rows[j].patch \in Patches /\ g[i] \in Patches
    BY <2>1, <1>2, RowType
  <2>3. g[j] = Over(g[i], rows[j].patch)
    BY <2>1, <1>1 DEF Merges
  <2>4. /\ DOMAIN g[j] = DOMAIN g[i] \cup DOMAIN rows[j].patch
        /\ \A m \in DOMAIN rows[j].patch : g[j][m] = rows[j].patch[m]
        /\ \A m \in DOMAIN g[i] \ DOMAIN rows[j].patch : g[j][m] = g[i][m]
    <3> DEFINE p == g[i]
               q == rows[j].patch
    <3>1. /\ DOMAIN Over(p, q) = DOMAIN p \cup DOMAIN q
          /\ \A m \in DOMAIN q : Over(p, q)[m] = q[m]
          /\ \A m \in DOMAIN p \ DOMAIN q : Over(p, q)[m] = p[m]
      <4> HIDE DEF p, q
      <4>1. p \in Patches /\ q \in Patches
        BY <2>2 DEF p, q
      <4> QED
        BY <4>1, OverSays
    <3> HIDE DEF j
    <3> QED
      BY <3>1, <2>3
  <2> SUFFICES ASSUME NEW m
               PROVE  /\ m \in DOMAIN g[j] <=> Before(j, m) # {}
                      /\ m \in DOMAIN g[j] =>
                           \E l \in Before(j, m) :
                              g[j][m] = rows[l].patch[m] /\ \A k \in Before(j, m) : k <= l
    BY <2>1
  <2>5. Before(j, m) = Before(i, m) \cup (IF m \in DOMAIN rows[j].patch THEN {j} ELSE {})
    BY <2>1 DEF Names
  <2>6. /\ m \in DOMAIN g[i] <=> Before(i, m) # {}
        /\ m \in DOMAIN g[i] =>
             \E l \in Before(i, m) :
                g[i][m] = rows[l].patch[m] /\ \A k \in Before(i, m) : k <= l
    BY <1>4
  <2>7. \A k \in Before(j, m) : k <= j
    OBVIOUS
  <2> HIDE DEF j, Before
  <2>8. CASE m \in DOMAIN rows[j].patch
    BY <2>8, <2>4, <2>5, <2>7
  <2>9. CASE m \notin DOMAIN rows[j].patch
    <3>1. Before(j, m) = Before(i, m)
      BY <2>9, <2>5
    <3>2. m \in DOMAIN g[j] <=> m \in DOMAIN g[i]
      BY <2>9, <2>4
    <3>3. m \in DOMAIN g[j] => g[j][m] = g[i][m]
      BY <2>9, <2>4
    <3> QED
      BY <3>1, <3>2, <3>3, <2>6
  <2> QED
    BY <2>8, <2>9
<1> HIDE DEF T
<1>5. 0..n \subseteq T
  BY <1>2, <1>3, <1>4, SetInduction
<1>6. n \in T
  BY <1>2, <1>5
<1>7. \A m : Before(n, m) = Names(rows, m)
  BY DEF Names
<1>8. g[n] \in Patches
  BY <1>2
<1> HIDE DEF Before, n
<1> QED
  BY <1>1, <1>6, <1>7, <1>8 DEF T

\* Rows that fit lead where their merge leads at once.
LEMMA FitsMerged ==
    ASSUME NEW rows \in Seq(Rows), NEW s, NEW h, Fits(s, rows, h)
    PROVE  h = Patched(s, Merged(rows))
<1> DEFINE n == Len(rows)
<1>1. PICK f : Walks(f, rows) /\ f[0] = s /\ f[n] = h
  BY DEF Fits
<1>2. PICK g : Merges(g, rows) /\ Merged(rows) = g[n]
  BY MergedBy
<1>3. n \in Nat /\ f \in [0..n -> States] /\ g \in [0..n -> Patches] /\ g[0] = NoPatch
  BY <1>1, <1>2 DEF Walks, Merges
<1> DEFINE T == {i \in 0..n : f[i] = Patched(s, g[i])}
<1>4. 0 \in T
  <2>1. 0 \in 0..n /\ s \in States
    BY <1>1, <1>3
  <2>2. Patched(s, NoPatch) = s
    BY <2>1, NoPatchSays
  <2> QED
    BY <1>1, <1>3, <2>1, <2>2
<1>5. ASSUME NEW i \in 0..n, i # n, i \in T PROVE i + 1 \in T
  <2>1. i + 1 \in 1..n /\ i + 1 \in 0..n /\ (i + 1) - 1 = i /\ 0 \in 0..n
    BY <1>3, <1>5
  <2>2. f[i + 1] = Patched(f[i], rows[i + 1].patch) /\ g[i + 1] = Over(g[i], rows[i + 1].patch)
    BY <1>1, <1>2, <2>1 DEF Walks, Merges
  <2>3. rows[i + 1].patch \in Patches /\ g[i] \in Patches /\ s \in States
    BY <2>1, <1>1, <1>3, RowType
  <2>4. Patched(Patched(s, g[i]), rows[i + 1].patch) = Patched(s, g[i + 1])
    BY <2>2, <2>3, PatchedOver
  <2> QED
    BY <1>5, <2>1, <2>2, <2>4
<1> HIDE DEF T
<1>6. 0..n \subseteq T
  BY <1>3, <1>4, <1>5, SetInduction
<1>7. n \in T
  BY <1>3, <1>6
<1> QED
  BY <1>1, <1>2, <1>7 DEF T

\* Rows that fit and whose paths end where they were found lead back.
LEMMA FitsCancels ==
    ASSUME NEW rows \in Seq(Rows), NEW s, NEW h, Fits(s, rows, h), EndsWhereFound(rows)
    PROVE  s = h
<1> DEFINE n == Len(rows)
           merged == Merged(rows)
<1>1. PICK f : Walks(f, rows) /\ f[0] = s /\ f[n] = h
  BY DEF Fits
<1>2. n \in Nat /\ f \in [0..n -> States] /\ s \in States /\ h \in States
  BY <1>1, FitsType DEF Walks
<1>3. h = Patched(s, merged) /\ merged \in Patches /\ \A m : m \in DOMAIN merged <=> Names(rows, m) # {}
  BY FitsMerged, MergedSays
<1>4. \A i \in 1..n : DOMAIN rows[i].inverse = DOMAIN rows[i].patch
  <2>1. ASSUME NEW i \in 1..n PROVE DOMAIN rows[i].inverse = DOMAIN rows[i].patch
    <3>1. rows[i].inverse = InverseOf(f[i - 1], rows[i].patch)
      BY <1>1 DEF Walks
    <3> QED
      BY <3>1 DEF InverseOf
  <2> QED
    BY <2>1
<1>5. ASSUME NEW m \in DOMAIN merged PROVE merged[m] <=> m \in s
  <2> DEFINE First(i) == /\ m \in DOMAIN rows[i].inverse
                         /\ \A j \in 1..(i - 1) : m \notin DOMAIN rows[j].inverse
             first == CHOOSE i \in DOMAIN rows : First(i)
  <2>1. Names(rows, m) # {} /\ Names(rows, m) \in SUBSET Nat
    BY <1>3 DEF Names
  <2>2. PICK x \in Names(rows, m) : \A y \in Names(rows, m) : x <= y
    BY <2>1, LeastNatural
  <2>3. x \in 1..n /\ x \in DOMAIN rows
    BY DEF Names
  <2>4. First(x)
    <3>1. ASSUME NEW j \in 1..(x - 1), m \in DOMAIN rows[j].inverse PROVE FALSE
      <4>1. j \in 1..n /\ ~(x <= j)
        BY <2>3, <1>2
      <4>2. j \in Names(rows, m)
        BY <4>1, <3>1, <1>4 DEF Names
      <4> QED
        BY <2>2, <4>1, <4>2
    <3>2. m \in DOMAIN rows[x].inverse
      BY <2>3, <1>4 DEF Names
    <3> QED
      BY <3>1, <3>2
  <2>5. first \in DOMAIN rows /\ First(first)
    <3> HIDE DEF First
    <3> QED
      BY <2>3, <2>4
  <2>6. rows[first].inverse[m] = merged[m]
    BY DEF EndsWhereFound
  <2> HIDE DEF first
  <2>7. first \in 1..n
    BY <2>5
  <2> DEFINE U == {i \in 0..(first - 1) : m \in f[i] <=> m \in s}
  <2>8. 0 \in U /\ first - 1 \in Nat
    BY <2>7, <1>1, <1>2
  <2>9. ASSUME NEW i \in 0..(first - 1), i # first - 1, i \in U PROVE i + 1 \in U
    <3>1. i + 1 \in 1..n /\ i + 1 \in 1..(first - 1) /\ i + 1 \in 0..(first - 1) /\ (i + 1) - 1 = i /\ i \in 0..n
      BY <2>7, <2>9, <1>2
    <3>2. f[i + 1] = Patched(f[i], rows[i + 1].patch)
      BY <3>1, <1>1 DEF Walks
    <3>3. rows[i + 1].patch \in Patches /\ f[i] \in States
      BY <3>1, <1>2, RowType
    <3>4. m \notin DOMAIN rows[i + 1].patch
      BY <3>1, <2>5, <1>4
    <3>5. m \in Members
      BY <1>3, PatchType
    <3>6. m \in f[i + 1] <=> m \in f[i]
      BY <3>2, <3>3, <3>4, <3>5, PatchedSays
    <3> QED
      BY <3>1, <3>6, <2>9
  <2> HIDE DEF U
  <2>10. 0..(first - 1) \subseteq U
    BY <2>8, <2>9, SetInduction
  <2>11. first - 1 \in U
    BY <2>8, <2>10
  <2>12. rows[first].inverse = InverseOf(f[first - 1], rows[first].patch)
    BY <2>7, <1>1 DEF Walks
  <2>13. m \in DOMAIN rows[first].patch
    BY <2>5, <2>7, <1>4
  <2>14. rows[first].inverse[m] = (m \in f[first - 1])
    BY <2>12, <2>13 DEF InverseOf
  <2> QED
    BY <2>6, <2>11, <2>14 DEF U
<1>6. /\ \A m \in DOMAIN merged : m \in h <=> merged[m]
      /\ \A m \in Members \ DOMAIN merged : m \in h <=> m \in s
  BY <1>2, <1>3, PatchedSays
<1> HIDE DEF merged
<1> QED
  BY <1>2, <1>5, <1>6 DEF States

-----------------------------------------------------------------------------
(* The log, changed *)

\* The sequence numbers grow along the rows.
Rising(rows) == \A i, j \in 1..Len(rows) : i < j => rows[i].seq < rows[j].seq

\* A sequence number names one row.
LEMMA RisingSame ==
    ASSUME NEW rows \in Seq(Rows), Rising(rows), NEW i \in 1..Len(rows), NEW j \in 1..Len(rows),
           rows[i].seq = rows[j].seq
    PROVE  i = j
<1>1. ~(i < j) /\ ~(j < i)
  <2>1. rows[i].seq \in Nat
    BY RowType
  <2> QED
    BY <2>1 DEF Rising
<1> QED
  BY <1>1

\* The positions of the rows of an email.
Of(rows, e) == {i \in 1..Len(rows) : rows[i].id = e}

\* Rows with the emails of others are picked alike.
LEMMA RowsOfAlike ==
    ASSUME NEW rows \in Seq(Rows), NEW new \in Seq(Rows), Len(new) = Len(rows),
           \A i \in 1..Len(rows) : new[i].id = rows[i].id, NEW e
    PROVE  \E p : /\ Places(p, RowsOf(rows, e), rows, Of(rows, e))
                  /\ Places(p, RowsOf(new, e), new, Of(rows, e))
                  /\ Len(RowsOf(new, e)) = Len(RowsOf(rows, e))
<1> DEFINE S == Of(rows, e)
           S2 == Of(new, e)
           s == RowsOf(rows, e)
           t == RowsOf(new, e)
<1>1. Picks(s, rows, S)
  BY RowsOfPicks DEF Of
<1>2. Picks(t, new, S2)
  BY RowsOfPicks DEF Of
<1>3. S2 = S /\ S \in SUBSET Nat
  BY DEF Of
<1> HIDE DEF S, S2, s, t
<1>4. PICK p : Lists(p, Len(s), S) /\ s = [i \in 1..Len(s) |-> rows[p[i]]]
  BY <1>1 DEF Picks
<1>5. PICK q : Lists(q, Len(t), S) /\ t = [i \in 1..Len(t) |-> new[q[i]]]
  BY <1>2, <1>3 DEF Picks
<1>6. Len(s) = Len(t) /\ p = q
  BY <1>3, <1>4, <1>5, ListsUnique
<1>7. Places(p, s, rows, S) /\ Places(p, t, new, S) /\ Len(s) = Len(t)
  BY <1>4, <1>5, <1>6 DEF Places
<1> QED
  BY <1>7 DEF S, s, t

\* A log with the rows of some emails refitted: they stand where they stood.
LEMMA RefittedSays ==
    ASSUME NEW rows \in Seq(Rows), Rising(rows), NEW fitted,
           \A e \in DOMAIN fitted : KeepsRows(fitted[e], RowsOf(rows, e))
    PROVE  /\ KeepsRows(Refitted(rows, fitted), rows)
           /\ \A e : RowsOf(Refitted(rows, fitted), e) =
                       IF e \in DOMAIN fitted THEN fitted[e] ELSE RowsOf(rows, e)
<1> DEFINE new == Refitted(rows, fitted)
           n == Len(rows)
           At(e, i) == CHOOSE j \in DOMAIN fitted[e] : fitted[e][j].seq = rows[i].seq
<1>1. DOMAIN new = 1..n /\ n \in Nat
  BY DEF Refitted
<1>2. ASSUME NEW i \in 1..n
      PROVE  new[i] = IF rows[i].id \in DOMAIN fitted THEN fitted[rows[i].id][At(rows[i].id, i)] ELSE rows[i]
  BY DEF Refitted
<1> HIDE DEF new
<1>3. ASSUME NEW e \in DOMAIN fitted, NEW p,
             Lists(p, Len(RowsOf(rows, e)), {i \in 1..n : rows[i].id = e}),
             RowsOf(rows, e) = [k \in 1..Len(RowsOf(rows, e)) |-> rows[p[k]]],
             NEW k \in 1..Len(RowsOf(rows, e))
      PROVE  new[p[k]] = fitted[e][k]
  <2> DEFINE own == fitted[e]
             s == RowsOf(rows, e)
  <2>1. KeepsRows(own, s)
    OBVIOUS
  <2>2. p[k] \in 1..n /\ rows[p[k]].id = e /\ \A j \in 1..Len(s) : p[j] \in 1..n
    BY <1>3 DEF Lists
  <2>3. s[k] = rows[p[k]] /\ \A j \in 1..Len(s) : s[j] = rows[p[j]]
    BY <1>3
  <2> HIDE DEF own, s
  <2>4. /\ own \in Seq(Rows) /\ Len(own) = Len(s)
        /\ \A j \in 1..Len(s) : own[j].seq = s[j].seq
    BY <2>1 DEF KeepsRows
  <2>5. k \in DOMAIN own /\ own[k].seq = rows[p[k]].seq
    BY <2>3, <2>4 DEF s
  <2>6. ASSUME NEW j \in DOMAIN own, own[j].seq = rows[p[k]].seq PROVE j = k
    <3>1. j \in 1..Len(s) /\ k \in 1..Len(s)
      BY <2>4 DEF s
    <3>2. rows[p[j]].seq = rows[p[k]].seq
      BY <3>1, <2>3, <2>4, <2>6
    <3>3. p[j] = p[k]
      BY <3>1, <3>2, <2>2, RisingSame
    <3>4. ~(j < k) /\ ~(k < j)
      <4>1. p[j] \in Nat
        BY <2>2, <3>1
      <4>2. \A x, y \in 1..Len(s) : x < y => p[x] < p[y]
        BY <1>3 DEF Lists, s
      <4> QED
        BY <4>1, <4>2, <3>1, <3>3
    <3>5. Len(s) \in Nat
      BY <1>3 DEF Lists, s
    <3> QED
      BY <3>1, <3>4, <3>5
  <2> DEFINE a == At(e, p[k])
  <2>7. a = k
    <3>1. a = CHOOSE j \in DOMAIN own : own[j].seq = rows[p[k]].seq
      BY DEF own
    <3>2. a \in DOMAIN own /\ own[a].seq = rows[p[k]].seq
      BY <3>1, <2>5
    <3> HIDE DEF a
    <3> QED
      BY <3>2, <2>6
  <2> HIDE DEF At
  <2>8. new[p[k]] = own[a]
    BY <2>2, <1>2 DEF own, a
  <2> QED
    BY <2>7, <2>8 DEF own
<1>4. ASSUME NEW e \in DOMAIN fitted
      PROVE  \E p : /\ Lists(p, Len(RowsOf(rows, e)), {i \in 1..n : rows[i].id = e})
                    /\ RowsOf(rows, e) = [k \in 1..Len(RowsOf(rows, e)) |-> rows[p[k]]]
                    /\ fitted[e] = [k \in 1..Len(RowsOf(rows, e)) |-> new[p[k]]]
  <2>1. PICK p : /\ Lists(p, Len(RowsOf(rows, e)), {i \in 1..n : rows[i].id = e})
                 /\ RowsOf(rows, e) = [k \in 1..Len(RowsOf(rows, e)) |-> rows[p[k]]]
    BY RowsOfPicks DEF Picks
  <2>2. \A k \in 1..Len(RowsOf(rows, e)) : new[p[k]] = fitted[e][k]
    BY <2>1, <1>3
  <2>3. fitted[e] \in Seq(Rows) /\ Len(fitted[e]) = Len(RowsOf(rows, e))
    BY DEF KeepsRows
  <2>4. fitted[e] = [k \in 1..Len(RowsOf(rows, e)) |-> new[p[k]]]
    BY <2>2, <2>3
  <2> QED
    BY <2>1, <2>4
<1>5. ASSUME NEW i \in 1..n
      PROVE  /\ new[i] \in Rows
             /\ new[i].seq = rows[i].seq /\ new[i].id = rows[i].id
             /\ new[i].sent = rows[i].sent /\ new[i].held = rows[i].held
             /\ new[i].destroy = rows[i].destroy /\ new[i].lease = rows[i].lease
             /\ ~rows[i].destroy => new[i].patch = rows[i].patch
  <2> DEFINE e == rows[i].id
  <2>1. CASE e \notin DOMAIN fitted
    <3>1. new[i] = rows[i]
      BY <2>1, <1>2
    <3>2. rows[i] \in Rows
      OBVIOUS
    <3> QED
      BY <3>1, <3>2
  <2>2. CASE e \in DOMAIN fitted
    <3>1. PICK p : /\ Lists(p, Len(RowsOf(rows, e)), {x \in 1..n : rows[x].id = e})
                   /\ RowsOf(rows, e) = [k \in 1..Len(RowsOf(rows, e)) |-> rows[p[k]]]
                   /\ fitted[e] = [k \in 1..Len(RowsOf(rows, e)) |-> new[p[k]]]
      BY <2>2, <1>4
    <3>2. PICK k \in 1..Len(RowsOf(rows, e)) : p[k] = i
      BY <3>1 DEF Lists
    <3>3. KeepsRows(fitted[e], RowsOf(rows, e))
      BY <2>2
    <3>4. fitted[e][k] = new[i] /\ RowsOf(rows, e)[k] = rows[i]
      BY <3>1, <3>2
    <3>5. fitted[e][k] \in Rows
      <4>1. fitted[e] \in Seq(Rows) /\ Len(fitted[e]) = Len(RowsOf(rows, e))
        BY <3>3 DEF KeepsRows
      <4> QED
        BY <4>1
    <3> HIDE DEF e
    <3> QED
      BY <3>3, <3>4, <3>5 DEF KeepsRows
  <2> QED
    BY <2>1, <2>2
<1>6. new \in Seq(Rows) /\ Len(new) = n
  <2>1. new \in [1..n -> Rows]
    <3>1. new = [i \in 1..n |-> new[i]]
      BY <1>1 DEF new, Refitted
    <3> QED
      BY <3>1, <1>5
  <2> QED
    BY <2>1, <1>1
<1>7. KeepsRows(new, rows)
  BY <1>5, <1>6 DEF KeepsRows
<1>8. ASSUME NEW e PROVE RowsOf(new, e) = IF e \in DOMAIN fitted THEN fitted[e] ELSE RowsOf(rows, e)
  <2>1. \A i \in 1..n : new[i].id = rows[i].id
    BY <1>5
  <2>2. PICK p : /\ Lists(p, Len(RowsOf(rows, e)), {i \in 1..n : rows[i].id = e})
                 /\ RowsOf(rows, e) = [k \in 1..Len(RowsOf(rows, e)) |-> rows[p[k]]]
                 /\ RowsOf(new, e) = [k \in 1..Len(RowsOf(rows, e)) |-> new[p[k]]]
    <3>1. PICK p : /\ Places(p, RowsOf(rows, e), rows, Of(rows, e))
                   /\ Places(p, RowsOf(new, e), new, Of(rows, e))
                   /\ Len(RowsOf(new, e)) = Len(RowsOf(rows, e))
      BY <1>6, <2>1, RowsOfAlike
    <3> QED
      BY <3>1 DEF Places, Of
  <2>3. CASE e \in DOMAIN fitted
    <3>1. \A k \in 1..Len(RowsOf(rows, e)) : new[p[k]] = fitted[e][k]
      BY <2>2, <2>3, <1>3
    <3>2. fitted[e] \in Seq(Rows) /\ Len(fitted[e]) = Len(RowsOf(rows, e))
      BY <2>3 DEF KeepsRows
    <3>3. fitted[e] = [k \in 1..Len(RowsOf(rows, e)) |-> new[p[k]]]
      BY <3>1, <3>2
    <3> QED
      BY <3>3, <2>2, <2>3
  <2>4. CASE e \notin DOMAIN fitted
    <3>1. ASSUME NEW k \in 1..Len(RowsOf(rows, e)) PROVE new[p[k]] = rows[p[k]]
      <4>1. p[k] \in 1..n /\ rows[p[k]].id = e
        BY <2>2 DEF Lists
      <4> QED
        BY <4>1, <1>2, <2>4
    <3>2. RowsOf(new, e) = RowsOf(rows, e)
      BY <3>1, <2>2
    <3> QED
      BY <3>2, <2>4
  <2> QED
    BY <2>3, <2>4
<1> QED
  BY <1>7, <1>8 DEF new

\* The rows of an email once a row is appended.
LEMMA RowsOfAppend ==
    ASSUME NEW rows \in Seq(Rows), NEW row \in Rows, NEW e
    PROVE  RowsOf(Append(rows, row), e) =
             IF row.id = e THEN Append(RowsOf(rows, e), row) ELSE RowsOf(rows, e)
<1> DEFINE new == Append(rows, row)
           n == Len(rows)
           s == RowsOf(rows, e)
           t == IF n + 1 \in Of(new, e) THEN Append(s, new[n + 1]) ELSE s
<1>1. new \in Seq(Rows) /\ Len(new) = n + 1 /\ new[n + 1] = row /\ n \in Nat
      /\ \A i \in 1..n : new[i] = rows[i]
  OBVIOUS
<1>2. s \in Seq(Rows) /\ Picks(s, rows, Of(rows, e))
  BY RowsOfPicks DEF Of
<1>3. Picks(s, new, Of(rows, e))
  <2>1. Of(rows, e) \in SUBSET (1..Len(rows))
    BY DEF Of
  <2> HIDE DEF s
  <2> QED
    BY <1>2, <2>1, PicksLonger
<1>4. Of(rows, e) = Of(new, e) \cap (1..((n + 1) - 1))
  <2>1. (n + 1) - 1 = n
    BY <1>1
  <2> HIDE DEF new
  <2> QED
    BY <1>1, <2>1 DEF Of
<1>5. Picks(RowsOf(new, e), new, Of(new, e)) /\ RowsOf(new, e) \in Seq(Rows)
  <2> HIDE DEF new
  <2> QED
    BY <1>1, RowsOfPicks DEF Of
<1>6. Of(new, e) \in SUBSET (1..Len(new)) /\ n + 1 \in 1..Len(new)
  BY <1>1 DEF Of
<1> HIDE DEF new, s, n
<1>7. Picks(t, new, Of(new, e) \cap (1..(n + 1)))
  <2> DEFINE i == n + 1
             T == Of(new, e)
  <2>1. i \in 1..Len(new) /\ T \in SUBSET (1..Len(new))
    BY <1>6
  <2>2. Picks(s, new, T \cap (1..(i - 1)))
    BY <1>3, <1>4
  <2>3. t = IF i \in T THEN Append(s, new[i]) ELSE s
    OBVIOUS
  <2> HIDE DEF t, i, T
  <2>4. Picks(t, new, T \cap (1..i))
    BY <1>1, <1>2, <2>1, <2>2, <2>3, PicksOneMore
  <2> QED
    BY <2>4 DEF i, T
<1>8. Of(new, e) \cap (1..(n + 1)) = Of(new, e)
  BY <1>1 DEF Of
<1>9. RowsOf(new, e) = t
  <2> HIDE DEF t
  <2>1. Picks(t, new, Of(new, e))
    BY <1>7, <1>8
  <2> QED
    BY <1>1, <1>5, <1>6, <2>1, PicksUnique
<1>10. n + 1 \in Of(new, e) <=> row.id = e
  BY <1>1, <1>6 DEF Of
<1> QED
  BY <1>1, <1>9, <1>10 DEF new, s

\* The rows of an email among those that stay.
LEMMA RowsOfWithout ==
    ASSUME NEW rows \in Seq(Rows), NEW L, NEW e
    PROVE  /\ RowsOf(Without(rows, L), e) \in Seq(Rows)
           /\ Picks(RowsOf(Without(rows, L), e), rows, {i \in Of(rows, e) : rows[i].seq \notin L})
<1> DEFINE S == {i \in 1..Len(rows) : rows[i].seq \notin L}
           U == {i \in Of(rows, e) : rows[i].seq \notin L}
           s == Without(rows, L)
           t == RowsOf(s, e)
<1>1. s \in Seq(Rows) /\ Picks(s, rows, S)
  BY WithoutPicks
<1>2. PICK p : Lists(p, Len(s), S) /\ s = [i \in 1..Len(s) |-> rows[p[i]]]
  BY <1>1 DEF Picks
<1> HIDE DEF s
<1>3. t \in Seq(Rows) /\ Picks(t, s, Of(s, e))
  BY <1>1, RowsOfPicks DEF Of
<1>4. U = Image(p, Of(s, e))
  <2>1. ASSUME NEW i \in Of(s, e) PROVE p[i] \in U
    <3>1. i \in 1..Len(s) /\ s[i].id = e
      BY DEF Of
    <3>2. p[i] \in S /\ s[i] = rows[p[i]]
      BY <3>1, <1>2 DEF Lists
    <3> QED
      BY <3>1, <3>2 DEF Of
  <2>2. ASSUME NEW x \in U PROVE \E i \in Of(s, e) : p[i] = x
    <3>1. x \in S /\ rows[x].id = e
      BY DEF Of
    <3>2. PICK i \in 1..Len(s) : p[i] = x
      BY <3>1, <1>2 DEF Lists
    <3>3. s[i] = rows[x]
      BY <3>2, <1>2
    <3> QED
      BY <3>1, <3>2, <3>3 DEF Of
  <2> QED
    BY <2>1, <2>2 DEF Image
<1>5. Of(s, e) \in SUBSET (1..Len(s)) /\ S \in SUBSET (1..Len(rows))
  BY DEF Of
<1> HIDE DEF t, S, U
<1>6. Places(p, s, rows, S)
  BY <1>2 DEF Places
<1>7. Picks(t, rows, Image(p, Of(s, e)))
  BY <1>1, <1>3, <1>5, <1>6, PicksOfPicks
<1> QED
  BY <1>3, <1>4, <1>7 DEF t, s, U

\* An email none of whose rows leaves keeps them; one all of whose rows
\* leave has none.
LEMMA RowsOfStaying ==
    ASSUME NEW rows \in Seq(Rows), NEW L, NEW e, \A i \in Of(rows, e) : rows[i].seq \notin L
    PROVE  RowsOf(Without(rows, L), e) = RowsOf(rows, e)
<1> DEFINE t == RowsOf(Without(rows, L), e)
           U == {i \in Of(rows, e) : rows[i].seq \notin L}
<1>1. t \in Seq(Rows) /\ Picks(t, rows, U)
  BY RowsOfWithout
<1>2. U = Of(rows, e) /\ Of(rows, e) \in SUBSET (1..Len(rows))
  BY DEF Of
<1>3. RowsOf(rows, e) \in Seq(Rows) /\ Picks(RowsOf(rows, e), rows, Of(rows, e))
  BY RowsOfPicks DEF Of
<1> HIDE DEF t, U
<1>4. t = RowsOf(rows, e)
  BY <1>1, <1>2, <1>3, PicksUnique
<1> QED
  BY <1>4 DEF t

\* An email all of whose rows leave has none.
LEMMA RowsOfLeaving ==
    ASSUME NEW rows \in Seq(Rows), NEW L, NEW e, \A i \in Of(rows, e) : rows[i].seq \in L
    PROVE  RowsOf(Without(rows, L), e) = <<>>
<1> DEFINE t == RowsOf(Without(rows, L), e)
           U == {i \in Of(rows, e) : rows[i].seq \notin L}
<1>1. t \in Seq(Rows) /\ Picks(t, rows, U)
  BY RowsOfWithout
<1>2. U = {}
  OBVIOUS
<1> HIDE DEF t, U
<1>3. t = <<>>
  BY <1>1, <1>2, PicksNone
<1> QED
  BY <1>3 DEF t

\* Rows whose flags moved: a row may go out or be held no longer.
Flags(new, rows) ==
    /\ new \in Seq(Rows) /\ Len(new) = Len(rows)
    /\ \A i \in 1..Len(rows) :
         /\ new[i].seq = rows[i].seq /\ new[i].id = rows[i].id
         /\ new[i].patch = rows[i].patch /\ new[i].inverse = rows[i].inverse
         /\ new[i].destroy = rows[i].destroy /\ new[i].lease = rows[i].lease
         /\ rows[i].sent => new[i].sent
         /\ new[i].held => rows[i].held

\* Moved flags leave the rows fitting.
LEMMA FlagsFit ==
    ASSUME NEW rows \in Seq(Rows), NEW new, Flags(new, rows), NEW e, NEW s, NEW h,
           Fits(s, RowsOf(rows, e), h)
    PROVE  Fits(s, RowsOf(new, e), h)
<1> DEFINE a == RowsOf(rows, e)
           b == RowsOf(new, e)
<1>1. new \in Seq(Rows) /\ Len(new) = Len(rows) /\ \A i \in 1..Len(rows) : new[i].id = rows[i].id
  BY DEF Flags
<1>2. PICK p : Places(p, a, rows, Of(rows, e)) /\ Places(p, b, new, Of(rows, e)) /\ Len(b) = Len(a)
  BY <1>1, RowsOfAlike
<1>3. a \in Seq(Rows) /\ b \in Seq(Rows)
  BY <1>1, RowsOfPicks
<1>4. ASSUME NEW k \in 1..Len(a) PROVE b[k].patch = a[k].patch /\ b[k].inverse = a[k].inverse
  <2>1. p[k] \in 1..Len(rows) /\ a[k] = rows[p[k]] /\ b[k] = new[p[k]]
    BY <1>2 DEF Places, Lists, Of
  <2> QED
    BY <2>1 DEF Flags
<1> HIDE DEF a, b
<1>5. Fits(s, a, h)
  BY DEF a
<1>6. Fits(s, b, h)
  BY <1>2, <1>3, <1>4, <1>5, FitsSame
<1> QED
  BY <1>6 DEF b

\* A row of the new log, of one of the old.
Descends(row, of) ==
    /\ row.seq = of.seq /\ row.id = of.id /\ row.destroy = of.destroy /\ row.lease = of.lease
    /\ of.sent => row.sent
    /\ row.held => of.held
    /\ ~of.destroy => row.patch = of.patch

\* The new log has the rows of the old one but those numbered in L.
Stem(new, old, L, p) ==
    /\ new \in Seq(Rows)
    /\ Lists(p, Len(new), {i \in 1..Len(old) : old[i].seq \notin L})
    /\ \A k \in 1..Len(new) : Descends(new[k], old[p[k]])

\* Rows refitted after some left: each is one that stayed, with its flags.
LEMMA StemOfKept ==
    ASSUME NEW old \in Seq(Rows), NEW L, NEW new, KeepsRows(new, Without(old, L))
    PROVE  \E p : /\ Stem(new, old, L, p)
                  /\ \A k \in 1..Len(new) : new[k].held = old[p[k]].held /\ new[k].sent = old[p[k]].sent
<1> DEFINE s == Without(old, L)
           S == {i \in 1..Len(old) : old[i].seq \notin L}
<1>1. s \in Seq(Rows) /\ Picks(s, old, S)
  BY WithoutPicks
<1>2. PICK p : Lists(p, Len(s), S) /\ s = [i \in 1..Len(s) |-> old[p[i]]]
  BY <1>1 DEF Picks
<1> HIDE DEF s
<1>3. new \in Seq(Rows) /\ Len(new) = Len(s)
  BY DEF KeepsRows, s
<1>4. ASSUME NEW k \in 1..Len(new)
      PROVE  /\ Descends(new[k], old[p[k]])
             /\ new[k].held = old[p[k]].held /\ new[k].sent = old[p[k]].sent
  <2>1. k \in 1..Len(s) /\ s[k] = old[p[k]]
    BY <1>2, <1>3
  <2>2. KeepsRows(new, s)
    BY DEF s
  <2> QED
    BY <2>1, <2>2 DEF KeepsRows, Descends
<1>5. Stem(new, old, L, p)
  BY <1>2, <1>3, <1>4 DEF Stem
<1> QED
  BY <1>4, <1>5

\* Moved flags let no row go.
LEMMA StemOfFlags ==
    ASSUME NEW old \in Seq(Rows), NEW new, Flags(new, old)
    PROVE  \E p : Stem(new, old, {}, p)
<1> DEFINE n == Len(old)
           p == [i \in 1..n |-> i]
<1>1. n \in Nat /\ {i \in 1..Len(old) : old[i].seq \notin {}} = 1..n
  OBVIOUS
<1>2. Lists(p, n, 1..n)
  BY <1>1 DEF Lists
<1>3. \A k \in 1..n : Descends(new[k], old[p[k]])
  BY DEF Flags, Descends
<1>4. new \in Seq(Rows) /\ Len(new) = n
  BY DEF Flags
<1> HIDE DEF n, p
<1>5. Stem(new, old, {}, p)
  BY <1>1, <1>2, <1>3, <1>4 DEF Stem
<1> QED
  BY <1>5

\* Refitted rows alone leave no row out.
LEMMA StemOfRefit ==
    ASSUME NEW old \in Seq(Rows), NEW new, KeepsRows(new, old)
    PROVE  \E p : Stem(new, old, {}, p)
<1> DEFINE n == Len(old)
           p == [i \in 1..n |-> i]
<1>1. n \in Nat /\ {i \in 1..Len(old) : old[i].seq \notin {}} = 1..n
  OBVIOUS
<1>2. Lists(p, n, 1..n)
  BY <1>1 DEF Lists
<1>3. \A k \in 1..n : Descends(new[k], old[p[k]])
  BY DEF KeepsRows, Descends
<1>4. new \in Seq(Rows) /\ Len(new) = n
  BY DEF KeepsRows
<1> HIDE DEF n, p
<1>5. Stem(new, old, {}, p)
  BY <1>1, <1>2, <1>3, <1>4 DEF Stem
<1> QED
  BY <1>5

\* Every new row is one of the old that stayed, and each that stayed is there.
LEMMA StemRows ==
    ASSUME NEW old \in Seq(Rows), NEW L, NEW new, NEW p, Stem(new, old, L, p)
    PROVE  /\ \A k \in 1..Len(new) : /\ p[k] \in 1..Len(old) /\ old[p[k]].seq \notin L
                                     /\ Descends(new[k], old[p[k]])
           /\ \A i \in 1..Len(old) : old[i].seq \notin L => \E k \in 1..Len(new) : p[k] = i
           /\ \A k, l \in 1..Len(new) : k < l => p[k] < p[l]
BY DEF Stem, Lists

-----------------------------------------------------------------------------
(* The order of the log, and what its changes say *)

\* The rows by growing sequence numbers, a destroy the last row of its email,
\* only a destroy held.
Ordered(rows) ==
    /\ Rising(rows)
    /\ \A i, j \in 1..Len(rows) : i < j /\ rows[i].id = rows[j].id => ~rows[i].destroy
    /\ \A i \in 1..Len(rows) : rows[i].held => rows[i].destroy

\* Rows that stay are ordered as they were.
LEMMA StemOrdered ==
    ASSUME NEW old \in Seq(Rows), NEW L, NEW new, NEW p, Stem(new, old, L, p), Ordered(old)
    PROVE  Ordered(new)
<1>1. /\ \A k \in 1..Len(new) : p[k] \in 1..Len(old) /\ Descends(new[k], old[p[k]])
      /\ \A k, l \in 1..Len(new) : k < l => p[k] < p[l]
  BY StemRows
<1>2. ASSUME NEW i \in 1..Len(new), NEW j \in 1..Len(new), i < j
      PROVE  /\ new[i].seq < new[j].seq
             /\ new[i].id = new[j].id => ~new[i].destroy
  <2>1. p[i] \in 1..Len(old) /\ p[j] \in 1..Len(old) /\ p[i] < p[j]
    BY <1>1, <1>2
  <2>2. /\ old[p[i]].seq < old[p[j]].seq
        /\ old[p[i]].id = old[p[j]].id => ~old[p[i]].destroy
    BY <2>1 DEF Ordered, Rising
  <2>3. Descends(new[i], old[p[i]]) /\ Descends(new[j], old[p[j]])
    BY <1>1
  <2> QED
    BY <2>2, <2>3 DEF Descends
<1>3. ASSUME NEW i \in 1..Len(new), new[i].held PROVE new[i].destroy
  BY <1>1, <1>3 DEF Ordered, Descends
<1> QED
  BY <1>2, <1>3 DEF Ordered, Rising

\* The changes of an email that name a path.
Naming(rows, e, m) ==
    {i \in 1..Len(rows) : rows[i].id = e /\ ~rows[i].destroy /\ m \in DOMAIN rows[i].patch}

\* The last of them sets it to v.
LastSays(rows, e, m, v) ==
    \E i \in Naming(rows, e, m) : rows[i].patch[m] = v /\ \A j \in Naming(rows, e, m) : j <= i

\* No change of the email leaves.
KeepsChanges(rows, L, e) ==
    \A i \in 1..Len(rows) : rows[i].id = e /\ ~rows[i].destroy => rows[i].seq \notin L

\* The changes that name a path are the old ones that stayed.
LEMMA StemNaming ==
    ASSUME NEW old \in Seq(Rows), NEW L, NEW new, NEW p, Stem(new, old, L, p), NEW e, NEW m
    PROVE  /\ \A k \in 1..Len(new) : k \in Naming(new, e, m) <=> p[k] \in Naming(old, e, m)
           /\ \A k \in Naming(new, e, m) : new[k].patch = old[p[k]].patch
           /\ KeepsChanges(old, L, e) =>
                \A i \in Naming(old, e, m) : \E k \in Naming(new, e, m) : p[k] = i
<1>1. /\ \A k \in 1..Len(new) : p[k] \in 1..Len(old) /\ Descends(new[k], old[p[k]])
      /\ \A i \in 1..Len(old) : old[i].seq \notin L => \E k \in 1..Len(new) : p[k] = i
  BY StemRows
<1>2. ASSUME NEW k \in 1..Len(new)
      PROVE  /\ k \in Naming(new, e, m) <=> p[k] \in Naming(old, e, m)
             /\ k \in Naming(new, e, m) => new[k].patch = old[p[k]].patch
  BY <1>1 DEF Naming, Descends
<1>3. \A k \in Naming(new, e, m) : k \in 1..Len(new)
  BY DEF Naming
<1>4. ASSUME KeepsChanges(old, L, e), NEW i \in Naming(old, e, m)
      PROVE  \E k \in Naming(new, e, m) : p[k] = i
  <2>1. i \in 1..Len(old) /\ old[i].seq \notin L
    BY <1>4 DEF Naming, KeepsChanges
  <2>2. PICK k \in 1..Len(new) : p[k] = i
    BY <2>1, <1>1
  <2> QED
    BY <2>2, <1>2
<1> QED
  BY <1>2, <1>3, <1>4

\* While no change of an email leaves, its last word on a path stands.
LEMMA StemSays ==
    ASSUME NEW old \in Seq(Rows), NEW L, NEW new, NEW p, Stem(new, old, L, p), NEW e, NEW m
    PROVE  /\ Naming(old, e, m) = {} => Naming(new, e, m) = {}
           /\ KeepsChanges(old, L, e) =>
                /\ Naming(new, e, m) = {} => Naming(old, e, m) = {}
                /\ \A v : LastSays(new, e, m, v) <=> LastSays(old, e, m, v)
<1> DEFINE N == Naming(new, e, m)
           O == Naming(old, e, m)
<1>1. /\ \A k \in 1..Len(new) : k \in N <=> p[k] \in O
      /\ \A k \in N : new[k].patch = old[p[k]].patch
      /\ KeepsChanges(old, L, e) => \A i \in O : \E k \in N : p[k] = i
  BY StemNaming
<1>2. \A k, l \in 1..Len(new) : k < l => p[k] < p[l]
  BY StemRows
<1>3. N \in SUBSET (1..Len(new)) /\ O \in SUBSET (1..Len(old))
  BY DEF Naming
<1> HIDE DEF N, O
<1>4. O = {} => N = {}
  BY <1>1, <1>3
<1>5. ASSUME KeepsChanges(old, L, e)
      PROVE  /\ N = {} => O = {}
             /\ \A v : (\E k \in N : new[k].patch[m] = v /\ \A j \in N : j <= k)
                         <=> \E i \in O : old[i].patch[m] = v /\ \A j \in O : j <= i
  <2>1. \A i \in O : \E k \in N : p[k] = i
    BY <1>1, <1>5
  <2>2. ASSUME NEW v, NEW k \in N, new[k].patch[m] = v, \A j \in N : j <= k
        PROVE  \E i \in O : old[i].patch[m] = v /\ \A j \in O : j <= i
    <3>1. p[k] \in O /\ old[p[k]].patch[m] = v
      BY <1>1, <1>3, <2>2
    <3>2. ASSUME NEW j \in O PROVE j <= p[k]
      <4>1. PICK l \in N : p[l] = j
        BY <2>1
      <4>2. l <= k /\ l \in 1..Len(new) /\ k \in 1..Len(new) /\ p[k] \in 1..Len(old)
        BY <2>2, <1>3, <3>1
      <4>3. l = k \/ l < k
        BY <4>2
      <4> QED
        BY <4>1, <4>2, <4>3, <1>2, <1>3
    <3> QED
      BY <3>1, <3>2
  <2>3. ASSUME NEW v, NEW i \in O, old[i].patch[m] = v, \A j \in O : j <= i
        PROVE  \E k \in N : new[k].patch[m] = v /\ \A j \in N : j <= k
    <3>1. PICK k \in N : p[k] = i
      BY <2>1
    <3>2. new[k].patch[m] = v
      BY <1>1, <3>1, <2>3
    <3>3. ASSUME NEW j \in N PROVE j <= k
      <4>1. p[j] \in O /\ p[j] <= p[k] /\ j \in 1..Len(new) /\ k \in 1..Len(new)
        BY <1>1, <1>3, <2>3, <3>1
      <4>2. ~(k < j)
        <5>1. p[j] \in 1..Len(old) /\ p[k] \in 1..Len(old)
          BY <4>1, <3>1, <1>3
        <5> QED
          BY <4>1, <5>1, <1>2
      <4> QED
        BY <4>1, <4>2
    <3> QED
      BY <3>2, <3>3
  <2> QED
    BY <2>1, <2>2, <2>3
<1> QED
  BY <1>4, <1>5 DEF LastSays, N, O

\* The last change says one thing.
LEMMA LastSaysOnce ==
    ASSUME NEW rows \in Seq(Rows), NEW e, NEW m, NEW v, NEW w,
           LastSays(rows, e, m, v), LastSays(rows, e, m, w)
    PROVE  v = w
<1>1. PICK i \in Naming(rows, e, m) : rows[i].patch[m] = v /\ \A j \in Naming(rows, e, m) : j <= i
  BY DEF LastSays
<1>2. PICK k \in Naming(rows, e, m) : rows[k].patch[m] = w /\ \A j \in Naming(rows, e, m) : j <= k
  BY DEF LastSays
<1>3. i \in Nat /\ k \in Nat
  BY DEF Naming
<1>4. i = k
  BY <1>1, <1>2, <1>3
<1> QED
  BY <1>1, <1>2, <1>4

\* The changes of an email merged: what the last that names a path sets it to.
LEMMA PatchesSay ==
    ASSUME log \in Seq(Rows), NEW e
    PROVE  /\ Merged(PatchesOf(e)) \in Patches
           /\ \A m : m \in DOMAIN Merged(PatchesOf(e)) <=> Naming(log, e, m) # {}
           /\ \A m \in DOMAIN Merged(PatchesOf(e)) : LastSays(log, e, m, Merged(PatchesOf(e))[m])
<1> DEFINE s == PatchesOf(e)
           S == {i \in 1..Len(log) : log[i].id = e /\ ~log[i].destroy}
           merged == Merged(s)
<1>1. s \in Seq(Rows) /\ Picks(s, log, S)
  BY PatchesOfPicks
<1>2. PICK p : Lists(p, Len(s), S) /\ s = [i \in 1..Len(s) |-> log[p[i]]]
  BY <1>1 DEF Picks
<1>3. /\ merged \in Patches
      /\ \A m : m \in DOMAIN merged <=> Names(s, m) # {}
      /\ \A m \in DOMAIN merged :
           \E j \in Names(s, m) : merged[m] = s[j].patch[m] /\ \A k \in Names(s, m) : k <= j
  <2> HIDE DEF s
  <2> QED
    BY <1>1, MergedSays
<1> HIDE DEF s, merged
<1>4. ASSUME NEW m, NEW j \in Names(s, m)
      PROVE  j \in 1..Len(s) /\ p[j] \in Naming(log, e, m) /\ s[j] = log[p[j]]
  <2>1. j \in 1..Len(s) /\ m \in DOMAIN s[j].patch
    BY DEF Names
  <2>2. p[j] \in S /\ s[j] = log[p[j]]
    BY <2>1, <1>2 DEF Lists
  <2> QED
    BY <2>1, <2>2 DEF Naming
<1>5. ASSUME NEW m, NEW i \in Naming(log, e, m) PROVE \E j \in Names(s, m) : p[j] = i
  <2>1. i \in S /\ m \in DOMAIN log[i].patch
    BY DEF Naming
  <2>2. PICK j \in 1..Len(s) : p[j] = i
    BY <2>1, <1>2 DEF Lists
  <2>3. s[j] = log[i]
    BY <2>2, <1>2
  <2> QED
    BY <2>1, <2>2, <2>3 DEF Names
<1>6. \A m : m \in DOMAIN merged <=> Naming(log, e, m) # {}
  BY <1>3, <1>4, <1>5
<1>7. ASSUME NEW m \in DOMAIN merged PROVE LastSays(log, e, m, merged[m])
  <2>1. PICK j \in Names(s, m) : merged[m] = s[j].patch[m] /\ \A k \in Names(s, m) : k <= j
    BY <1>3
  <2>2. p[j] \in Naming(log, e, m) /\ s[j] = log[p[j]] /\ j \in 1..Len(s)
    BY <1>4
  <2>3. ASSUME NEW i \in Naming(log, e, m) PROVE i <= p[j]
    <3>1. PICK k \in Names(s, m) : p[k] = i
      BY <1>5
    <3>2. k <= j /\ k \in 1..Len(s) /\ p[k] \in Naming(log, e, m)
      BY <2>1, <3>1, <1>4
    <3>3. k = j \/ k < j
      BY <3>2, <2>2, <1>1
    <3>4. p[k] \in Nat /\ p[j] \in Nat
      BY <3>2, <2>2 DEF Naming
    <3>5. k < j => p[k] < p[j]
      BY <3>2, <2>2, <1>2 DEF Lists
    <3> QED
      BY <3>1, <3>3, <3>4, <3>5
  <2> QED
    BY <2>1, <2>2, <2>3 DEF LastSays
<1> QED
  BY <1>3, <1>6, <1>7 DEF s, merged

\* What is out of an email that is not destroyed is every change of it.
LEMMA SentIsPatches ==
    ASSUME log \in Seq(Rows), NEW e,
           \A i \in 1..Len(log) : log[i].id = e => (Out(log[i]) <=> ~log[i].destroy)
    PROVE  Sent(e) = PatchesOf(e)
<1> DEFINE S == {i \in 1..Len(log) : log[i].id = e /\ ~log[i].destroy}
           T == {i \in 1..Len(log) : log[i].id = e /\ Out(log[i])}
<1>1. Picks(Sent(e), log, T) /\ Picks(PatchesOf(e), log, S)
  BY SentPicks, PatchesOfPicks
<1>2. T = S /\ S \in SUBSET (1..Len(log))
  OBVIOUS
<1> HIDE DEF S, T
<1>3. Picks(Sent(e), log, S) /\ Picks(PatchesOf(e), log, S)
  BY <1>1, <1>2
<1> QED
  BY <1>2, <1>3, PicksUnique

-----------------------------------------------------------------------------
(* The inductive invariant *)

Toast == [seq : Nat, id : Emails]

\* The type of what the proofs reason about: neither counts nor budgets.
Types ==
    /\ server \in [Emails -> States] /\ header \in [Emails -> States]
    /\ said \in [Emails -> States] /\ stored \in SUBSET Emails
    /\ log \in Seq(Rows)
    /\ toasts \in [Tabs -> SUBSET Toast]
    /\ owed \in [Emails -> Patches] /\ unseen \in [Emails -> States]
    /\ worker = [phase |-> worker.phase, poll |-> worker.poll, sent |-> worker.sent,
                 more |-> worker.more, verdict |-> worker.verdict,
                 mailboxes |-> worker.mailboxes, emails |-> worker.emails,
                 fresh |-> worker.fresh]
    /\ worker.phase = "land" =>
         DOMAIN worker.emails \subseteq Emails
           /\ \A e \in DOMAIN worker.emails : worker.emails[e] \in States

\* The destroy a toast can take back, held on the lease of its tab.
HeldFor(x, t) ==
    \E i \in 1..Len(log) :
       log[i].seq = x.seq /\ log[i].id = x.id /\ log[i].held /\ log[i].lease = t

Toasts == \A t \in Tabs : \A x \in toasts[t] : HeldFor(x, t)

\* What is out with a request: marked and not held; with a row of an email
\* every row of it that is not held.
Outgoing ==
    worker.phase \in {"out", "answered", "settle"} =>
      \A i \in 1..Len(log) :
        /\ Out(log[i]) => ~log[i].held /\ log[i].sent
        /\ log[i].id \in SentIds => Out(log[i]) \/ log[i].held

\* What an answer says: an email is taken whose changes are out, gone one
\* whose destroy is.
Answered ==
    /\ worker.phase \in {"answered", "settle"} =>
         /\ \A e \in With("took") : e \in SentIds /\ ~Destroying(e)
         /\ \A e \in With("gone") : Destroying(e) /\ server[e] = Gone
    /\ worker.phase = "answered" => With("refused") \subseteq SentIds

\* What lands is what the server has, but for paths others wrote since.
Landing ==
    worker.phase = "land" =>
      \A e \in DOMAIN worker.emails :
        /\ worker.emails[e] = Gone => server[e] = Gone
        /\ server[e] # Gone =>
             \A m \in Members : (m \in server[e]) # (m \in worker.emails[e]) => m \in unseen[e]

\* The rows of an email lead from what the server said of it to its header.
Fitting == \A e \in stored : Fits(said[e], RowsOf(log, e), header[e])

\* Of an email the server has: it is in the store, what is owed was written
\* by no one else since, is the last word of the changes or stands on the
\* server; where the server differs from what it said, another client wrote
\* or a change that went out did.
Mail(e) ==
    /\ e \in stored
    /\ DOMAIN owed[e] \cap unseen[e] = {}
    /\ \A m \in DOMAIN owed[e] :
         \/ LastSays(log, e, m, owed[e][m])
         \/ Naming(log, e, m) = {} /\ (m \in server[e]) = owed[e][m]
    /\ \A m \in Members : (m \in server[e]) # (m \in said[e]) =>
         m \in unseen[e] \/ \E i \in Naming(log, e, m) : log[i].sent

Mails == \A e \in Emails : server[e] # Gone => Mail(e)

\* What the changes of an email the server took say, the server has, but for
\* paths others wrote since; none of it is owed.
Took ==
    worker.phase \in {"answered", "settle"} =>
      \A e \in With("took") : server[e] # Gone =>
        \A m \in Members, v \in BOOLEAN : LastSays(log, e, m, v) =>
          m \notin DOMAIN owed[e] /\ (m \in unseen[e] \/ (m \in server[e]) = v)

IInv ==
    /\ Types /\ Ordered(log) /\ Toasts /\ Outgoing /\ Answered /\ Landing
    /\ Fitting /\ Mails /\ Took

-----------------------------------------------------------------------------
(* What each action does to the log *)

\* The row a change or a destroy logs.
Logs(row, e, patch, destroy, lease) ==
    /\ row \in Rows /\ row.id = e /\ row.patch = patch
    /\ row.inverse = InverseOf(header[e], patch)
    /\ row.destroy = destroy /\ row.held = destroy /\ row.lease = lease /\ row.sent = FALSE
    /\ log' = Append(log, row)
    /\ \A i \in 1..Len(log) : log[i].seq < row.seq /\ (log[i].id = e => ~log[i].destroy)

\* Logging a row appends one with a new sequence number, to an email
\* with no destroy.
LEMMA LogShape ==
    ASSUME Types, Ordered(log), NEW e \in Emails, NEW patch \in Patches, NEW destroy \in BOOLEAN,
           NEW lease \in Tabs, Log(e, patch, destroy, lease)
    PROVE  \E row : Logs(row, e, patch, destroy, lease)
<1> DEFINE n == Len(log)
           seq == IF log = <<>> THEN 1 ELSE log[Len(log)].seq + 1
           row == [seq |-> seq, id |-> e, patch |-> patch, inverse |-> InverseOf(header[e], patch),
                   sent |-> FALSE, destroy |-> destroy, held |-> destroy, lease |-> lease]
<1>1. log \in Seq(Rows) /\ header[e] \in States /\ n \in Nat
  BY DEF Types
<1>2. seq \in Nat /\ \A i \in 1..n : log[i].seq < seq
  <2>1. CASE log = <<>>
    BY <2>1
  <2>2. CASE log # <<>>
    <3>1. n \in 1..n
      BY <1>1, <2>2
    <3>2. seq = log[n].seq + 1 /\ log[n].seq \in Nat
      BY <1>1, <2>2, <3>1, RowType
    <3>3. ASSUME NEW i \in 1..n PROVE log[i].seq < seq
      <4>1. log[i].seq \in Nat
        BY <1>1, RowType
      <4>2. i = n \/ i < n
        BY <1>1
      <4>3. i < n => log[i].seq < log[n].seq
        BY <3>1 DEF Ordered, Rising
      <4> QED
        BY <3>2, <4>1, <4>2, <4>3
    <3> QED
      BY <3>2, <3>3
  <2> QED
    BY <2>1, <2>2
<1>3. InverseOf(header[e], patch) \in Patches
  BY <1>1, InverseType
<1>4. row \in Rows
  <2> HIDE DEF seq, Patches
  <2> QED
    BY <1>2, <1>3 DEF Rows
<1>5. log' = Append(log, row)
  BY DEF Log
<1>6. \A i \in 1..n : log[i].id = e => ~log[i].destroy
  BY <1>1 DEF Log
<1> HIDE DEF seq
<1>7. Logs(row, e, patch, destroy, lease)
  BY <1>2, <1>4, <1>5, <1>6 DEF Logs
<1> QED
  BY <1>7

\* The log one row longer.
LEMMA LogsSay ==
    ASSUME Types, NEW e \in Emails, NEW patch, NEW destroy, NEW lease, NEW row,
           Logs(row, e, patch, destroy, lease)
    PROVE  /\ log' \in Seq(Rows) /\ Len(log') = Len(log) + 1 /\ log'[Len(log) + 1] = row
           /\ log'[Len(log')] = row
           /\ \A i \in 1..Len(log) : log'[i] = log[i]
           /\ \A x : RowsOf(log', x) = IF x = e THEN Append(RowsOf(log, x), row)
                                       ELSE RowsOf(log, x)
<1>1. row \in Rows /\ row.id = e /\ log' = Append(log, row) /\ log \in Seq(Rows)
  BY DEF Logs, Types
<1>2. \A x : RowsOf(log', x) = IF x = e THEN Append(RowsOf(log, x), row) ELSE RowsOf(log, x)
  BY <1>1, RowsOfAppend
<1>3. log' \in Seq(Rows) /\ Len(log') = Len(log) + 1 /\ log'[Len(log) + 1] = row
      /\ \A i \in 1..Len(log) : log'[i] = log[i]
  BY <1>1
<1> QED
  BY <1>2, <1>3

\* A function from an interval is a sequence.
LEMMA SeqOf ==
    ASSUME NEW R, NEW n \in Nat, NEW f \in [1..n -> R]
    PROVE  f \in Seq(R) /\ Len(f) = n
OBVIOUS

\* Rows held or sent as told.
Flagged(rows, held, sent) ==
    [i \in 1..Len(rows) |-> [rows[i] EXCEPT !.held = held[i], !.sent = sent[i]]]

\* Held rows released, or rows marked as sent.
LEMMA FlagShape ==
    ASSUME NEW rows \in Seq(Rows), NEW held \in [1..Len(rows) -> BOOLEAN],
           NEW sent \in [1..Len(rows) -> BOOLEAN],
           \A i \in 1..Len(rows) : (held[i] => rows[i].held) /\ (rows[i].sent => sent[i])
    PROVE  /\ Flags(Flagged(rows, held, sent), rows)
           /\ \A i \in 1..Len(rows) : /\ Flagged(rows, held, sent)[i].held = held[i]
                                      /\ Flagged(rows, held, sent)[i].sent = sent[i]
<1> DEFINE new == Flagged(rows, held, sent)
           n == Len(rows)
<1>1. ASSUME NEW i \in 1..n
      PROVE  /\ new[i] \in Rows /\ new[i].held = held[i] /\ new[i].sent = sent[i]
             /\ new[i].seq = rows[i].seq /\ new[i].id = rows[i].id
             /\ new[i].patch = rows[i].patch /\ new[i].inverse = rows[i].inverse
             /\ new[i].destroy = rows[i].destroy /\ new[i].lease = rows[i].lease
  <2>1. rows[i] \in Rows
    OBVIOUS
  <2>2. new[i] = [rows[i] EXCEPT !.held = held[i], !.sent = sent[i]]
    BY DEF Flagged
  <2>3. held[i] \in BOOLEAN /\ sent[i] \in BOOLEAN
    OBVIOUS
  <2> HIDE DEF Patches, new
  <2> QED
    BY <2>1, <2>2, <2>3 DEF Rows
<1>2. n \in Nat
  OBVIOUS
<1>3. new = [i \in 1..n |-> new[i]]
  BY DEF Flagged
<1> HIDE DEF new, n
<1>4. new \in [1..n -> Rows]
  <2> HIDE DEF Rows
  <2>1. \A i \in 1..n : new[i] \in Rows
    BY <1>1
  <2> QED
    BY <1>3, <2>1
<1>5. new \in Seq(Rows) /\ Len(new) = n
  BY <1>2, <1>4, SeqOf
<1>6. Flags(new, rows) /\ \A i \in 1..n : new[i].held = held[i] /\ new[i].sent = sent[i]
  BY <1>1, <1>5 DEF Flags, n
<1> QED
  BY <1>6 DEF new, n

\* Setting one flag and leaving the other is setting the one.
LEMMA FlagAlone ==
    ASSUME NEW row \in Rows, NEW a
    PROVE  /\ [row EXCEPT !.held = a, !.sent = row.sent] = [row EXCEPT !.held = a]
           /\ [row EXCEPT !.held = row.held, !.sent = a] = [row EXCEPT !.sent = a]
<1> HIDE DEF Patches
<1> QED
  BY DEF Rows

HeldAs(rows, held) == [i \in DOMAIN rows |-> [rows[i] EXCEPT !.held = held[i]]]
SentAs(rows, sent) == [i \in DOMAIN rows |-> [rows[i] EXCEPT !.sent = sent[i]]]

\* Rows released.
LEMMA HeldShape ==
    ASSUME log \in Seq(Rows), NEW held \in [1..Len(log) -> BOOLEAN],
           \A i \in 1..Len(log) : held[i] => log[i].held,
           NEW new, new = HeldAs(log, held)
    PROVE  Flags(new, log) /\ \A i \in 1..Len(log) : new[i].held = held[i] /\ new[i].sent = log[i].sent
<1> DEFINE sent == [i \in 1..Len(log) |-> log[i].sent]
<1>1. sent \in [1..Len(log) -> BOOLEAN] /\ \A i \in 1..Len(log) : sent[i] = log[i].sent
  BY RowType
<1>2. new = Flagged(log, held, sent)
  <2>1. DOMAIN log = 1..Len(log)
    OBVIOUS
  <2>2. ASSUME NEW i \in 1..Len(log)
        PROVE  [log[i] EXCEPT !.held = held[i]] = [log[i] EXCEPT !.held = held[i], !.sent = sent[i]]
    <3>1. log[i] \in Rows /\ sent[i] = log[i].sent
      BY RowType
    <3> HIDE DEF sent, Rows
    <3> QED
      BY <3>1, FlagAlone
  <2> HIDE DEF sent
  <2> QED
    BY <2>1, <2>2 DEF Flagged, HeldAs
<1> HIDE DEF sent
<1>3. \A i \in 1..Len(log) : (held[i] => log[i].held) /\ (log[i].sent => sent[i])
  BY <1>1
<1>4. /\ Flags(Flagged(log, held, sent), log)
      /\ \A i \in 1..Len(log) : /\ Flagged(log, held, sent)[i].held = held[i]
                                /\ Flagged(log, held, sent)[i].sent = sent[i]
  BY <1>1, <1>3, FlagShape
<1> QED
  BY <1>1, <1>2, <1>4

\* Rows marked as sent.
LEMMA SentShape ==
    ASSUME log \in Seq(Rows), NEW sent \in [1..Len(log) -> BOOLEAN],
           \A i \in 1..Len(log) : log[i].sent => sent[i],
           NEW new, new = SentAs(log, sent)
    PROVE  Flags(new, log) /\ \A i \in 1..Len(log) : new[i].sent = sent[i] /\ new[i].held = log[i].held
<1> DEFINE held == [i \in 1..Len(log) |-> log[i].held]
<1>1. held \in [1..Len(log) -> BOOLEAN] /\ \A i \in 1..Len(log) : held[i] = log[i].held
  BY RowType
<1>2. new = Flagged(log, held, sent)
  <2>1. DOMAIN log = 1..Len(log)
    OBVIOUS
  <2>2. ASSUME NEW i \in 1..Len(log)
        PROVE  [log[i] EXCEPT !.sent = sent[i]] = [log[i] EXCEPT !.held = held[i], !.sent = sent[i]]
    <3>1. log[i] \in Rows /\ held[i] = log[i].held
      BY RowType
    <3> HIDE DEF held, Rows
    <3> QED
      BY <3>1, FlagAlone
  <2> HIDE DEF held
  <2> QED
    BY <2>1, <2>2 DEF Flagged, SentAs
<1> HIDE DEF held
<1>3. \A i \in 1..Len(log) : (held[i] => log[i].held) /\ (log[i].sent => sent[i])
  BY <1>1
<1>4. /\ Flags(Flagged(log, held, sent), log)
      /\ \A i \in 1..Len(log) : /\ Flagged(log, held, sent)[i].held = held[i]
                                /\ Flagged(log, held, sent)[i].sent = sent[i]
  BY <1>1, <1>3, FlagShape
<1> QED
  BY <1>1, <1>2, <1>4

\* The end of one toast.
Releases(t, x) ==
    /\ t \in Tabs /\ x \in toasts[t]
    /\ Flags(log', log)
    /\ \A i \in 1..Len(log) : /\ log'[i].held <=> log[i].held /\ log[i].seq # x.seq
                              /\ log'[i].sent = log[i].sent
    /\ toasts' = [toasts EXCEPT ![t] = @ \ {x}]

\* The end of a toast releases its row alone.
LEMMA ReleaseShape ==
    ASSUME Types, Release
    PROVE  \E t, x : Releases(t, x)
<1>1. PICK t \in Tabs : \E x \in toasts[t] :
         /\ log' = [i \in DOMAIN log |-> [log[i] EXCEPT !.held = @ /\ log[i].seq # x.seq]]
         /\ toasts' = [toasts EXCEPT ![t] = @ \ {x}]
  BY DEF Release
<1>2. PICK x \in toasts[t] :
         /\ log' = [i \in DOMAIN log |-> [log[i] EXCEPT !.held = @ /\ log[i].seq # x.seq]]
         /\ toasts' = [toasts EXCEPT ![t] = @ \ {x}]
  BY <1>1
<1> DEFINE held == [i \in 1..Len(log) |-> log[i].held /\ log[i].seq # x.seq]
<1>3. log \in Seq(Rows) /\ DOMAIN log = 1..Len(log)
  BY DEF Types
<1>4. held \in [1..Len(log) -> BOOLEAN] /\ \A i \in 1..Len(log) : held[i] <=> log[i].held /\ log[i].seq # x.seq
  BY <1>3, RowType
<1>5. log' = HeldAs(log, held)
  BY <1>2, <1>3 DEF HeldAs
<1> HIDE DEF held
<1>6. Flags(log', log) /\ \A i \in 1..Len(log) : log'[i].held = held[i] /\ log'[i].sent = log[i].sent
  BY <1>3, <1>4, <1>5, HeldShape
<1>7. Releases(t, x)
  BY <1>2, <1>4, <1>6 DEF Releases
<1> QED
  BY <1>7

\* A flush releases the held rows of lapsed leases.
LEMMA FlushShape ==
    ASSUME Types, Flush
    PROVE  /\ Flags(log', log)
           /\ \A i \in 1..Len(log) : log'[i].held <=> log[i].held /\ Live(log[i].lease)
<1> DEFINE held == [i \in 1..Len(log) |-> log[i].held /\ Live(log[i].lease)]
<1>1. log \in Seq(Rows) /\ DOMAIN log = 1..Len(log)
  BY DEF Types
<1>2. /\ held \in [1..Len(log) -> BOOLEAN]
      /\ \A i \in 1..Len(log) : held[i] <=> log[i].held /\ Live(log[i].lease)
  BY <1>1, RowType DEF Live
<1>3. log' = HeldAs(log, held)
  BY <1>1 DEF Flush, Lapsed, HeldAs
<1> HIDE DEF held
<1>4. Flags(log', log) /\ \A i \in 1..Len(log) : log'[i].held = held[i]
  BY <1>1, <1>2, <1>3, HeldShape
<1> QED
  BY <1>2, <1>4

\* Whatever goes out, every ready row of some emails goes.
LEMMA SendShape ==
    ASSUME Types, Ordered(log), Send
    PROVE  /\ Flags(log', log)
           /\ \A i \in 1..Len(log) : log'[i].held = log[i].held
           /\ \/ worker' = Flushed
              \/ /\ worker'.phase = "out"
                 /\ \A i \in 1..Len(log) : log[i].seq \in worker'.sent => log'[i].sent
                 /\ \E E : \A i \in 1..Len(log) :
                      log[i].seq \in worker'.sent <=> ~log[i].held /\ log[i].id \in E
                 /\ worker' = [worker EXCEPT !.phase = "out", !.sent = worker'.sent,
                                             !.more = worker'.more]
<1> DEFINE ready == Ready(log)
           named == FirstEmails(ready)
           gone == Seqs(named)
<1>1. log \in Seq(Rows) /\ DOMAIN log = 1..Len(log)
  BY DEF Types
<1>2. CASE ready = <<>>
  <2>1. worker' = Flushed /\ log' = log
    BY <1>2 DEF Send
  <2>2. Flags(log, log) /\ \A i \in 1..Len(log) : log'[i].held = log[i].held
    BY <1>1, <2>1 DEF Flags
  <2> QED
    BY <2>1, <2>2
<1>3. CASE ready # <<>>
  <2>1. /\ worker' = [worker EXCEPT !.phase = "out", !.sent = gone,
                                    !.more = Cardinality(gone) < Len(ready)]
        /\ log' = [i \in DOMAIN log |-> [log[i] EXCEPT !.sent = @ \/ log[i].seq \in gone]]
    BY <1>3 DEF Send
  <2> DEFINE sent == [i \in 1..Len(log) |-> log[i].sent \/ log[i].seq \in gone]
  <2> HIDE DEF gone
  <2>2. /\ sent \in [1..Len(log) -> BOOLEAN]
        /\ \A i \in 1..Len(log) : sent[i] <=> log[i].sent \/ log[i].seq \in gone
    BY <1>1, RowType
  <2>3. log' = SentAs(log, sent)
    BY <1>1, <2>1 DEF SentAs
  <2> HIDE DEF sent
  <2>4. Flags(log', log) /\ \A i \in 1..Len(log) : log'[i].sent = sent[i] /\ log'[i].held = log[i].held
    BY <1>1, <2>2, <2>3, SentShape
  <2>5. worker = [phase |-> worker.phase, poll |-> worker.poll, sent |-> worker.sent,
                 more |-> worker.more, verdict |-> worker.verdict,
                 mailboxes |-> worker.mailboxes, emails |-> worker.emails,
                 fresh |-> worker.fresh]
    BY DEF Types
  <2>6. worker'.phase = "out" /\ worker'.sent = gone
        /\ worker' = [worker EXCEPT !.phase = "out", !.sent = worker'.sent, !.more = worker'.more]
    BY <2>1, <2>5
  <2>7. ready \in Seq(Rows) /\ Picks(ready, log, {i \in 1..Len(log) : ~log[i].held})
    BY <1>1, ReadyPicks
  <2> HIDE DEF ready
  <2>8. named \in Seq(Rows) /\ Picks(named, ready, {i \in 1..Len(ready) : ready[i].id \in Firsts(ready)})
    BY <2>7, FirstEmailsPicks
  <2> HIDE DEF named
  <2>9. PICK p : /\ Lists(p, Len(ready), {i \in 1..Len(log) : ~log[i].held})
                 /\ ready = [i \in 1..Len(ready) |-> log[p[i]]]
    BY <2>7 DEF Picks
  <2>10. PICK q : /\ Lists(q, Len(named), {i \in 1..Len(ready) : ready[i].id \in Firsts(ready)})
                  /\ named = [i \in 1..Len(named) |-> ready[q[i]]]
    BY <2>8 DEF Picks
  <2>11. gone = {named[j].seq : j \in 1..Len(named)}
    BY <2>8 DEF gone, Seqs
  <2>12. ASSUME NEW i \in 1..Len(log), log[i].seq \in gone
         PROVE  ~log[i].held /\ log[i].id \in Firsts(ready)
    <3>1. PICK j \in 1..Len(named) : named[j].seq = log[i].seq
      BY <2>11, <2>12
    <3>2. q[j] \in 1..Len(ready) /\ ready[q[j]].id \in Firsts(ready) /\ named[j] = ready[q[j]]
      BY <2>10 DEF Lists
    <3>3. p[q[j]] \in 1..Len(log) /\ ~log[p[q[j]]].held /\ ready[q[j]] = log[p[q[j]]]
      BY <3>2, <2>9 DEF Lists
    <3>4. p[q[j]] = i
      BY <1>1, <3>1, <3>2, <3>3, RisingSame DEF Ordered
    <3> QED
      BY <3>2, <3>3, <3>4
  <2>13. ASSUME NEW i \in 1..Len(log), ~log[i].held, log[i].id \in Firsts(ready)
         PROVE  log[i].seq \in gone
    <3>1. PICK k \in 1..Len(ready) : p[k] = i
      BY <2>9, <2>13 DEF Lists
    <3>2. ready[k] = log[i]
      BY <3>1, <2>9
    <3>3. PICK j \in 1..Len(named) : q[j] = k
      BY <3>1, <3>2, <2>10, <2>13 DEF Lists
    <3>4. named[j] = log[i]
      BY <3>2, <3>3, <2>10
    <3> QED
      BY <3>4, <2>11
  <2>14. \A i \in 1..Len(log) :
           log[i].seq \in worker'.sent <=> ~log[i].held /\ log[i].id \in Firsts(ready)
    BY <2>6, <2>12, <2>13
  <2>15. \A i \in 1..Len(log) : log[i].seq \in worker'.sent => log'[i].sent
    BY <2>2, <2>4, <2>6
  <2> QED
    BY <2>4, <2>6, <2>14, <2>15
<1> QED
  BY <1>2, <1>3

\* Rows that are taken back: the others stay, and fit what the server said.
LEMMA TakenBackSays ==
    ASSUME Types, Ordered(log), Fitting, NEW leaving
    PROVE  /\ KeepsRows(TakenBack(leaving).log, Without(log, leaving))
           /\ TakenBack(leaving).header \in [Emails -> States]
           /\ \A e \in stored : Fits(said[e], RowsOf(TakenBack(leaving).log, e),
                                     TakenBack(leaving).header[e])
<1> DEFINE stays == Without(log, leaving)
           known == stored \cap {log[i].id : i \in {j \in DOMAIN log : log[j].seq \in leaving}}
           replay == [e \in known |-> Replayed(Unpatched(header[e], RowsOf(log, e)), RowsOf(stays, e))]
           after == [e \in Emails |-> IF e \in known THEN replay[e].state ELSE header[e]]
           fitted == [e \in known |-> replay[e].rows]
<1>1. TakenBack(leaving).log = Refitted(stays, fitted) /\ TakenBack(leaving).header = after
  BY DEF TakenBack
<1>2. log \in Seq(Rows) /\ stored \in SUBSET Emails /\ header \in [Emails -> States]
      /\ DOMAIN log = 1..Len(log)
  BY DEF Types
<1>3. stays \in Seq(Rows)
  BY <1>2, WithoutPicks
<1>4. Rising(stays)
  <2>1. KeepsRows(stays, stays)
    BY <1>3 DEF KeepsRows
  <2>2. PICK p : Stem(stays, log, leaving, p)
    <3> HIDE DEF known, replay, after, fitted
    <3> QED
      BY <1>2, <2>1, StemOfKept
  <2> HIDE DEF stays
  <2>3. Ordered(stays)
    BY <1>2, <2>2, StemOrdered
  <2> QED
    BY <2>3 DEF Ordered
<1>5. ASSUME NEW e \in known PROVE Replays(said[e], RowsOf(stays, e), replay[e])
  <2>1. e \in stored /\ said[e] \in States
    BY <1>2 DEF Types
  <2>2. Fits(said[e], RowsOf(log, e), header[e]) /\ RowsOf(log, e) \in Seq(Rows)
    BY <1>2, <2>1, RowsOfPicks DEF Fitting
  <2>3. Unpatched(header[e], RowsOf(log, e)) = said[e]
    BY <2>2, FitsUnpatched
  <2>4. RowsOf(stays, e) \in Seq(Rows)
    BY <1>3, RowsOfPicks
  <2>5. replay[e] = Replayed(said[e], RowsOf(stays, e))
    BY <2>3
  <2> HIDE DEF stays, replay
  <2> QED
    BY <2>1, <2>4, <2>5, ReplayedSays
<1>6. \A e \in Emails \ known : after[e] = header[e]
  OBVIOUS
<1>7. \A e \in known : after[e] = replay[e].state
  BY <1>2
<1>8. \A e \in known : fitted[e] = replay[e].rows
  OBVIOUS
<1>9. DOMAIN fitted = known /\ after = [e \in Emails |-> after[e]]
  OBVIOUS
<1>10. ASSUME NEW e \in stored, e \notin known PROVE RowsOf(stays, e) = RowsOf(log, e)
  <2>1. \A i \in Of(log, e) : log[i].seq \notin leaving
    BY <1>2, <1>10 DEF Of
  <2> HIDE DEF known
  <2> QED
    BY <1>2, <2>1, RowsOfStaying
<1>11. known \in SUBSET stored
  OBVIOUS
<1> HIDE DEF stays, known, replay, after, fitted
<1>12. \A e \in DOMAIN fitted : KeepsRows(fitted[e], RowsOf(stays, e))
  BY <1>5, <1>8, <1>9 DEF Replays
<1>13. /\ KeepsRows(Refitted(stays, fitted), stays)
       /\ \A e : RowsOf(Refitted(stays, fitted), e) =
                   IF e \in DOMAIN fitted THEN fitted[e] ELSE RowsOf(stays, e)
  BY <1>3, <1>4, <1>12, RefittedSays
<1>14. after \in [Emails -> States]
  <2>1. \A e \in Emails : after[e] \in States
    BY <1>2, <1>5, <1>6, <1>7 DEF Replays
  <2> QED
    BY <1>9, <2>1
<1>15. ASSUME NEW e \in stored PROVE Fits(said[e], RowsOf(TakenBack(leaving).log, e), after[e])
  <2>1. CASE e \in known
    BY <2>1, <1>1, <1>5, <1>7, <1>8, <1>9, <1>13 DEF Replays
  <2>2. CASE e \notin known
    <3>1. after[e] = header[e]
      BY <1>2, <1>6, <2>2
    <3>2. RowsOf(TakenBack(leaving).log, e) = RowsOf(log, e)
      BY <1>1, <1>9, <1>10, <1>13, <2>2
    <3> QED
      BY <3>1, <3>2 DEF Fitting
  <2> QED
    BY <2>1, <2>2
<1> QED
  BY <1>1, <1>13, <1>14, <1>15 DEF stays

\* States that land: the rows of their emails fit from them.
LEMMA RelaidSays ==
    ASSUME Types, Ordered(log), NEW states, DOMAIN states \subseteq Emails,
           \A e \in DOMAIN states : states[e] \in States
    PROVE  /\ KeepsRows(Relaid(states).log, log)
           /\ Relaid(states).header \in [Emails -> States]
           /\ \A e \in DOMAIN states : Fits(states[e], RowsOf(Relaid(states).log, e),
                                            Relaid(states).header[e])
           /\ \A e \in Emails \ DOMAIN states :
                /\ RowsOf(Relaid(states).log, e) = RowsOf(log, e)
                /\ Relaid(states).header[e] = header[e]
<1> DEFINE D == DOMAIN states
           replay == [e \in D |-> Replayed(states[e], RowsOf(log, e))]
           after == [e \in Emails |-> IF e \in D THEN replay[e].state ELSE header[e]]
           fitted == [e \in D |-> replay[e].rows]
<1>1. Relaid(states).log = Refitted(log, fitted) /\ Relaid(states).header = after
  BY DEF Relaid
<1>2. log \in Seq(Rows) /\ header \in [Emails -> States] /\ Rising(log)
  BY DEF Types, Ordered
<1>3. ASSUME NEW e \in D PROVE Replays(states[e], RowsOf(log, e), replay[e])
  <2>1. RowsOf(log, e) \in Seq(Rows) /\ states[e] \in States
    BY <1>2, RowsOfPicks
  <2>2. replay[e] = Replayed(states[e], RowsOf(log, e))
    OBVIOUS
  <2> HIDE DEF replay
  <2> QED
    BY <2>1, <2>2, ReplayedSays
<1>4. \A e \in Emails \ D : after[e] = header[e]
  OBVIOUS
<1>5. \A e \in D : after[e] = replay[e].state
  OBVIOUS
<1>6. \A e \in D : fitted[e] = replay[e].rows
  OBVIOUS
<1>7. DOMAIN fitted = D /\ after = [e \in Emails |-> after[e]]
  OBVIOUS
<1> HIDE DEF D, replay, after, fitted
<1>8. \A e \in DOMAIN fitted : KeepsRows(fitted[e], RowsOf(log, e))
  BY <1>3, <1>6, <1>7 DEF Replays
<1>9. /\ KeepsRows(Refitted(log, fitted), log)
      /\ \A e : RowsOf(Refitted(log, fitted), e) =
                  IF e \in DOMAIN fitted THEN fitted[e] ELSE RowsOf(log, e)
  BY <1>2, <1>8, RefittedSays
<1>10. after \in [Emails -> States]
  <2>1. \A e \in Emails : after[e] \in States
    BY <1>2, <1>3, <1>4, <1>5 DEF Replays
  <2> QED
    BY <1>7, <2>1
<1>11. \A e \in D : Fits(states[e], RowsOf(Relaid(states).log, e), Relaid(states).header[e])
  BY <1>1, <1>3, <1>5, <1>6, <1>7, <1>9 DEF Replays
<1>12. \A e \in Emails \ D : /\ RowsOf(Relaid(states).log, e) = RowsOf(log, e)
                             /\ Relaid(states).header[e] = header[e]
  BY <1>1, <1>4, <1>7, <1>9
<1> QED
  BY <1>1, <1>9, <1>10, <1>11, <1>12 DEF D

\* The rows that leave, as they are numbered.
Leaves(L, S) == \A i \in 1..Len(log) : log[i].seq \in L <=> i \in S

\* The rows that leave are those at the positions their numbers come from.
LEMMA LeavesBy ==
    ASSUME log \in Seq(Rows), Ordered(log), NEW S \in SUBSET (1..Len(log)),
           NEW L, L = {log[i].seq : i \in S}
    PROVE  Leaves(L, S)
BY RisingSame DEF Leaves, Ordered

\* dropCanceled: the emails whose rows add up to nothing lose them all.
Canceled == {e \in Ids(log) : Cancels(RowsOf(log, e))}

\* dropCanceled: every row of a canceled email leaves, and no other.
LEMMA CancelShape ==
    ASSUME Types, Ordered(log), Cancel
    PROVE  \E L : /\ log' = Without(log, L) /\ KeepsRows(log', Without(log, L))
                  /\ Leaves(L, {i \in 1..Len(log) : log[i].id \in Canceled})
<1> DEFINE S == {i \in 1..Len(log) : log[i].id \in Canceled}
           L == {log[i].seq : i \in {j \in DOMAIN log : log[j].id \in Canceled}}
<1>1. log' = Without(log, L)
  BY DEF Cancel, Canceled
<1>2. log \in Seq(Rows) /\ DOMAIN log = 1..Len(log)
  BY DEF Types
<1>3. L = {log[i].seq : i \in S} /\ S \in SUBSET (1..Len(log))
  BY <1>2
<1>4. Without(log, L) \in Seq(Rows)
  BY <1>2, WithoutPicks
<1> HIDE DEF L, S
<1>5. Leaves(L, S)
  BY <1>2, <1>3, LeavesBy
<1>6. KeepsRows(log', Without(log, L))
  BY <1>1, <1>4 DEF KeepsRows
<1> QED
  BY <1>1, <1>5, <1>6 DEF S

\* settle, second write.
LEMMA SettleShape ==
    ASSUME Types, Ordered(log), Settle
    PROVE  \E L : /\ log' = Without(log, L) /\ KeepsRows(log', Without(log, L))
                  /\ Leaves(L, {i \in 1..Len(log) : \/ Out(log[i]) /\ log[i].id \in With("took")
                                                    \/ log[i].id \in With("gone")})
<1> DEFINE S == {i \in 1..Len(log) : \/ Out(log[i]) /\ log[i].id \in With("took")
                                     \/ log[i].id \in With("gone")}
           L == SentOf(With("took")) \cup {log[i].seq : i \in {j \in DOMAIN log : log[j].id \in With("gone")}}
<1>1. log' = Without(log, L)
  BY DEF Settle
<1>2. log \in Seq(Rows) /\ DOMAIN log = 1..Len(log)
  BY DEF Types
<1>3. L = {log[i].seq : i \in S} /\ S \in SUBSET (1..Len(log))
  BY <1>2 DEF SentOf
<1>4. Without(log, L) \in Seq(Rows)
  BY <1>2, WithoutPicks
<1> HIDE DEF L, S
<1>5. Leaves(L, S)
  BY <1>2, <1>3, LeavesBy
<1>6. KeepsRows(log', Without(log, L))
  BY <1>1, <1>4 DEF KeepsRows
<1> QED
  BY <1>1, <1>5, <1>6 DEF S

\* settle, first write.
LEMMA RefuseShape ==
    ASSUME Types, Ordered(log), Fitting, Refuse
    PROVE  \E L : /\ KeepsRows(log', Without(log, L)) /\ header' \in [Emails -> States]
                  /\ \A e \in stored : Fits(said[e], RowsOf(log', e), header'[e])
                  /\ Leaves(L, {i \in 1..Len(log) : Out(log[i]) /\ log[i].id \in With("refused")})
<1> DEFINE S == {i \in 1..Len(log) : Out(log[i]) /\ log[i].id \in With("refused")}
           L == SentOf(With("refused"))
<1>1. log' = TakenBack(L).log /\ header' = TakenBack(L).header
  BY DEF Refuse
<1>2. log \in Seq(Rows) /\ DOMAIN log = 1..Len(log)
  BY DEF Types
<1>3. L = {log[i].seq : i \in S} /\ S \in SUBSET (1..Len(log))
  BY <1>2 DEF SentOf
<1> HIDE DEF L, S
<1>4. Leaves(L, S)
  BY <1>2, <1>3, LeavesBy
<1>5. /\ KeepsRows(TakenBack(L).log, Without(log, L))
      /\ TakenBack(L).header \in [Emails -> States]
      /\ \A e \in stored : Fits(said[e], RowsOf(TakenBack(L).log, e), TakenBack(L).header[e])
  BY TakenBackSays
<1> QED
  BY <1>1, <1>4, <1>5 DEF S

\* The undo of a delete forever.
Drops(t, x, L) ==
    /\ t \in Tabs /\ x \in toasts[t]
    /\ toasts' = [toasts EXCEPT ![t] = @ \ {x}]
    /\ KeepsRows(log', Without(log, L)) /\ header' \in [Emails -> States]
    /\ \A e \in stored : Fits(said[e], RowsOf(log', e), header'[e])
    /\ Leaves(L, {i \in 1..Len(log) : log[i].seq = x.seq /\ log[i].held})

\* An undo takes back the held row of its toast, and no other.
LEMMA DropShape ==
    ASSUME Types, Ordered(log), Fitting, Drop
    PROVE  \E t, x, L : Drops(t, x, L)
<1>1. PICK t \in Tabs : \E x \in toasts[t] :
        LET held == {i \in DOMAIN log : log[i].seq = x.seq /\ log[i].held}
            back == TakenBack({log[i].seq : i \in held})
        IN /\ log' = back.log /\ header' = back.header
           /\ toasts' = [toasts EXCEPT ![t] = @ \ {x}]
  BY DEF Drop
<1>2. PICK x \in toasts[t] :
        LET held == {i \in DOMAIN log : log[i].seq = x.seq /\ log[i].held}
            back == TakenBack({log[i].seq : i \in held})
        IN /\ log' = back.log /\ header' = back.header
           /\ toasts' = [toasts EXCEPT ![t] = @ \ {x}]
  BY <1>1
<1> DEFINE S == {i \in DOMAIN log : log[i].seq = x.seq /\ log[i].held}
           L == {log[i].seq : i \in S}
<1>3. log' = TakenBack(L).log /\ header' = TakenBack(L).header
  BY <1>2
<1>4. log \in Seq(Rows) /\ DOMAIN log = 1..Len(log)
  BY DEF Types
<1>5. S \in SUBSET (1..Len(log)) /\ L = {log[i].seq : i \in S}
  BY <1>4
<1>6. S = {i \in 1..Len(log) : log[i].seq = x.seq /\ log[i].held}
  BY <1>4
<1> HIDE DEF L, S
<1>7. Leaves(L, S)
  BY <1>4, <1>5, LeavesBy
<1>8. /\ KeepsRows(TakenBack(L).log, Without(log, L))
      /\ TakenBack(L).header \in [Emails -> States]
      /\ \A e \in stored : Fits(said[e], RowsOf(TakenBack(L).log, e), TakenBack(L).header[e])
  BY TakenBackSays
<1>9. Drops(t, x, L)
  BY <1>2, <1>3, <1>6, <1>7, <1>8 DEF Drops
<1> QED
  BY <1>9

\* A round lands.
Landed == {e \in DOMAIN worker.emails \cap stored : worker.emails[e] # Gone}

\* A landing relays the headers and the rows of the emails that land.
LEMMA LandShape ==
    ASSUME Types, Ordered(log), Land
    PROVE  /\ KeepsRows(log', log) /\ header' \in [Emails -> States]
           /\ worker.phase = "land" /\ Landed \subseteq Emails
           /\ \A e \in Landed : /\ Fits(worker.emails[e], RowsOf(log', e), header'[e])
                                /\ said'[e] = worker.emails[e]
                                /\ unseen'[e] = IF worker.emails[e] = server[e] THEN {} ELSE unseen[e]
           /\ \A e \in Emails \ Landed : /\ RowsOf(log', e) = RowsOf(log, e)
                                         /\ header'[e] = header[e] /\ said'[e] = said[e]
                                         /\ unseen'[e] = unseen[e]
           /\ said' \in [Emails -> States] /\ unseen' \in [Emails -> States]
           /\ stored' = stored \ {e \in DOMAIN worker.emails : worker.emails[e] = Gone}
<1> DEFINE landed == (DOMAIN worker.emails \ {e \in DOMAIN worker.emails : worker.emails[e] = Gone}) \cap stored
           states == [e \in landed |-> worker.emails[e]]
<1>1. /\ worker.phase = "land"
      /\ header' = Relaid(states).header /\ log' = Relaid(states).log
      /\ said' = [e \in Emails |-> IF e \in landed THEN worker.emails[e] ELSE said[e]]
      /\ unseen' = [e \in Emails |-> IF e \in landed /\ worker.emails[e] = server[e]
                                     THEN {} ELSE unseen[e]]
      /\ stored' = stored \ {e \in DOMAIN worker.emails : worker.emails[e] = Gone}
  BY DEF Land
<1>2. landed = Landed
  BY DEF Landed
<1>3. /\ Landed \subseteq Emails
      /\ \A e \in Landed : worker.emails[e] \in States
  BY <1>1 DEF Types, Landed
<1>4. DOMAIN states = Landed /\ \A e \in Landed : states[e] = worker.emails[e]
  BY <1>2
<1> HIDE DEF landed, states
<1>5. /\ KeepsRows(Relaid(states).log, log)
      /\ Relaid(states).header \in [Emails -> States]
      /\ \A e \in DOMAIN states : Fits(states[e], RowsOf(Relaid(states).log, e),
                                       Relaid(states).header[e])
      /\ \A e \in Emails \ DOMAIN states :
           /\ RowsOf(Relaid(states).log, e) = RowsOf(log, e)
           /\ Relaid(states).header[e] = header[e]
  BY <1>3, <1>4, RelaidSays
<1>6. said \in [Emails -> States] /\ unseen \in [Emails -> States] /\ {} \in States
  BY DEF Types, States
<1>7. said' \in [Emails -> States] /\ unseen' \in [Emails -> States]
  BY <1>1, <1>2, <1>3, <1>6
<1>8. /\ \A e \in Landed : /\ said'[e] = worker.emails[e]
                           /\ unseen'[e] = IF worker.emails[e] = server[e] THEN {} ELSE unseen[e]
      /\ \A e \in Emails \ Landed : said'[e] = said[e] /\ unseen'[e] = unseen[e]
  BY <1>1, <1>2, <1>3
<1> QED
  BY <1>1, <1>3, <1>4, <1>5, <1>7, <1>8

\* An email fetched.
Fetches(e) ==
    /\ e \in Emails /\ server[e] # Gone
    /\ KeepsRows(log', log) /\ header' \in [Emails -> States]
    /\ Fits(server[e], RowsOf(log', e), header'[e])
    /\ \A x \in Emails \ {e} : RowsOf(log', x) = RowsOf(log, x) /\ header'[x] = header[x]
    /\ stored' = stored \cup {e} /\ said' = [said EXCEPT ![e] = server[e]]
    /\ unseen' = [unseen EXCEPT ![e] = {}]

\* A fetch relays the header and the rows of one email.
LEMMA FetchShape ==
    ASSUME Types, Ordered(log), Fetch
    PROVE  \E e : Fetches(e)
<1>1. PICK e \in Emails :
         /\ server[e] # Gone
         /\ LET laid == Relaid([x \in {e} |-> server[e]])
            IN header' = laid.header /\ log' = laid.log
         /\ stored' = stored \cup {e}
         /\ said' = [said EXCEPT ![e] = server[e]]
         /\ unseen' = [unseen EXCEPT ![e] = {}]
  BY DEF Fetch
<1> DEFINE states == [x \in {e} |-> server[e]]
<1>2. DOMAIN states = {e} /\ states[e] = server[e] /\ server[e] \in States
  BY DEF Types
<1>3. header' = Relaid(states).header /\ log' = Relaid(states).log
  BY <1>1
<1> HIDE DEF states
<1>4. /\ KeepsRows(Relaid(states).log, log)
      /\ Relaid(states).header \in [Emails -> States]
      /\ \A x \in DOMAIN states : Fits(states[x], RowsOf(Relaid(states).log, x),
                                       Relaid(states).header[x])
      /\ \A x \in Emails \ DOMAIN states :
           /\ RowsOf(Relaid(states).log, x) = RowsOf(log, x)
           /\ Relaid(states).header[x] = header[x]
  BY <1>2, RelaidSays
<1>5. Fetches(e)
  BY <1>1, <1>2, <1>3, <1>4 DEF Fetches
<1> QED
  BY <1>5

\* What is owed but for the paths of a patch.
LEMMA DisowedSays ==
    ASSUME owed \in [Emails -> Patches], NEW e \in Emails, NEW q
    PROVE  /\ Disowed(e, q) \in Patches
           /\ DOMAIN Disowed(e, q) = DOMAIN owed[e] \ DOMAIN q
           /\ \A m \in DOMAIN owed[e] \ DOMAIN q : Disowed(e, q)[m] = owed[e][m]
<1>1. owed[e] \in Patches
  OBVIOUS
<1>2. DOMAIN owed[e] \ DOMAIN q \in SUBSET Members
  BY <1>1, PatchType
<1>3. Disowed(e, q) \in [DOMAIN owed[e] \ DOMAIN q -> BOOLEAN]
  BY <1>1, PatchType DEF Disowed
<1>4. Disowed(e, q) \in Patches
  BY <1>2, <1>3, PatchIntro
<1> QED
  BY <1>4 DEF Disowed

\* What a user can do is a patch.
LEMMA UserPatchesType == UserPatches \subseteq Patches
<1>1. ASSUME NEW v \in BOOLEAN PROVE [m \in {SEEN} |-> v] \in Patches
  <2>1. {SEEN} \in SUBSET Members /\ [m \in {SEEN} |-> v] \in [{SEEN} -> BOOLEAN]
    BY DEF Members
  <2> QED
    BY <2>1, PatchIntro
<1>2. ASSUME NEW a \in Mailboxes, NEW b \in Mailboxes PROVE [m \in {a, b} |-> m = b] \in Patches
  <2>1. {a, b} \in SUBSET Members /\ [m \in {a, b} |-> m = b] \in [{a, b} -> BOOLEAN]
    BY DEF Members
  <2> QED
    BY <2>1, PatchIntro
<1>3. ASSUME NEW q \in UserPatches PROVE q \in Patches
  <2> HIDE DEF Patches
  <2>1. CASE \E v \in BOOLEAN : q = [m \in {SEEN} |-> v]
    BY <2>1, <1>1
  <2>2. CASE \E p \in Mailboxes \X Mailboxes : q = [m \in {p[1], p[2]} |-> m = p[2]]
    <3>1. PICK p \in Mailboxes \X Mailboxes : q = [m \in {p[1], p[2]} |-> m = p[2]]
      BY <2>2
    <3>2. p[1] \in Mailboxes /\ p[2] \in Mailboxes
      OBVIOUS
    <3> QED
      BY <3>1, <3>2, <1>2
  <2> QED
    BY <2>1, <2>2 DEF UserPatches
<1> QED
  BY <1>3

\* A change by the user.
Changes(e, patch, row) ==
    /\ e \in Emails /\ patch \in Patches /\ e \in stored
    /\ row.id = e /\ row.patch = patch /\ row.inverse = InverseOf(header[e], patch)
    /\ row.destroy = FALSE /\ row.held = FALSE
    /\ \E t \in Tabs : Logs(row, e, patch, FALSE, t)
    /\ header' = [header EXCEPT ![e] = Patched(@, patch)]
    /\ owed' = [owed EXCEPT ![e] = Over(@, [m \in DOMAIN patch \ unseen[e] |-> patch[m]])]
    /\ worker = Idle
    /\ UNCHANGED <<server, stored, worker, said, unseen, toasts>>

\* A change logs its row, sets the header and owes its paths.
LEMMA ChangeShape ==
    ASSUME Types, Ordered(log), Change
    PROVE  \E e, patch, row : Changes(e, patch, row)
<1>1. PICK e \in Emails, patch \in UserPatches, t \in Tabs :
         /\ Log(e, patch, FALSE, t)
         /\ owed' = [owed EXCEPT ![e] = Over(@, [m \in DOMAIN patch \ unseen[e] |-> patch[m]])]
         /\ UNCHANGED toasts
  BY DEF Change
<1>2. patch \in Patches
  BY UserPatchesType
<1>3. PICK row : Logs(row, e, patch, FALSE, t)
  BY <1>1, <1>2, LogShape
<1>4. row.id = e /\ row.patch = patch /\ row.inverse = InverseOf(header[e], patch)
      /\ row.destroy = FALSE /\ row.held = FALSE
  BY <1>3 DEF Logs
<1>5. /\ header' = [header EXCEPT ![e] = Patched(@, patch)] /\ worker = Idle /\ e \in stored
      /\ UNCHANGED <<server, stored, worker, said, unseen>>
  BY <1>1 DEF Log
<1>6. Changes(e, patch, row)
  BY <1>1, <1>2, <1>3, <1>4, <1>5 DEF Changes
<1> QED
  BY <1>6

\* A delete forever.
Destroys(e, patch, t, row) ==
    /\ e \in Emails /\ patch \in Patches /\ e \in stored /\ t \in Tabs
    /\ row.id = e /\ row.patch = patch /\ row.inverse = InverseOf(header[e], patch)
    /\ row.destroy = TRUE /\ row.held = TRUE /\ row.lease = t
    /\ Logs(row, e, patch, TRUE, t)
    /\ header' = [header EXCEPT ![e] = Patched(@, patch)]
    /\ toasts' = [toasts EXCEPT ![t] = @ \cup {[seq |-> row.seq, id |-> e]}]
    /\ worker = Idle
    /\ UNCHANGED <<server, stored, worker, said, unseen, owed>>

\* A destroy logs its row, held, and opens its toast.
LEMMA DestroyShape ==
    ASSUME Types, Ordered(log), Destroy
    PROVE  \E e, patch, t, row : Destroys(e, patch, t, row)
<1>1. PICK e \in Emails, t \in Tabs :
         /\ Log(e, Emptied(header[e]), TRUE, t)
         /\ toasts' = [toasts EXCEPT ![t] = @ \cup {[seq |-> log'[Len(log')].seq, id |-> e]}]
         /\ UNCHANGED owed
  BY DEF Destroy
<1> DEFINE patch == Emptied(header[e])
<1>2. patch \in Patches
  BY EmptiedType DEF Types
<1> HIDE DEF patch
<1>3. PICK row : Logs(row, e, patch, TRUE, t)
  BY <1>1, <1>2, LogShape DEF patch
<1>4. row.id = e /\ row.patch = patch /\ row.inverse = InverseOf(header[e], patch)
      /\ row.destroy = TRUE /\ row.held = TRUE /\ row.lease = t
  BY <1>3 DEF Logs
<1>5. /\ header' = [header EXCEPT ![e] = Patched(@, patch)] /\ worker = Idle /\ e \in stored
      /\ UNCHANGED <<server, stored, worker, said, unseen>>
  BY <1>1 DEF Log, patch
<1>6. log'[Len(log')] = row
  <2>1. log' = Append(log, row) /\ row \in Rows /\ log \in Seq(Rows)
    BY <1>3 DEF Logs, Types
  <2> QED
    BY <2>1
<1>7. Destroys(e, patch, t, row)
  BY <1>1, <1>2, <1>3, <1>4, <1>5, <1>6 DEF Destroys
<1> QED
  BY <1>7

\* A write of another client.
Meddles(e, patch) ==
    /\ e \in Emails /\ patch \in Patches /\ server[e] # Gone
    /\ server' \in [Emails -> States] /\ owed' \in [Emails -> Patches]
    /\ unseen' \in [Emails -> States]
    /\ server'[e] = Gone \/ server'[e] = Patched(server[e], patch)
    /\ server'[e] # Gone => owed'[e] = Disowed(e, patch)
    /\ unseen'[e] = unseen[e] \cup DOMAIN patch
    /\ \A x \in Emails \ {e} : server'[x] = server[x] /\ owed'[x] = owed[x] /\ unseen'[x] = unseen[x]
    /\ worker' = [worker EXCEPT !.fresh = worker'.fresh]
    /\ UNCHANGED <<stored, header, log, toasts, said>>

\* Another client writes one email, or destroys it.
LEMMA MeddleShape ==
    ASSUME Types, Meddle
    PROVE  \E e, patch : Meddles(e, patch)
<1> DEFINE Writes(e, patch) ==
         /\ server[e] # Gone
         /\ LET new == Patched(server[e], patch)
            IN /\ new # server[e]
               /\ patch = Emptied(server[e]) => OthersDestroy
               /\ server' = [server EXCEPT ![e] = IF new \cap Mailboxes = {} THEN Gone ELSE new]
               /\ owed' = [owed EXCEPT ![e] = IF server'[e] = Gone THEN NoPatch
                                              ELSE Disowed(e, patch)]
               /\ unseen' = [unseen EXCEPT ![e] = @ \cup DOMAIN patch]
<1>0. PICK e \in Emails : \E patch \in UserPatches \cup {Emptied(server[e])} : Writes(e, patch)
  BY DEF Meddle
<1>1. PICK patch \in UserPatches \cup {Emptied(server[e])} : Writes(e, patch)
  BY <1>0
<1>2. /\ server \in [Emails -> States] /\ owed \in [Emails -> Patches]
      /\ unseen \in [Emails -> States]
  BY DEF Types
<1>3. patch \in Patches
  BY <1>2, UserPatchesType, EmptiedType
<1>4. /\ Patched(server[e], patch) \in States /\ Gone \in States
  BY DEF Patched, States, Gone
<1>5. Disowed(e, patch) \in Patches /\ NoPatch \in Patches
  BY <1>2, DisowedSays, NoPatchSays
<1>6. unseen[e] \cup DOMAIN patch \in States
  BY <1>2, <1>3, PatchType DEF States
<1>7. worker' = [worker EXCEPT !.fresh = worker'.fresh]
  <2>1. worker' = [worker EXCEPT !.fresh = @ \ Touched(server, server')]
    BY DEF Meddle
  <2>2. worker = [phase |-> worker.phase, poll |-> worker.poll, sent |-> worker.sent,
                 more |-> worker.more, verdict |-> worker.verdict,
                 mailboxes |-> worker.mailboxes, emails |-> worker.emails,
                 fresh |-> worker.fresh]
    BY DEF Types
  <2> QED
    BY <2>1, <2>2
<1>8. UNCHANGED <<stored, header, log, toasts, said>>
  BY DEF Meddle
<1> DEFINE new == Patched(server[e], patch)
<1> HIDE DEF Patches
<1>9. /\ server' = [server EXCEPT ![e] = IF new \cap Mailboxes = {} THEN Gone ELSE new]
      /\ owed' = [owed EXCEPT ![e] = IF server'[e] = Gone THEN NoPatch ELSE Disowed(e, patch)]
      /\ unseen' = [unseen EXCEPT ![e] = @ \cup DOMAIN patch]
  BY <1>1
<1> HIDE DEF new
<1>10. server' \in [Emails -> States] /\ owed' \in [Emails -> Patches] /\ unseen' \in [Emails -> States]
  BY <1>2, <1>4, <1>5, <1>6, <1>9 DEF new
<1>11. /\ server'[e] = Gone \/ server'[e] = new
       /\ server'[e] # Gone => owed'[e] = Disowed(e, patch)
       /\ unseen'[e] = unseen[e] \cup DOMAIN patch
       /\ \A x \in Emails \ {e} : server'[x] = server[x] /\ owed'[x] = owed[x] /\ unseen'[x] = unseen[x]
  BY <1>2, <1>9
<1>12. Meddles(e, patch)
  BY <1>1, <1>3, <1>7, <1>8, <1>10, <1>11 DEF Meddles, new
<1> QED
  BY <1>12

\* The server takes some of the emails that are out.
Serves(taken) ==
    /\ worker.phase = "out"
    /\ taken \subseteq SentIds /\ \A e \in taken : server[e] # Gone
    /\ server' \in [Emails -> States] /\ owed' \in [Emails -> Patches]
    /\ \A e \in Emails :
         /\ e \notin taken => server'[e] = server[e] /\ owed'[e] = owed[e]
         /\ e \in taken /\ Destroying(e) => server'[e] = Gone
         /\ e \in taken /\ ~Destroying(e) =>
              server'[e] = Patched(server[e], Merged(Sent(e)))
                /\ owed'[e] = Disowed(e, Merged(Sent(e)))
    /\ worker' = [worker EXCEPT !.phase = "answered", !.verdict = worker'.verdict]
    /\ \A e \in With("took")' : e \in taken /\ ~Destroying(e)
    /\ \A e \in With("gone")' : Destroying(e) /\ server'[e] = Gone
    /\ With("refused")' \subseteq SentIds
    /\ UNCHANGED <<stored, header, log, toasts, said, unseen>>

\* The emails that are out, by the rows of the log.
LEMMA SentIdsType ==
    ASSUME log \in Seq(Rows)
    PROVE  SentIds \subseteq Emails /\ SentIds = {log[i].id : i \in {j \in 1..Len(log) : Out(log[j])}}
<1>1. DOMAIN log = 1..Len(log)
  OBVIOUS
<1>2. \A i \in 1..Len(log) : log[i].id \in Emails
  BY RowType
<1> QED
  BY <1>1, <1>2 DEF SentIds

\* The server takes some of the emails that are out and answers for each.
LEMMA ServeShape ==
    ASSUME Types, Serve
    PROVE  \E taken : Serves(taken)
<1> DEFINE Written(e) == IF Destroying(e) THEN Gone ELSE Patched(server[e], Merged(Sent(e)))
           Word(choice, e) == IF choice[e] = "waits" THEN "waits"
                        ELSE IF server[e] = Gone THEN IF Destroying(e) THEN "gone" ELSE "refused"
                        ELSE IF choice[e] = "took" /\ Destroying(e) THEN "gone" ELSE choice[e]
           Taken(choice) == {e \in SentIds : choice[e] = "took" /\ server[e] # Gone}
<1>1. PICK choice \in [SentIds -> {"took", "refused", "waits"}] :
        /\ server' = [e \in Emails |-> IF e \in Taken(choice) THEN Written(e) ELSE server[e]]
        /\ owed' = [e \in Emails |-> IF e \notin Taken(choice) THEN owed[e]
                                     ELSE IF Destroying(e) THEN NoPatch
                                     ELSE Disowed(e, Merged(Sent(e)))]
        /\ worker' = [worker EXCEPT !.phase = "answered",
                                    !.verdict = [e \in SentIds |-> Word(choice, e)]]
  BY DEF Serve
<1> DEFINE taken == Taken(choice)
           verdict == [e \in SentIds |-> Word(choice, e)]
<1>2. /\ server \in [Emails -> States] /\ owed \in [Emails -> Patches] /\ log \in Seq(Rows)
      /\ worker = [phase |-> worker.phase, poll |-> worker.poll, sent |-> worker.sent,
                 more |-> worker.more, verdict |-> worker.verdict,
                 mailboxes |-> worker.mailboxes, emails |-> worker.emails,
                 fresh |-> worker.fresh]
  BY DEF Types
<1>3. SentIds \subseteq Emails
  BY <1>2, SentIdsType
<1>4. taken \subseteq SentIds /\ \A e \in taken : server[e] # Gone
  OBVIOUS
<1>5. worker' = [worker EXCEPT !.phase = "answered", !.verdict = worker'.verdict]
      /\ worker'.verdict = verdict
  <2> HIDE DEF verdict
  <2>1. worker' = [worker EXCEPT !.phase = "answered", !.verdict = verdict]
    BY <1>1 DEF verdict
  <2> QED
    BY <2>1, <1>2
<1>6. \A e \in Emails :
         /\ Written(e) \in States /\ Disowed(e, Merged(Sent(e))) \in Patches
  BY <1>2, DisowedSays DEF Patched, States, Gone
<1>7. NoPatch \in Patches
  BY NoPatchSays
<1>8. server' \in [Emails -> States] /\ owed' \in [Emails -> Patches]
  <2> HIDE DEF Written, Taken, Patches
  <2> QED
    BY <1>1, <1>2, <1>6, <1>7
<1>9. \A e \in Emails :
         /\ e \notin taken => server'[e] = server[e] /\ owed'[e] = owed[e]
         /\ e \in taken => server'[e] = Written(e)
         /\ e \in taken /\ ~Destroying(e) => owed'[e] = Disowed(e, Merged(Sent(e)))
  <2> HIDE DEF Written, Taken
  <2> QED
    BY <1>1
<1>10. \A e \in With("took")' : e \in taken /\ ~Destroying(e)
  <2>1. ASSUME NEW e \in SentIds, verdict[e] = "took" PROVE e \in taken /\ ~Destroying(e)
    BY <2>1
  <2> HIDE DEF verdict, taken
  <2> QED
    BY <1>5, <2>1 DEF With, verdict
<1>11. \A e \in With("gone")' : Destroying(e) /\ server'[e] = Gone
  <2>1. ASSUME NEW e \in SentIds, verdict[e] = "gone" PROVE Destroying(e) /\ server'[e] = Gone
    <3>1. choice[e] \in {"took", "refused", "waits"}
      OBVIOUS
    <3>2. Destroying(e) /\ (server[e] = Gone \/ e \in taken)
      BY <2>1, <3>1
    <3> QED
      BY <3>2, <1>3, <1>9
  <2> HIDE DEF verdict, taken
  <2> QED
    BY <1>5, <2>1 DEF With, verdict
<1>12. With("refused")' \subseteq SentIds
  BY <1>5 DEF With
<1>13. UNCHANGED <<stored, header, log, toasts, said, unseen>> /\ worker.phase = "out"
  BY DEF Serve
<1>14. \A e \in Emails :
         /\ e \notin taken => server'[e] = server[e] /\ owed'[e] = owed[e]
         /\ e \in taken /\ Destroying(e) => server'[e] = Gone
         /\ e \in taken /\ ~Destroying(e) =>
              server'[e] = Patched(server[e], Merged(Sent(e)))
                /\ owed'[e] = Disowed(e, Merged(Sent(e)))
  <2> HIDE DEF taken
  <2> QED
    BY <1>9
<1> HIDE DEF taken, verdict
<1>15. Serves(taken)
  BY <1>4, <1>5, <1>8, <1>10, <1>11, <1>12, <1>13, <1>14 DEF Serves
<1> QED
  BY <1>15

-----------------------------------------------------------------------------
(* The invariant is kept: types and order *)

\* The steps that neither log a row nor let one go.
Quiet ==
    \/ Release \/ LeaseLost \/ Meddle \/ Serve \/ Flush \/ Send \/ AskMailboxes \/ AskEmails
    \/ Land \/ NoAnswer \/ Fetch \/ Crash \/ UNCHANGED vars

\* The steps that let rows go.
Lossy == Cancel \/ Drop \/ Refuse \/ Settle

\* Every step is of one of four kinds.
LEMMA FourKinds ==
    ASSUME [Next]_vars
    PROVE  Change \/ Destroy \/ Quiet \/ Lossy
BY DEF Next, User, Worker, Quiet, Lossy

\* A quiet step leaves every row in the log.
LEMMA QuietStem ==
    ASSUME Types, Ordered(log), Quiet
    PROVE  \E p : Stem(log', log, {}, p)
<1>1. log \in Seq(Rows)
  BY DEF Types
<1>2. CASE log' = log
  <2>1. KeepsRows(log', log)
    BY <1>1, <1>2 DEF KeepsRows
  <2> QED
    BY <1>1, <2>1, StemOfRefit
<1>3. CASE Release
  BY <1>1, <1>3, ReleaseShape, StemOfFlags DEF Releases
<1>4. CASE Flush
  BY <1>1, <1>4, FlushShape, StemOfFlags
<1>5. CASE Send
  BY <1>1, <1>5, SendShape, StemOfFlags
<1>6. CASE Land
  BY <1>1, <1>6, LandShape, StemOfRefit
<1>7. CASE Fetch
  BY <1>1, <1>7, FetchShape, StemOfRefit DEF Fetches
<1>8. CASE LeaseLost \/ Meddle \/ Serve \/ AskMailboxes \/ AskEmails \/ NoAnswer \/ Crash \/ UNCHANGED vars
  BY <1>2, <1>8 DEF LeaseLost, Meddle, Serve, AskMailboxes, AskEmails, NoAnswer, Crash, vars
<1> QED
  BY <1>3, <1>4, <1>5, <1>6, <1>7, <1>8 DEF Quiet

\* A lossy step leaves some of the rows in the log.
LEMMA LossyStem ==
    ASSUME Types, Ordered(log), Fitting, Lossy
    PROVE  \E L, p : Stem(log', log, L, p)
<1>1. log \in Seq(Rows)
  BY DEF Types
<1>2. \E L : KeepsRows(log', Without(log, L))
  <2>1. CASE Cancel
    BY <2>1, CancelShape
  <2>2. CASE Settle
    BY <2>2, SettleShape
  <2>3. CASE Refuse
    BY <2>3, RefuseShape
  <2>4. CASE Drop
    BY <2>4, DropShape DEF Drops
  <2> QED
    BY <2>1, <2>2, <2>3, <2>4 DEF Lossy
<1>3. PICK L : KeepsRows(log', Without(log, L))
  BY <1>2
<1> QED
  BY <1>1, <1>3, StemOfKept

\* The log stays ordered: numbers grow, a destroy is the last row of its
\* email, only a destroy is held.
LEMMA LogKept ==
    ASSUME Types, Ordered(log), Fitting, [Next]_vars
    PROVE  log' \in Seq(Rows) /\ Ordered(log')
<1>1. log \in Seq(Rows)
  BY DEF Types
<1>2. ASSUME NEW L, NEW p, Stem(log', log, L, p) PROVE log' \in Seq(Rows) /\ Ordered(log')
  BY <1>1, <1>2, StemOrdered DEF Stem
<1>3. ASSUME NEW e \in Emails, NEW patch, NEW destroy, NEW lease, NEW row,
             Logs(row, e, patch, destroy, lease)
      PROVE  log' \in Seq(Rows) /\ Ordered(log')
  <2> DEFINE n == Len(log)
             new == log'
  <2>1. /\ new \in Seq(Rows) /\ Len(new) = n + 1 /\ new[n + 1] = row
        /\ \A i \in 1..n : new[i] = log[i]
    BY <1>3, LogsSay
  <2>2. /\ row.id = e /\ row.destroy = destroy /\ row.held = destroy
        /\ \A i \in 1..n : log[i].seq < row.seq /\ (log[i].id = e => ~log[i].destroy)
    BY <1>3 DEF Logs
  <2>3. n \in Nat
    BY <1>1
  <2> HIDE DEF n, new
  <2>4. \A j \in 1..(n + 1) : j = n + 1 \/ j \in 1..n
    BY <2>3
  <2>5. ASSUME NEW i \in 1..(n + 1), NEW j \in 1..(n + 1), i < j
        PROVE  new[i].seq < new[j].seq /\ (new[i].id = new[j].id => ~new[i].destroy)
    <3>1. i \in 1..n /\ new[i] = log[i]
      BY <2>1, <2>3, <2>5
    <3>2. CASE j = n + 1
      BY <3>1, <3>2, <2>1, <2>2
    <3>3. CASE j \in 1..n
      BY <3>1, <3>3, <2>1, <2>5 DEF Ordered, Rising, n
    <3> QED
      BY <3>2, <3>3, <2>4
  <2>6. ASSUME NEW i \in 1..(n + 1), new[i].held PROVE new[i].destroy
    <3>1. CASE i = n + 1
      BY <3>1, <2>1, <2>2, <2>6
    <3>2. CASE i \in 1..n
      BY <3>2, <2>1, <2>6 DEF Ordered, n
    <3> QED
      BY <3>1, <3>2, <2>4
  <2>7. new \in Seq(Rows) /\ Ordered(new)
    BY <2>1, <2>5, <2>6 DEF Ordered, Rising
  <2> QED
    BY <2>7 DEF new
<1>4. CASE Change
  BY <1>3, <1>4, ChangeShape DEF Changes
<1>5. CASE Destroy
  BY <1>3, <1>5, DestroyShape DEF Destroys
<1>6. CASE Quiet
  BY <1>2, <1>6, QuietStem
<1>7. CASE Lossy
  BY <1>2, <1>7, LossyStem
<1> QED
  BY <1>4, <1>5, <1>6, <1>7, FourKinds

\* The worker keeps its fields.
LEMMA WorkerKept ==
    ASSUME Types, [Next]_vars
    PROVE  worker' = [phase |-> worker'.phase, poll |-> worker'.poll, sent |-> worker'.sent,
                 more |-> worker'.more, verdict |-> worker'.verdict,
                 mailboxes |-> worker'.mailboxes, emails |-> worker'.emails,
                 fresh |-> worker'.fresh]
<1>1. worker = [phase |-> worker.phase, poll |-> worker.poll, sent |-> worker.sent,
                 more |-> worker.more, verdict |-> worker.verdict,
                 mailboxes |-> worker.mailboxes, emails |-> worker.emails,
                 fresh |-> worker.fresh]
  BY DEF Types
<1>2. CASE worker' = worker
  BY <1>1, <1>2
<1>3. CASE worker' = Idle \/ worker' = Flushed
  BY <1>3 DEF Idle, Flushed
<1>4. CASE Change \/ Destroy
  BY <1>2, <1>4 DEF Change, Destroy, Log
<1>5. CASE Release \/ Drop \/ LeaseLost \/ Fetch
  BY <1>2, <1>5 DEF Release, Drop, LeaseLost, Fetch
<1>6. CASE Meddle
  BY <1>1, <1>6 DEF Meddle
<1>7. CASE Serve
  BY <1>1, <1>7 DEF Serve
<1>8. CASE Flush
  BY <1>8 DEF Flush, Idle
<1>9. CASE Cancel
  BY <1>1, <1>9 DEF Cancel
<1>10. CASE Send
  BY <1>1, <1>3, <1>10 DEF Send
<1>11. CASE Refuse
  BY <1>1, <1>11 DEF Refuse
<1>12. CASE Settle
  <2>1. worker' = [Idle EXCEPT !.phase = "cancel", !.poll = worker.poll] \/ worker' = Flushed
    BY <1>12 DEF Settle
  <2> QED
    BY <2>1, <1>3 DEF Idle
<1>13. CASE AskMailboxes
  BY <1>1, <1>13 DEF AskMailboxes
<1>14. CASE AskEmails
  BY <1>1, <1>14 DEF AskEmails
<1>15. CASE Land
  <2>1. worker' = [Idle EXCEPT !.phase = "emails"] \/ worker' = Idle
    BY <1>15 DEF Land
  <2> QED
    BY <2>1, <1>3 DEF Idle
<1>16. CASE NoAnswer \/ Crash
  BY <1>3, <1>16 DEF NoAnswer, Crash
<1>17. CASE UNCHANGED vars
  BY <1>2, <1>17 DEF vars
<1> QED
  BY <1>4, <1>5, <1>6, <1>7, <1>8, <1>9, <1>10, <1>11, <1>12, <1>13, <1>14, <1>15, <1>16, <1>17
     DEF Next, User, Worker

\* A request is out, answered or settled, and a round lands, by the steps
\* that began it; what may happen meanwhile leaves the log alone.
LEMMA Busy ==
    ASSUME Types, [Next]_vars, worker'.phase \in {"land", "out", "answered", "settle"}
    PROVE  \/ AskEmails \/ Send \/ Serve \/ Refuse \/ Meddle
           \/ UNCHANGED <<worker, log, server, owed, unseen, stored>>
<1>1. worker' # Idle
  BY DEF Idle
<1>2. worker' # Flushed
  BY DEF Flushed, Idle
<1>3. ~Change /\ ~Destroy
  BY <1>1 DEF Change, Destroy, Log
<1>4. ~Release /\ ~Drop /\ ~Fetch
  BY <1>1 DEF Release, Drop, Fetch
<1>5. ~Flush
  BY DEF Flush, Idle
<1>6. ~Cancel
  BY DEF Cancel, Types
<1>7. ~Settle
  <2>1. [Idle EXCEPT !.phase = "cancel", !.poll = worker.poll].phase = "cancel"
    BY DEF Idle
  <2> QED
    BY <1>2, <2>1 DEF Settle
<1>8. ~AskMailboxes
  BY DEF AskMailboxes, Types
<1>9. ~Land
  <2>1. [Idle EXCEPT !.phase = "emails"].phase = "emails"
    BY DEF Idle
  <2> QED
    BY <1>1, <2>1 DEF Land
<1>10. ~NoAnswer /\ ~Crash
  BY <1>1, <1>2 DEF NoAnswer, Crash
<1>11. LeaseLost \/ UNCHANGED vars => UNCHANGED <<worker, log, server, owed, unseen, stored>>
  BY DEF LeaseLost, vars, history
<1> QED
  BY <1>3, <1>4, <1>5, <1>6, <1>7, <1>8, <1>9, <1>10, <1>11 DEF Next, User, Worker

\* What the steps that only move the worker or the flags of the log leave
\* alone.
Bystands == UNCHANGED <<server, header, said, stored, owed, unseen>>

\* These steps leave the emails alone.
LEMMA BystandsSay ==
    ASSUME \/ Release \/ LeaseLost \/ Flush \/ Cancel \/ Send \/ NoAnswer \/ AskMailboxes
           \/ AskEmails \/ Crash \/ UNCHANGED vars
    PROVE  Bystands
BY DEF Release, LeaseLost, Flush, Cancel, Send, NoAnswer, AskMailboxes, AskEmails, Crash, vars,
       history, Bystands

\* The steps by what they do to an email.
LEMMA StepKinds ==
    ASSUME [Next]_vars
    PROVE  Change \/ Destroy \/ Meddle \/ Serve \/ Drop \/ Refuse \/ Settle \/ Land \/ Fetch \/ Bystands
BY BystandsSay DEF Next, User, Worker

\* What the second write of settle makes of the store.
LEMMA SettleSays ==
    ASSUME Types, Settle
    PROVE  /\ worker.phase = "settle"
           /\ stored' = stored \ With("gone") /\ said' \in [Emails -> States]
           /\ \A e \in Emails : said'[e] = IF e \in With("took") THEN Patched(said[e], Merged(Sent(e)))
                                           ELSE said[e]
           /\ UNCHANGED <<server, header, toasts, owed, unseen>>
<1>1. /\ worker.phase = "settle"
      /\ stored' = stored \ With("gone")
      /\ said' = [e \in Emails |-> IF e \in With("took") THEN Patched(said[e], Merged(Sent(e)))
                                   ELSE said[e]]
      /\ UNCHANGED <<server, header, toasts, owed, unseen>>
  BY DEF Settle
<1>2. \A e \in Emails : said'[e] = IF e \in With("took") THEN Patched(said[e], Merged(Sent(e)))
                                   ELSE said[e]
  BY <1>1
<1>3. ASSUME NEW e \in Emails PROVE said'[e] \in States
  <2>1. said[e] \in States /\ log \in Seq(Rows)
    BY DEF Types
  <2>2. Merged(Sent(e)) \in Patches
    BY <2>1, SentPicks, MergedSays
  <2>3. Patched(said[e], Merged(Sent(e))) \in States
    BY <2>1, <2>2, PatchedSays
  <2> QED
    BY <2>1, <2>3, <1>2
<1>4. said' \in [Emails -> States]
  BY <1>1, <1>3
<1> QED
  BY <1>1, <1>2, <1>4

\* What a refusal disowns.
LEMMA RefuseSays ==
    ASSUME Types, Refuse
    PROVE  /\ worker.phase = "answered" /\ worker'.phase = "settle"
           /\ worker' = [worker EXCEPT !.phase = "settle"]
           /\ owed' \in [Emails -> Patches] /\ unseen' \in [Emails -> States]
           /\ \A e \in Emails :
                IF e \in With("refused")
                THEN /\ owed'[e] = Disowed(e, Merged(Sent(e)))
                     /\ unseen'[e] = {m \in Members : (m \in server[e]) # (m \in said[e])}
                ELSE owed'[e] = owed[e] /\ unseen'[e] = unseen[e]
           /\ UNCHANGED <<server, stored, said, toasts>>
<1>1. /\ worker.phase = "answered"
      /\ owed' = [e \in Emails |-> IF e \in With("refused")
                                   THEN Disowed(e, Merged(Sent(e))) ELSE owed[e]]
      /\ unseen' = [e \in Emails |-> IF e \in With("refused")
                                     THEN {m \in Members : (m \in server[e]) # (m \in said[e])}
                                     ELSE unseen[e]]
      /\ worker' = [worker EXCEPT !.phase = "settle"]
      /\ UNCHANGED <<server, stored, said, toasts>>
  BY DEF Refuse
<1>2. worker'.phase = "settle"
  BY <1>1 DEF Types
<1>3. \A e \in Emails :
        IF e \in With("refused")
        THEN /\ owed'[e] = Disowed(e, Merged(Sent(e)))
             /\ unseen'[e] = {m \in Members : (m \in server[e]) # (m \in said[e])}
        ELSE owed'[e] = owed[e] /\ unseen'[e] = unseen[e]
  BY <1>1
<1>4. owed \in [Emails -> Patches] /\ unseen \in [Emails -> States]
  BY DEF Types
<1>5. ASSUME NEW e \in Emails PROVE owed'[e] \in Patches
  <2> DEFINE q == Merged(Sent(e))
  <2>1. Disowed(e, q) \in Patches
    BY <1>4, DisowedSays
  <2>2. owed[e] \in Patches
    BY <1>4
  <2> HIDE DEF Patches
  <2> QED
    BY <1>3, <2>1, <2>2
<1>6. \A e \in Emails : unseen'[e] \in States
  BY <1>3, <1>4 DEF States
<1>7. owed' = [e \in Emails |-> owed'[e]] /\ unseen' = [e \in Emails |-> unseen'[e]]
  BY <1>1
<1>8. owed' \in [Emails -> Patches]
  <2> HIDE DEF Patches
  <2> QED
    BY <1>5, <1>7
<1>9. unseen' \in [Emails -> States]
  BY <1>6, <1>7
<1> QED
  BY <1>1, <1>2, <1>3, <1>8, <1>9

\* A change of what is not unseen is owed.
LEMMA OwesSays ==
    ASSUME Types, NEW e \in Emails, NEW patch \in Patches, NEW new,
           new = Over(owed[e], [m \in DOMAIN patch \ unseen[e] |-> patch[m]])
    PROVE  /\ new \in Patches
           /\ DOMAIN new = DOMAIN owed[e] \cup (DOMAIN patch \ unseen[e])
           /\ \A m \in DOMAIN patch \ unseen[e] : new[m] = patch[m]
           /\ \A m \in DOMAIN owed[e] \ (DOMAIN patch \ unseen[e]) : new[m] = owed[e][m]
<1> DEFINE q == [m \in DOMAIN patch \ unseen[e] |-> patch[m]]
<1>1. owed[e] \in Patches
  BY DEF Types
<1>2. DOMAIN patch \ unseen[e] \in SUBSET Members /\ \A m \in DOMAIN patch : patch[m] \in BOOLEAN
  BY PatchType
<1>3. q \in [DOMAIN patch \ unseen[e] -> BOOLEAN]
  BY <1>2
<1>4. q \in Patches
  BY <1>2, <1>3, PatchIntro
<1>5. DOMAIN q = DOMAIN patch \ unseen[e] /\ \A m \in DOMAIN q : q[m] = patch[m]
  OBVIOUS
<1>6. new = Over(owed[e], q)
  OBVIOUS
<1> DEFINE p == owed[e]
           D == DOMAIN patch \ unseen[e]
<1>7. DOMAIN q = D /\ p \in Patches /\ new = Over(p, q) /\ \A m \in D : q[m] = patch[m]
  BY <1>1, <1>5, <1>6
<1> HIDE DEF q, Patches, p
<1>8. /\ Over(p, q) \in Patches
      /\ DOMAIN Over(p, q) = DOMAIN p \cup DOMAIN q
      /\ \A m \in DOMAIN q : Over(p, q)[m] = q[m]
      /\ \A m \in DOMAIN p \ DOMAIN q : Over(p, q)[m] = p[m]
  BY <1>4, <1>7, OverSays
<1>9. /\ new \in Patches /\ DOMAIN new = DOMAIN p \cup D
      /\ \A m \in D : new[m] = patch[m]
      /\ \A m \in DOMAIN p \ D : new[m] = p[m]
  <2> HIDE DEF D
  <2> QED
    BY <1>7, <1>8
<1> QED
  BY <1>9 DEF p

\* A round asks for states of the server.
LEMMA AskSays ==
    ASSUME Types, AskEmails
    PROVE  /\ DOMAIN worker'.emails \subseteq Emails
           /\ \A e \in DOMAIN worker'.emails : worker'.emails[e] = server[e]
<1>1. PICK named \in SUBSET (news \cap Emails) :
        worker' = [worker EXCEPT !.phase = "land", !.fresh = @ \cup named,
                                 !.more = named # news \cap Emails,
                                 !.emails = [e \in named |-> server[e]]]
  BY DEF AskEmails
<1>2. worker'.emails = [e \in named |-> server[e]]
  BY <1>1 DEF Types
<1> QED
  BY <1>2

\* The server's states.
LEMMA ServerKept ==
    ASSUME Types, [Next]_vars
    PROVE  server' \in [Emails -> States]
<1>1. server \in [Emails -> States]
  BY DEF Types
<1>2. CASE Meddle
  BY <1>2, MeddleShape DEF Meddles
<1>3. CASE Serve
  BY <1>3, ServeShape DEF Serves
<1>4. CASE Change \/ Destroy \/ Drop \/ Refuse \/ Settle \/ Land \/ Fetch \/ Bystands
  BY <1>1, <1>4 DEF Change, Destroy, Log, Drop, Refuse, Settle, Land, Fetch, Bystands
<1> QED
  BY <1>2, <1>3, <1>4, StepKinds

\* The headers, and what the server said.
LEMMA HeaderKept ==
    ASSUME Types, Ordered(log), Fitting, [Next]_vars
    PROVE  header' \in [Emails -> States] /\ said' \in [Emails -> States]
<1>1. header \in [Emails -> States] /\ said \in [Emails -> States] /\ server \in [Emails -> States]
  BY DEF Types
<1>2. ASSUME NEW e \in Emails, NEW patch \in Patches,
             header' = [header EXCEPT ![e] = Patched(@, patch)]
      PROVE  header' \in [Emails -> States]
  BY <1>1, <1>2, PatchedSays
<1>3. CASE Change
  <2>1. said' = said
    BY <1>3 DEF Change, Log
  <2> QED
    BY <1>1, <1>2, <1>3, <2>1, ChangeShape DEF Changes
<1>4. CASE Destroy
  <2>1. said' = said
    BY <1>4 DEF Destroy, Log
  <2> QED
    BY <1>1, <1>2, <1>4, <2>1, DestroyShape DEF Destroys
<1>5. CASE Drop
  <2>1. said' = said
    BY <1>5 DEF Drop, history
  <2> QED
    BY <1>1, <1>5, <2>1, DropShape DEF Drops
<1>6. CASE Refuse
  BY <1>1, <1>6, RefuseShape, RefuseSays
<1>7. CASE Settle
  BY <1>1, <1>7, SettleSays
<1>8. CASE Land
  BY <1>8, LandShape
<1>9. CASE Fetch
  BY <1>1, <1>9, FetchShape DEF Fetches
<1>10. CASE Meddle \/ Serve \/ Bystands
  BY <1>1, <1>10 DEF Meddle, Serve, Bystands
<1> QED
  BY <1>3, <1>4, <1>5, <1>6, <1>7, <1>8, <1>9, <1>10, StepKinds

\* The emails of the store.
LEMMA StoredKept ==
    ASSUME Types, Ordered(log), [Next]_vars
    PROVE  stored' \in SUBSET Emails
<1>1. stored \in SUBSET Emails
  BY DEF Types
<1>2. CASE Settle
  BY <1>1, <1>2, SettleSays
<1>3. CASE Land
  BY <1>1, <1>3, LandShape
<1>4. CASE Fetch
  BY <1>1, <1>4, FetchShape DEF Fetches
<1>5. CASE Change \/ Destroy \/ Meddle \/ Serve \/ Drop \/ Refuse \/ Bystands
  BY <1>1, <1>5 DEF Change, Destroy, Log, Meddle, Serve, Drop, Refuse, Bystands
<1> QED
  BY <1>2, <1>3, <1>4, <1>5, StepKinds

\* The toasts: one more for a destroy, fewer otherwise.
LEMMA ToastsType ==
    ASSUME Types, Ordered(log), [Next]_vars
    PROVE  toasts' \in [Tabs -> SUBSET Toast]
<1>1. toasts \in [Tabs -> SUBSET Toast]
  BY DEF Types
<1>2. CASE Destroy
  <2>1. PICK e, patch, t, row : Destroys(e, patch, t, row)
    BY <1>2, DestroyShape
  <2>2. row.seq \in Nat /\ e \in Emails /\ t \in Tabs
    BY <2>1 DEF Destroys, Logs, Rows
  <2>3. [seq |-> row.seq, id |-> e] \in Toast
    BY <2>2 DEF Toast
  <2>4. toasts' = [toasts EXCEPT ![t] = @ \cup {[seq |-> row.seq, id |-> e]}]
    BY <2>1 DEF Destroys
  <2> QED
    BY <1>1, <2>2, <2>3, <2>4
<1>3. ASSUME NEW t, NEW x, toasts' = [toasts EXCEPT ![t] = @ \ {x}]
      PROVE  toasts' \in [Tabs -> SUBSET Toast]
  BY <1>1, <1>3
<1>4. CASE Release
  BY <1>3, <1>4, ReleaseShape DEF Releases
<1>5. CASE Drop
  BY <1>3, <1>5 DEF Drop
<1>6. CASE LeaseLost
  <2>1. PICK t \in Tabs : \E x \in toasts[t] : \E kept \in {{}, toasts[t] \ {x}} :
           toasts' = [toasts EXCEPT ![t] = kept]
    BY <1>6 DEF LeaseLost
  <2>2. \E kept \in SUBSET Toast : toasts' = [toasts EXCEPT ![t] = kept]
    BY <1>1, <2>1
  <2> QED
    BY <1>1, <2>2
<1>7. CASE \/ Change \/ Meddle \/ Serve \/ Flush \/ Cancel \/ Send \/ NoAnswer \/ Refuse \/ Settle
           \/ AskMailboxes \/ AskEmails \/ Land \/ Fetch \/ Crash \/ UNCHANGED vars
  BY <1>1, <1>7 DEF Change, Meddle, Serve, Flush, Cancel, Send, NoAnswer, Refuse, Settle,
     AskMailboxes, AskEmails, Land, Fetch, Crash, vars
<1> QED
  BY <1>2, <1>4, <1>5, <1>6, <1>7 DEF Next, User, Worker

\* What is owed and what is unseen.
LEMMA OwedKept ==
    ASSUME Types, Ordered(log), [Next]_vars
    PROVE  owed' \in [Emails -> Patches] /\ unseen' \in [Emails -> States]
<1>1. owed \in [Emails -> Patches] /\ unseen \in [Emails -> States] /\ {} \in States
  BY DEF Types, States
<1>2. CASE Change
  <2>1. PICK e, patch, row : Changes(e, patch, row)
    BY <1>2, ChangeShape
  <2> DEFINE new == Over(owed[e], [m \in DOMAIN patch \ unseen[e] |-> patch[m]])
  <2>2. /\ e \in Emails /\ patch \in Patches /\ unseen' = unseen
        /\ owed' = [owed EXCEPT ![e] = new]
    BY <2>1 DEF Changes
  <2> HIDE DEF Patches
  <2>3. new \in Patches
    BY <2>2, OwesSays
  <2> HIDE DEF new
  <2> QED
    BY <1>1, <2>2, <2>3
<1>3. CASE Meddle
  BY <1>3, MeddleShape DEF Meddles
<1>4. CASE Serve
  BY <1>1, <1>4, ServeShape DEF Serves
<1>5. CASE Refuse
  BY <1>5, RefuseSays
<1>6. CASE Land
  BY <1>1, <1>6, LandShape DEF Land
<1>7. CASE Fetch
  <2>1. owed' = owed
    BY <1>7 DEF Fetch
  <2>2. \E e : unseen' = [unseen EXCEPT ![e] = {}]
    BY <1>7, FetchShape DEF Fetches
  <2> QED
    BY <1>1, <2>1, <2>2
<1>8. CASE Destroy \/ Drop \/ Settle \/ Bystands
  BY <1>1, <1>8 DEF Destroy, Log, Drop, Settle, Bystands, history
<1> QED
  BY <1>2, <1>3, <1>4, <1>5, <1>6, <1>7, <1>8, StepKinds

\* Every step keeps the types.
LEMMA TypesKept ==
    ASSUME Types, Ordered(log), Fitting, [Next]_vars
    PROVE  Types'
<1>1. /\ server' \in [Emails -> States] /\ header' \in [Emails -> States]
      /\ said' \in [Emails -> States] /\ stored' \in SUBSET Emails
      /\ log' \in Seq(Rows)
      /\ toasts' \in [Tabs -> SUBSET Toast]
      /\ owed' \in [Emails -> Patches] /\ unseen' \in [Emails -> States]
  BY ServerKept, HeaderKept, StoredKept, LogKept, ToastsType, OwedKept
<1>2. worker'.phase = "land" =>
        DOMAIN worker'.emails \subseteq Emails
          /\ \A e \in DOMAIN worker'.emails : worker'.emails[e] \in States
  <2>1. SUFFICES ASSUME worker'.phase = "land"
                 PROVE  DOMAIN worker'.emails \subseteq Emails
                          /\ \A e \in DOMAIN worker'.emails : worker'.emails[e] \in States
    OBVIOUS
  <2>2. CASE AskEmails
    BY <2>2, AskSays DEF Types
  <2>3. CASE Send
    <3>1. worker'.phase # "land"
      BY <2>3, SendShape DEF Flushed, Idle
    <3> QED
      BY <2>1, <3>1
  <2>4. CASE Serve
    <3>1. worker'.phase # "land"
      BY <2>4 DEF Serve, Types
    <3> QED
      BY <2>1, <3>1
  <2>5. CASE Refuse
    <3>1. worker'.phase # "land"
      BY <2>5, RefuseSays
    <3> QED
      BY <2>1, <3>1
  <2>6. CASE Meddle
    <3>1. worker' = [worker EXCEPT !.fresh = worker'.fresh]
      BY <2>6, MeddleShape DEF Meddles
    <3>2. worker'.phase = worker.phase /\ worker'.emails = worker.emails
      BY <3>1 DEF Types
    <3> QED
      BY <2>1, <3>2 DEF Types
  <2>7. CASE UNCHANGED <<worker, log, server, owed, unseen, stored>>
    BY <2>1, <2>7 DEF Types
  <2> QED
    BY <2>1, <2>2, <2>3, <2>4, <2>5, <2>6, <2>7, Busy
<1> QED
  BY <1>1, <1>2, WorkerKept DEF Types

-----------------------------------------------------------------------------
(* The invariant is kept: toasts, and what is out *)

\* A row of an email is one of its rows.
LEMMA RowsOfHas ==
    ASSUME NEW rows \in Seq(Rows), NEW e, NEW i \in 1..Len(rows), rows[i].id = e
    PROVE  \E k \in 1..Len(RowsOf(rows, e)) : RowsOf(rows, e)[k] = rows[i]
<1>1. Picks(RowsOf(rows, e), rows, Of(rows, e))
  BY RowsOfPicks DEF Of
<1> DEFINE s == RowsOf(rows, e)
<1>2. PICK p : Lists(p, Len(s), Of(rows, e)) /\ s = [k \in 1..Len(s) |-> rows[p[k]]]
  BY <1>1 DEF Picks
<1>3. i \in Of(rows, e)
  BY DEF Of
<1>4. PICK k \in 1..Len(s) : p[k] = i
  BY <1>2, <1>3 DEF Lists
<1> HIDE DEF s
<1>5. s[k] = rows[i]
  BY <1>2, <1>4
<1> QED
  BY <1>4, <1>5 DEF s

\* A row that does not leave is in the log still.
LEMMA RowStays ==
    ASSUME log \in Seq(Rows), NEW L, KeepsRows(log', Without(log, L)),
           NEW i \in 1..Len(log), log[i].seq \notin L
    PROVE  \E k \in 1..Len(log') :
             /\ log'[k].seq = log[i].seq /\ log'[k].id = log[i].id
             /\ log'[k].destroy = log[i].destroy /\ log'[k].lease = log[i].lease
             /\ log'[k].held = log[i].held /\ log'[k].sent = log[i].sent
<1>1. PICK p : /\ Stem(log', log, L, p)
               /\ \A k \in 1..Len(log') : log'[k].held = log[p[k]].held /\ log'[k].sent = log[p[k]].sent
  BY StemOfKept
<1>2. PICK k \in 1..Len(log') : p[k] = i
  BY <1>1, StemRows
<1>3. Descends(log'[k], log[i])
  BY <1>1, <1>2, StemRows
<1> QED
  BY <1>1, <1>2, <1>3 DEF Descends

\* A toast whose row stays as it is stays true.
LEMMA ToastStays ==
    ASSUME log \in Seq(Rows), NEW L, KeepsRows(log', Without(log, L)), NEW x, NEW t,
           NEW i \in 1..Len(log), log[i].seq = x.seq, log[i].id = x.id, log[i].held,
           log[i].lease = t, log[i].seq \notin L
    PROVE  HeldFor(x, t)'
<1>1. \E k \in 1..Len(log') : log'[k].seq = x.seq /\ log'[k].id = x.id /\ log'[k].held /\ log'[k].lease = t
  BY RowStays
<1> QED
  BY <1>1 DEF HeldFor

\* Two toasts of one row are one toast of one tab.
LEMMA ToastsApart ==
    ASSUME Types, Ordered(log), Toasts, NEW t \in Tabs, NEW u \in Tabs,
           NEW x \in toasts[t], NEW y \in toasts[u], x.seq = y.seq
    PROVE  t = u /\ x = y
<1>1. HeldFor(x, t) /\ HeldFor(y, u)
  BY DEF Toasts
<1>2. PICK i \in 1..Len(log) : log[i].seq = x.seq /\ log[i].id = x.id /\ log[i].lease = t
  BY <1>1 DEF HeldFor
<1>3. PICK j \in 1..Len(log) : log[j].seq = y.seq /\ log[j].id = y.id /\ log[j].lease = u
  BY <1>1 DEF HeldFor
<1>4. i = j
  BY <1>2, <1>3, RisingSame DEF Types, Ordered
<1>5. x \in Toast /\ y \in Toast
  BY DEF Types
<1>6. x = [seq |-> x.seq, id |-> x.id] /\ y = [seq |-> y.seq, id |-> y.id]
  BY <1>5 DEF Toast
<1> QED
  BY <1>2, <1>3, <1>4, <1>6

\* The toasts that are left once one ends.
LEMMA ToastsLeft ==
    ASSUME Types, Ordered(log), Toasts, NEW t \in Tabs, NEW x \in toasts[t],
           toasts' = [toasts EXCEPT ![t] = @ \ {x}],
           NEW u \in Tabs, NEW y \in toasts'[u]
    PROVE  y \in toasts[u] /\ y.seq # x.seq
<1>1. toasts \in [Tabs -> SUBSET Toast]
  BY DEF Types
<1>2. y \in toasts[u] /\ ~(u = t /\ y = x)
  BY <1>1
<1> QED
  BY <1>2, ToastsApart

\* An email that adds up to nothing has no destroy.
LEMMA CanceledSays ==
    ASSUME log \in Seq(Rows), NEW i \in 1..Len(log), log[i].id \in Canceled
    PROVE  ~log[i].destroy /\ ~log[i].sent
<1>1. Cancels(RowsOf(log, log[i].id)) /\ RowsOf(log, log[i].id) \in Seq(Rows)
  BY RowsOfPicks DEF Canceled
<1>2. PICK k \in 1..Len(RowsOf(log, log[i].id)) : RowsOf(log, log[i].id)[k] = log[i]
  BY RowsOfHas
<1>3. k \in DOMAIN RowsOf(log, log[i].id)
  BY <1>1, <1>2
<1> QED
  BY <1>1, <1>2, <1>3 DEF Cancels

\* No row of a toast leaves by the answer to a request.
LEMMA HeldStaysOut ==
    ASSUME Types, Ordered(log), Outgoing, Answered, worker.phase \in {"answered", "settle"},
           NEW i \in 1..Len(log), log[i].held
    PROVE  ~Out(log[i]) /\ log[i].id \notin With("gone")
<1>1. ~Out(log[i])
  BY DEF Outgoing
<1>2. ASSUME log[i].id \in With("gone") PROVE FALSE
  <2>1. Destroying(log[i].id)
    BY <1>2 DEF Answered
  <2>2. DOMAIN log = 1..Len(log) /\ log \in Seq(Rows)
    BY DEF Types
  <2>3. PICK j \in 1..Len(log) : log[j].id = log[i].id /\ log[j].destroy /\ Out(log[j])
    BY <2>1, <2>2 DEF Destroying
  <2>4. log[i].destroy
    BY DEF Ordered
  <2>5. i = j
    <3>1. Len(log) \in Nat
      BY <2>2
    <3>2. i < j \/ j < i \/ i = j
      BY <3>1
    <3> QED
      BY <2>3, <2>4, <3>2 DEF Ordered
  <2> QED
    BY <1>1, <2>3, <2>5
<1> QED
  BY <1>1, <1>2

\* Every step keeps the toasts: a row leaves or is released only by the
\* toast that names it, once its tab has no lease.
LEMMA ToastsKept ==
    ASSUME Types, Ordered(log), Fitting, Toasts, Outgoing, Answered, [Next]_vars
    PROVE  Toasts'
<1>1. log \in Seq(Rows) /\ toasts \in [Tabs -> SUBSET Toast]
  BY DEF Types
<1>2. SUFFICES ASSUME NEW u \in Tabs, NEW y \in toasts'[u] PROVE HeldFor(y, u)'
  BY DEF Toasts
<1>3. ASSUME y \in toasts[u]
      PROVE  \E i \in 1..Len(log) :
               log[i].seq = y.seq /\ log[i].id = y.id /\ log[i].held /\ log[i].lease = u
  BY <1>3 DEF Toasts, HeldFor
<1>4. ASSUME NEW e \in Emails, NEW patch, NEW destroy, NEW lease, NEW row,
             Logs(row, e, patch, destroy, lease), y \in toasts[u]
      PROVE  HeldFor(y, u)'
  <2>1. PICK i \in 1..Len(log) : log[i].seq = y.seq /\ log[i].id = y.id /\ log[i].held /\ log[i].lease = u
    BY <1>3, <1>4
  <2>2. Len(log') = Len(log) + 1 /\ log'[i] = log[i]
    BY <1>4, LogsSay
  <2>3. Len(log) \in Nat
    BY <1>1
  <2>4. i \in 1..Len(log')
    BY <2>2, <2>3
  <2> QED
    BY <2>1, <2>2, <2>4 DEF HeldFor
<1>5. CASE Change
  BY <1>4, <1>5, ChangeShape DEF Changes
<1>6. CASE Destroy
  <2>1. PICK e, patch, t, row : Destroys(e, patch, t, row)
    BY <1>6, DestroyShape
  <2>2. /\ e \in Emails /\ Logs(row, e, patch, TRUE, t) /\ t \in Tabs
        /\ row.id = e /\ row.held = TRUE /\ row.lease = t
        /\ toasts' = [toasts EXCEPT ![t] = @ \cup {[seq |-> row.seq, id |-> e]}]
    BY <2>1 DEF Destroys
  <2>3. y \in toasts[u] \/ (u = t /\ y = [seq |-> row.seq, id |-> e])
    BY <1>1, <2>2
  <2>4. CASE y \in toasts[u]
    BY <1>4, <2>2, <2>4
  <2>5. CASE u = t /\ y = [seq |-> row.seq, id |-> e]
    <3>1. log' \in Seq(Rows) /\ Len(log') = Len(log) + 1 /\ log'[Len(log')] = row
      <4>1. PICK destroy : Logs(row, e, patch, destroy, t)
        BY <2>2
      <4>2. e \in Emails
        BY <2>2
      <4> QED
        BY <4>1, <4>2, LogsSay
    <3>2. Len(log') \in 1..Len(log')
      BY <1>1, <3>1
    <3>3. y.seq = row.seq /\ y.id = e
      BY <2>5
    <3> QED
      BY <2>2, <2>5, <3>1, <3>2, <3>3 DEF HeldFor
  <2> QED
    BY <2>3, <2>4, <2>5
<1>7. ASSUME NEW i \in 1..Len(log), log[i].seq = y.seq, log[i].id = y.id, log[i].lease = u,
             Flags(log', log), log'[i].held
      PROVE  HeldFor(y, u)'
  BY <1>7 DEF Flags, HeldFor
<1>8. CASE Release
  <2>1. PICK t, x : Releases(t, x)
    BY <1>8, ReleaseShape
  <2>2. y \in toasts[u] /\ y.seq # x.seq
    BY <2>1, ToastsLeft DEF Releases
  <2>3. PICK i \in 1..Len(log) : log[i].seq = y.seq /\ log[i].id = y.id /\ log[i].held /\ log[i].lease = u
    BY <1>3, <2>2
  <2>4. Flags(log', log) /\ log'[i].held
    BY <2>1, <2>2, <2>3 DEF Releases
  <2> QED
    BY <1>7, <2>3, <2>4
<1>9. CASE Flush
  <2>1. toasts' = toasts
    BY <1>9 DEF Flush
  <2>2. PICK i \in 1..Len(log) : log[i].seq = y.seq /\ log[i].id = y.id /\ log[i].held /\ log[i].lease = u
    BY <1>3, <2>1
  <2>3. Live(u)
    BY <2>1 DEF Live
  <2>4. Flags(log', log) /\ log'[i].held
    BY <1>9, <2>2, <2>3, FlushShape
  <2> QED
    BY <1>7, <2>2, <2>4
<1>10. CASE Send
  <2>1. toasts' = toasts
    BY <1>10 DEF Send
  <2>2. PICK i \in 1..Len(log) : log[i].seq = y.seq /\ log[i].id = y.id /\ log[i].held /\ log[i].lease = u
    BY <1>3, <2>1
  <2>3. Flags(log', log) /\ log'[i].held
    BY <1>10, <2>2, SendShape
  <2> QED
    BY <1>7, <2>2, <2>3
<1>11. CASE Drop
  <2>1. PICK t, x, L : Drops(t, x, L)
    BY <1>11, DropShape
  <2>2. y \in toasts[u] /\ y.seq # x.seq
    BY <2>1, ToastsLeft DEF Drops
  <2>3. PICK i \in 1..Len(log) : log[i].seq = y.seq /\ log[i].id = y.id /\ log[i].held /\ log[i].lease = u
    BY <1>3, <2>2
  <2>4. log[i].seq \notin L /\ KeepsRows(log', Without(log, L))
    BY <2>1, <2>2, <2>3 DEF Drops, Leaves
  <2> QED
    BY <1>1, <2>3, <2>4, ToastStays
<1>12. CASE Cancel
  <2>1. PICK L : /\ KeepsRows(log', Without(log, L))
                 /\ Leaves(L, {i \in 1..Len(log) : log[i].id \in Canceled})
    BY <1>12, CancelShape
  <2>2. toasts' = toasts
    BY <1>12 DEF Cancel
  <2>3. PICK i \in 1..Len(log) : log[i].seq = y.seq /\ log[i].id = y.id /\ log[i].held /\ log[i].lease = u
    BY <1>3, <2>2
  <2>4. log[i].id \notin Canceled
    BY <1>1, <2>3, CanceledSays DEF Ordered
  <2>5. log[i].seq \notin L
    BY <2>1, <2>4 DEF Leaves
  <2> QED
    BY <1>1, <2>1, <2>3, <2>5, ToastStays
<1>13. CASE Refuse
  <2>1. PICK L : /\ KeepsRows(log', Without(log, L))
                 /\ Leaves(L, {i \in 1..Len(log) : Out(log[i]) /\ log[i].id \in With("refused")})
    BY <1>13, RefuseShape
  <2>2. toasts' = toasts /\ worker.phase = "answered"
    BY <1>13 DEF Refuse
  <2>3. PICK i \in 1..Len(log) : log[i].seq = y.seq /\ log[i].id = y.id /\ log[i].held /\ log[i].lease = u
    BY <1>3, <2>2
  <2>4. ~Out(log[i])
    BY <2>2, <2>3, HeldStaysOut
  <2>5. log[i].seq \notin L
    BY <2>1, <2>4 DEF Leaves
  <2> QED
    BY <1>1, <2>1, <2>3, <2>5, ToastStays
<1>14. CASE Settle
  <2>1. PICK L : /\ KeepsRows(log', Without(log, L))
                 /\ Leaves(L, {i \in 1..Len(log) : \/ Out(log[i]) /\ log[i].id \in With("took")
                                                   \/ log[i].id \in With("gone")})
    BY <1>14, SettleShape
  <2>2. toasts' = toasts /\ worker.phase = "settle"
    BY <1>14 DEF Settle
  <2>3. PICK i \in 1..Len(log) : log[i].seq = y.seq /\ log[i].id = y.id /\ log[i].held /\ log[i].lease = u
    BY <1>3, <2>2
  <2>4. ~Out(log[i]) /\ log[i].id \notin With("gone")
    BY <2>2, <2>3, HeldStaysOut
  <2>5. log[i].seq \notin L
    BY <2>1, <2>4 DEF Leaves
  <2> QED
    BY <1>1, <2>1, <2>3, <2>5, ToastStays
<1>15. ASSUME KeepsRows(log', log), toasts' = toasts PROVE HeldFor(y, u)'
  <2>1. PICK i \in 1..Len(log) : log[i].seq = y.seq /\ log[i].id = y.id /\ log[i].held /\ log[i].lease = u
    BY <1>3, <1>15
  <2> QED
    BY <2>1, <1>15 DEF KeepsRows, HeldFor
<1>16. CASE Land
  BY <1>15, <1>16, LandShape DEF Land
<1>17. CASE Fetch
  BY <1>15, <1>17, FetchShape DEF Fetches, Fetch
<1>18. CASE LeaseLost
  <2>1. PICK t \in Tabs : \E x \in toasts[t] : \E kept \in {{}, toasts[t] \ {x}} :
           toasts' = [toasts EXCEPT ![t] = kept]
    BY <1>18 DEF LeaseLost
  <2>2. y \in toasts[u]
    BY <1>1, <2>1
  <2>3. log' = log
    BY <1>18 DEF LeaseLost
  <2> QED
    BY <1>3, <2>2, <2>3 DEF HeldFor
<1>19. CASE Meddle \/ Serve \/ NoAnswer \/ AskMailboxes \/ AskEmails \/ Crash \/ UNCHANGED vars
  <2>1. toasts' = toasts /\ log' = log
    BY <1>19 DEF Meddle, Serve, NoAnswer, AskMailboxes, AskEmails, Crash, vars
  <2> QED
    BY <1>3, <2>1 DEF HeldFor
<1> QED
  BY <1>5, <1>6, <1>8, <1>9, <1>10, <1>11, <1>12, <1>13, <1>14, <1>16, <1>17, <1>18, <1>19
     DEF Next, User, Worker

\* Every step keeps what is out: no row joins an email that is out.
LEMMA OutgoingKept ==
    ASSUME Types, Ordered(log), Fitting, Outgoing, [Next]_vars
    PROVE  Outgoing'
<1>1. log \in Seq(Rows) /\ DOMAIN log = 1..Len(log)
  BY DEF Types
<1>2. SUFFICES ASSUME worker'.phase \in {"out", "answered", "settle"}
               PROVE  Outgoing'
  BY DEF Outgoing
<1>3. ASSUME log' = log, worker'.sent = worker.sent, worker.phase \in {"out", "answered", "settle"}
      PROVE  Outgoing'
  BY <1>3 DEF Outgoing, Out, SentIds
<1>4. CASE AskEmails
  <2>1. worker'.phase = "land"
    BY <1>4 DEF AskEmails, Types
  <2> QED
    BY <1>2, <2>1
<1>5. CASE Send
  <2>1. /\ Flags(log', log)
        /\ \A i \in 1..Len(log) : log'[i].held = log[i].held
    BY <1>5, SendShape
  <2>2. worker' # Flushed
    BY <1>2 DEF Flushed, Idle
  <2>3. /\ \A i \in 1..Len(log) : log[i].seq \in worker'.sent => log'[i].sent
        /\ \E E : \A i \in 1..Len(log) : log[i].seq \in worker'.sent <=> ~log[i].held /\ log[i].id \in E
    BY <1>5, <2>2, SendShape
  <2>4. PICK E : \A i \in 1..Len(log) : log[i].seq \in worker'.sent <=> ~log[i].held /\ log[i].id \in E
    BY <2>3
  <2>5. Len(log') = Len(log) /\ DOMAIN log' = 1..Len(log)
        /\ \A i \in 1..Len(log) : log'[i].seq = log[i].seq /\ log'[i].id = log[i].id
    BY <2>1 DEF Flags
  <2>6. ASSUME NEW i \in 1..Len(log') PROVE Out(log[i])' => ~log'[i].held /\ log'[i].sent
    BY <2>1, <2>3, <2>4, <2>5 DEF Out
  <2>7. ASSUME NEW i \in 1..Len(log'), log'[i].id \in SentIds' PROVE Out(log[i])' \/ log'[i].held
    <3>1. PICK j \in 1..Len(log) : log'[j].seq \in worker'.sent /\ log'[j].id = log'[i].id
      BY <2>5, <2>7 DEF SentIds, Out
    <3>2. log[j].id \in E /\ log[i].id = log[j].id
      BY <2>4, <2>5, <3>1
    <3> QED
      BY <2>1, <2>4, <2>5, <3>2 DEF Out
  <2> QED
    BY <2>6, <2>7 DEF Outgoing
<1>6. CASE Serve
  <2>1. PICK taken : Serves(taken)
    BY <1>6, ServeShape
  <2>2. log' = log /\ worker.phase = "out"
        /\ worker' = [worker EXCEPT !.phase = "answered", !.verdict = worker'.verdict]
    BY <2>1 DEF Serves
  <2>3. worker'.sent = worker.sent
    BY <2>2 DEF Types
  <2> QED
    BY <1>3, <2>2, <2>3
<1>7. CASE Refuse
  <2>1. /\ worker.phase = "answered"
        /\ worker' = [worker EXCEPT !.phase = "settle"]
    BY <1>7, RefuseSays
  <2>2. worker'.sent = worker.sent
    BY <2>1 DEF Types
  <2>3. PICK L : KeepsRows(log', Without(log, L))
    BY <1>7, RefuseShape
  <2>4. PICK p : /\ Stem(log', log, L, p)
                 /\ \A k \in 1..Len(log') : log'[k].held = log[p[k]].held /\ log'[k].sent = log[p[k]].sent
    BY <1>1, <2>3, StemOfKept
  <2>5. \A k \in 1..Len(log') : /\ p[k] \in 1..Len(log)
                                /\ log'[k].seq = log[p[k]].seq /\ log'[k].id = log[p[k]].id
    BY <1>1, <2>4, StemRows DEF Descends
  <2>6. DOMAIN log' = 1..Len(log')
    BY <2>4 DEF Stem
  <2>7. SentIds' \subseteq SentIds
    BY <1>1, <2>2, <2>5, <2>6 DEF SentIds, Out
  <2>8. ASSUME NEW k \in 1..Len(log')
        PROVE  /\ Out(log[k])' => ~log'[k].held /\ log'[k].sent
               /\ log'[k].id \in SentIds' => Out(log[k])' \/ log'[k].held
    <3>1. Out(log[k])' <=> Out(log[p[k]])
      BY <2>2, <2>5 DEF Out
    <3>2. p[k] \in 1..Len(log) /\ log'[k].id = log[p[k]].id
      BY <2>5
    <3>3. /\ Out(log[p[k]]) => ~log[p[k]].held /\ log[p[k]].sent
          /\ log[p[k]].id \in SentIds => Out(log[p[k]]) \/ log[p[k]].held
      BY <2>1, <3>2 DEF Outgoing
    <3> QED
      BY <2>4, <2>7, <3>1, <3>2, <3>3
  <2> QED
    BY <2>8 DEF Outgoing
<1>8. CASE Meddle
  <2>1. PICK e, patch : Meddles(e, patch)
    BY <1>8, MeddleShape
  <2>2. log' = log /\ worker' = [worker EXCEPT !.fresh = worker'.fresh]
    BY <2>1 DEF Meddles
  <2>3. worker'.sent = worker.sent /\ worker'.phase = worker.phase
    BY <2>2 DEF Types
  <2> QED
    BY <1>2, <1>3, <2>2, <2>3
<1>9. CASE UNCHANGED <<worker, log, server, owed, unseen, stored>>
  BY <1>2, <1>3, <1>9
<1> QED
  BY <1>2, <1>4, <1>5, <1>6, <1>7, <1>8, <1>9, Busy

\* What a refusal leaves of an email that was not refused.
LEMMA RefuseKeeps ==
    ASSUME Types, Ordered(log), Fitting, Refuse, NEW e, e \notin With("refused")
    PROVE  /\ \A i \in 1..Len(log) : log[i].id = e =>
                \E k \in 1..Len(log') : /\ log'[k].id = e /\ log'[k].destroy = log[i].destroy
                                        /\ Out(log[k])' = Out(log[i])
           /\ \A k \in 1..Len(log') : log'[k].id = e =>
                \E i \in 1..Len(log) : /\ log[i].id = e /\ log[i].destroy = log'[k].destroy
                                       /\ Out(log[k])' = Out(log[i])
           /\ \E L, p : Stem(log', log, L, p) /\ KeepsChanges(log, L, e)
<1>1. log \in Seq(Rows)
  BY DEF Types
<1>2. worker' = [worker EXCEPT !.phase = "settle"]
  BY RefuseSays
<1>3. worker'.sent = worker.sent
  BY <1>2 DEF Types
<1>4. PICK L : /\ KeepsRows(log', Without(log, L))
               /\ Leaves(L, {i \in 1..Len(log) : Out(log[i]) /\ log[i].id \in With("refused")})
  BY RefuseShape
<1>5. PICK p : Stem(log', log, L, p)
  BY <1>1, <1>4, StemOfKept
<1>6. \A i \in 1..Len(log) : log[i].id = e => log[i].seq \notin L
  BY <1>4 DEF Leaves
<1>7. ASSUME NEW i \in 1..Len(log), log[i].id = e
      PROVE  \E k \in 1..Len(log') : /\ log'[k].id = e /\ log'[k].destroy = log[i].destroy
                                     /\ Out(log[k])' = Out(log[i])
  BY <1>1, <1>3, <1>4, <1>6, <1>7, RowStays DEF Out
<1>8. ASSUME NEW k \in 1..Len(log'), log'[k].id = e
      PROVE  \E i \in 1..Len(log) : /\ log[i].id = e /\ log[i].destroy = log'[k].destroy
                                    /\ Out(log[k])' = Out(log[i])
  <2>1. p[k] \in 1..Len(log) /\ Descends(log'[k], log[p[k]])
    BY <1>1, <1>5, StemRows
  <2>2. log[p[k]].id = e /\ log[p[k]].destroy = log'[k].destroy /\ log[p[k]].seq = log'[k].seq
    BY <1>8, <2>1 DEF Descends
  <2>3. Out(log[k])' = Out(log[p[k]])
    BY <1>3, <2>2 DEF Out
  <2> QED
    BY <2>1, <2>2, <2>3
<1>9. KeepsChanges(log, L, e)
  BY <1>6 DEF KeepsChanges
<1> QED
  BY <1>5, <1>7, <1>8, <1>9

\* Every step keeps the answer true of what is out.
LEMMA AnsweredKept ==
    ASSUME Types, Ordered(log), Fitting, Answered, [Next]_vars
    PROVE  Answered'
<1>1. log \in Seq(Rows) /\ DOMAIN log = 1..Len(log) /\ log' \in Seq(Rows)
  BY LogKept DEF Types
<1>2. SUFFICES ASSUME worker'.phase \in {"answered", "settle"}
               PROVE  Answered'
  BY DEF Answered
<1>3. CASE AskEmails
  <2>1. worker'.phase = "land"
    BY <1>3 DEF AskEmails, Types
  <2> QED
    BY <1>2, <2>1
<1>4. CASE Send
  BY <1>2, <1>4, SendShape DEF Flushed, Idle
<1>5. CASE Serve
  <2>1. PICK taken : Serves(taken)
    BY <1>5, ServeShape
  <2>2. log' = log /\ worker' = [worker EXCEPT !.phase = "answered", !.verdict = worker'.verdict]
    BY <2>1 DEF Serves
  <2>3. worker'.sent = worker.sent
    BY <2>2 DEF Types
  <2>4. SentIds' = SentIds /\ \A e : Destroying(e)' <=> Destroying(e)
    BY <2>2, <2>3 DEF SentIds, Destroying, Out
  <2>5. /\ taken \subseteq SentIds
        /\ \A e \in With("took")' : e \in taken /\ ~Destroying(e)
        /\ \A e \in With("gone")' : Destroying(e) /\ server'[e] = Gone
        /\ With("refused")' \subseteq SentIds
    BY <2>1 DEF Serves
  <2> QED
    BY <2>4, <2>5 DEF Answered
<1>6. CASE Refuse
  <2>1. /\ worker.phase = "answered" /\ worker'.phase = "settle" /\ server' = server
        /\ worker' = [worker EXCEPT !.phase = "settle"]
    BY <1>6, RefuseSays
  <2>2. worker'.verdict = worker.verdict
    BY <2>1 DEF Types
  <2>3. \A word : With(word)' = With(word)
    BY <2>2 DEF With
  <2>4. \A e : ~(e \in With("refused") /\ e \in With("took")) /\ ~(e \in With("refused") /\ e \in With("gone"))
    BY DEF With
  <2>5. DOMAIN log' = 1..Len(log')
    BY <1>1
  <2>6. ASSUME NEW e \in With("took") PROVE e \in SentIds' /\ ~Destroying(e)'
    <3>1. e \in SentIds /\ ~Destroying(e) /\ e \notin With("refused")
      BY <2>1, <2>4 DEF Answered
    <3>2. PICK i \in 1..Len(log) : log[i].id = e /\ Out(log[i])
      BY <1>1, <3>1, SentIdsType
    <3>3. PICK k \in 1..Len(log') : log'[k].id = e /\ Out(log[k])' = Out(log[i])
      BY <1>6, <3>1, <3>2, RefuseKeeps
    <3>4. e \in SentIds'
      BY <2>5, <3>2, <3>3 DEF SentIds
    <3>5. ASSUME NEW l \in 1..Len(log'), log'[l].id = e, log'[l].destroy, Out(log[l])' PROVE FALSE
      <4>1. \A n \in 1..Len(log') : log'[n].id = e =>
              \E j \in 1..Len(log) : /\ log[j].id = e /\ log[j].destroy = log'[n].destroy
                                     /\ Out(log[n])' = Out(log[j])
        BY <1>6, <3>1, RefuseKeeps
      <4>2. PICK j \in 1..Len(log) : /\ log[j].id = e /\ log[j].destroy = log'[l].destroy
                                     /\ Out(log[l])' = Out(log[j])
        BY <3>5, <4>1
      <4> QED
        BY <1>1, <3>1, <3>5, <4>2 DEF Destroying
    <3> QED
      BY <2>5, <3>4, <3>5 DEF Destroying
  <2>7. ASSUME NEW e \in With("gone") PROVE Destroying(e)' /\ server'[e] = Gone
    <3>1. Destroying(e) /\ server[e] = Gone /\ e \notin With("refused")
      BY <2>1, <2>4 DEF Answered
    <3>2. PICK i \in 1..Len(log) : log[i].id = e /\ log[i].destroy /\ Out(log[i])
      BY <1>1, <3>1 DEF Destroying
    <3>3. PICK k \in 1..Len(log') : /\ log'[k].id = e /\ log'[k].destroy = log[i].destroy
                                    /\ Out(log[k])' = Out(log[i])
      <4>1. \A j \in 1..Len(log) : log[j].id = e =>
              \E k \in 1..Len(log') : /\ log'[k].id = e /\ log'[k].destroy = log[j].destroy
                                      /\ Out(log[k])' = Out(log[j])
        BY <1>6, <3>1, RefuseKeeps
      <4> QED
        BY <3>2, <4>1
    <3> QED
      BY <2>1, <2>5, <3>1, <3>2, <3>3 DEF Destroying
  <2> QED
    BY <2>1, <2>3, <2>6, <2>7 DEF Answered
<1>7. CASE Meddle
  <2>1. PICK x, patch : Meddles(x, patch)
    BY <1>7, MeddleShape
  <2>2. /\ log' = log /\ worker' = [worker EXCEPT !.fresh = worker'.fresh]
        /\ server[x] # Gone /\ \A e \in Emails \ {x} : server'[e] = server[e]
    BY <2>1 DEF Meddles
  <2>3. worker'.sent = worker.sent /\ worker'.phase = worker.phase /\ worker'.verdict = worker.verdict
    BY <2>2 DEF Types
  <2>4. SentIds' = SentIds /\ \A e : Destroying(e)' <=> Destroying(e)
    BY <2>2, <2>3 DEF SentIds, Destroying, Out
  <2>5. \A word : With(word)' = With(word)
    BY <2>3 DEF With
  <2>6. ASSUME NEW e \in With("gone") PROVE Destroying(e)' /\ server'[e] = Gone
    <3>1. Destroying(e) /\ server[e] = Gone
      BY <1>2, <2>3 DEF Answered
    <3>2. e \in Emails
      BY <1>1, <3>1, RowType DEF Destroying
    <3> QED
      BY <2>2, <2>4, <3>1, <3>2
  <2> QED
    BY <1>2, <2>3, <2>4, <2>5, <2>6 DEF Answered
<1>8. CASE UNCHANGED <<worker, log, server, owed, unseen, stored>>
  <2>1. SentIds' = SentIds /\ \A e : Destroying(e)' <=> Destroying(e)
    BY <1>8 DEF SentIds, Destroying, Out
  <2>2. \A word : With(word)' = With(word)
    BY <1>8 DEF With
  <2> QED
    BY <1>2, <1>8, <2>1, <2>2 DEF Answered
<1> QED
  BY <1>2, <1>3, <1>4, <1>5, <1>6, <1>7, <1>8, Busy

\* Every step keeps what lands close to the server.
LEMMA LandingKept ==
    ASSUME Types, Ordered(log), Landing, [Next]_vars
    PROVE  Landing'
<1>1. SUFFICES ASSUME worker'.phase = "land" PROVE Landing'
  BY DEF Landing
<1>2. CASE AskEmails
  <2>1. server' = server
    BY <1>2 DEF AskEmails
  <2> QED
    BY <1>2, <2>1, AskSays DEF Landing
<1>3. CASE Send
  BY <1>1, <1>3, SendShape DEF Flushed, Idle
<1>4. CASE Serve
  <2>1. worker'.phase = "answered"
    BY <1>4 DEF Serve, Types
  <2> QED
    BY <1>1, <2>1
<1>5. CASE Refuse
  BY <1>1, <1>5, RefuseSays
<1>6. CASE Meddle
  <2>1. PICK x, patch : Meddles(x, patch)
    BY <1>6, MeddleShape
  <2>2. /\ worker' = [worker EXCEPT !.fresh = worker'.fresh]
        /\ x \in Emails /\ patch \in Patches /\ server[x] # Gone
        /\ server'[x] = Gone \/ server'[x] = Patched(server[x], patch)
        /\ unseen'[x] = unseen[x] \cup DOMAIN patch
        /\ \A e \in Emails \ {x} : server'[e] = server[e] /\ unseen'[e] = unseen[e]
    BY <2>1 DEF Meddles
  <2>3. worker'.phase = worker.phase /\ worker'.emails = worker.emails
    BY <2>2 DEF Types
  <2>4. DOMAIN worker.emails \subseteq Emails /\ server[x] \in States
    BY <1>1, <2>2, <2>3 DEF Types
  <2>5. ASSUME NEW e \in DOMAIN worker.emails
        PROVE  /\ worker.emails[e] = Gone => server'[e] = Gone
               /\ server'[e] # Gone =>
                    \A m \in Members : (m \in server'[e]) # (m \in worker.emails[e]) => m \in unseen'[e]
    <3>1. /\ worker.emails[e] = Gone => server[e] = Gone
          /\ server[e] # Gone =>
               \A m \in Members : (m \in server[e]) # (m \in worker.emails[e]) => m \in unseen[e]
      BY <1>1, <2>3 DEF Landing
    <3>2. CASE e # x
      BY <2>2, <2>4, <3>1, <3>2
    <3>3. CASE e = x
      <4>1. worker.emails[e] # Gone
        BY <2>2, <3>1, <3>3
      <4>2. ASSUME server'[e] # Gone, NEW m \in Members, (m \in server'[e]) # (m \in worker.emails[e])
            PROVE  m \in unseen'[e]
        <5>1. CASE m \in DOMAIN patch
          BY <5>1, <2>2, <3>3
        <5>2. CASE m \notin DOMAIN patch
          <6>1. m \in server'[e] <=> m \in server[e]
            BY <5>2, <4>2, <2>2, <2>4, <3>3, PatchedSays
          <6> QED
            BY <6>1, <4>2, <3>1, <3>3, <2>2
        <5> QED
          BY <5>1, <5>2
      <4> QED
        BY <4>1, <4>2
    <3> QED
      BY <3>2, <3>3
  <2> QED
    BY <2>3, <2>5 DEF Landing
<1>7. CASE UNCHANGED <<worker, log, server, owed, unseen, stored>>
  BY <1>1, <1>7 DEF Landing
<1> QED
  BY <1>1, <1>2, <1>3, <1>4, <1>5, <1>6, <1>7, Busy

\* What is out of an email that is not destroyed is every change of it.
LEMMA TakenSent ==
    ASSUME Types, Ordered(log), Outgoing, worker.phase \in {"out", "answered", "settle"},
           NEW e \in SentIds, ~Destroying(e)
    PROVE  Sent(e) = PatchesOf(e)
<1>1. log \in Seq(Rows) /\ DOMAIN log = 1..Len(log)
  BY DEF Types
<1>2. ASSUME NEW i \in 1..Len(log), log[i].id = e PROVE Out(log[i]) <=> ~log[i].destroy
  <2>1. Out(log[i]) => ~log[i].destroy
    BY <1>1, <1>2 DEF Destroying
  <2>2. ~log[i].destroy => ~log[i].held
    BY DEF Ordered
  <2>3. Out(log[i]) \/ log[i].held
    BY <1>2 DEF Outgoing
  <2> QED
    BY <2>1, <2>2, <2>3
<1> QED
  BY <1>1, <1>2, SentIsPatches

\* What the server has of an email it took.
LEMMA TakenSays ==
    ASSUME Types, Ordered(log), Outgoing, NEW taken, Serves(taken), NEW e \in taken, ~Destroying(e),
           NEW m
    PROVE  /\ e \in Emails
           /\ m \in DOMAIN owed'[e] <=> m \in DOMAIN owed[e] /\ Naming(log, e, m) = {}
           /\ m \in DOMAIN owed'[e] => owed'[e][m] = owed[e][m]
           /\ \A v \in BOOLEAN : LastSays(log, e, m, v) => (m \in server'[e]) = v
           /\ m \in Members /\ Naming(log, e, m) = {} => (m \in server'[e]) = (m \in server[e])
<1>1. log \in Seq(Rows) /\ server \in [Emails -> States] /\ owed \in [Emails -> Patches]
  BY DEF Types
<1>2. worker.phase = "out" /\ e \in SentIds
  BY DEF Serves
<1>3. e \in Emails
  BY <1>1, <1>2, SentIdsType
<1> DEFINE q == Merged(PatchesOf(e))
<1>4. server'[e] = Patched(server[e], q) /\ owed'[e] = Disowed(e, q)
  <2>1. Sent(e) = PatchesOf(e)
    BY <1>2, TakenSent
  <2> QED
    BY <1>3, <2>1 DEF Serves
<1>5. /\ q \in Patches
      /\ m \in DOMAIN q <=> Naming(log, e, m) # {}
      /\ m \in DOMAIN q => LastSays(log, e, m, q[m])
  BY <1>1, PatchesSay
<1> HIDE DEF q
<1>6. server[e] \in States
  BY <1>1, <1>3
<1>7. /\ m \in DOMAIN q => (m \in server'[e] <=> q[m])
      /\ m \in Members \ DOMAIN q => (m \in server'[e] <=> m \in server[e])
  <2> HIDE DEF Patches
  <2> QED
    BY <1>4, <1>5, <1>6, PatchedSays
<1>8. /\ DOMAIN owed'[e] = DOMAIN owed[e] \ DOMAIN q
      /\ \A n \in DOMAIN owed[e] \ DOMAIN q : owed'[e][n] = owed[e][n]
  <2>1. /\ DOMAIN Disowed(e, q) = DOMAIN owed[e] \ DOMAIN q
        /\ \A n \in DOMAIN owed[e] \ DOMAIN q : Disowed(e, q)[n] = owed[e][n]
    BY <1>1, <1>3, DisowedSays
  <2> QED
    BY <1>4, <2>1
<1>9. ASSUME NEW v \in BOOLEAN, LastSays(log, e, m, v) PROVE (m \in server'[e]) = v
  <2>1. Naming(log, e, m) # {}
    BY <1>9 DEF LastSays
  <2>2. LastSays(log, e, m, q[m]) /\ m \in DOMAIN q
    BY <1>5, <2>1
  <2>3. q[m] = v
    BY <1>1, <1>9, <2>2, LastSaysOnce
  <2> QED
    BY <1>7, <2>2, <2>3
<1>10. m \in Members /\ Naming(log, e, m) = {} => (m \in server'[e]) = (m \in server[e])
  BY <1>5, <1>7
<1>11. /\ m \in DOMAIN owed'[e] <=> m \in DOMAIN owed[e] /\ Naming(log, e, m) = {}
       /\ m \in DOMAIN owed'[e] => owed'[e][m] = owed[e][m]
  BY <1>5, <1>8
<1> QED
  BY <1>3, <1>9, <1>10, <1>11

\* What another client wrote to an email is unseen and no longer owed.
LEMMA MeddledSays ==
    ASSUME Types, NEW x, NEW patch, Meddles(x, patch), NEW e \in Emails, server'[e] # Gone
    PROVE  /\ server[e] # Gone
           /\ unseen[e] \subseteq unseen'[e]
           /\ DOMAIN owed'[e] \subseteq DOMAIN owed[e]
           /\ \A m \in DOMAIN owed'[e] : owed'[e][m] = owed[e][m]
           /\ \A m \in Members : (m \in server'[e]) # (m \in server[e]) =>
                m \in unseen'[e] /\ m \notin DOMAIN owed'[e]
           /\ DOMAIN owed[e] \cap unseen[e] = {} => DOMAIN owed'[e] \cap unseen'[e] = {}
<1>1. /\ x \in Emails /\ patch \in Patches /\ server[x] # Gone
      /\ server'[x] = Gone \/ server'[x] = Patched(server[x], patch)
      /\ server'[x] # Gone => owed'[x] = Disowed(x, patch)
      /\ unseen'[x] = unseen[x] \cup DOMAIN patch
      /\ \A y \in Emails \ {x} : server'[y] = server[y] /\ owed'[y] = owed[y] /\ unseen'[y] = unseen[y]
  BY DEF Meddles
<1>2. CASE e # x
  BY <1>1, <1>2
<1>3. CASE e = x
  <2>1. server'[e] = Patched(server[e], patch) /\ owed'[e] = Disowed(e, patch) /\ server[e] # Gone
        /\ unseen'[e] = unseen[e] \cup DOMAIN patch
    BY <1>1, <1>3
  <2>2. owed \in [Emails -> Patches] /\ server[e] \in States
    BY DEF Types
  <2>3. /\ DOMAIN owed'[e] = DOMAIN owed[e] \ DOMAIN patch
        /\ \A m \in DOMAIN owed[e] \ DOMAIN patch : owed'[e][m] = owed[e][m]
    <3>1. /\ DOMAIN Disowed(e, patch) = DOMAIN owed[e] \ DOMAIN patch
          /\ \A m \in DOMAIN owed[e] \ DOMAIN patch : Disowed(e, patch)[m] = owed[e][m]
      BY <2>2, DisowedSays
    <3> QED
      BY <2>1, <3>1
  <2>4. \A m \in Members \ DOMAIN patch : m \in server'[e] <=> m \in server[e]
    BY <1>1, <2>1, <2>2, PatchedSays
  <2> QED
    BY <2>1, <2>3, <2>4
<1> QED
  BY <1>2, <1>3

\* Every step keeps what was taken on the server.
LEMMA TookKept ==
    ASSUME Types, Ordered(log), Fitting, Outgoing, Answered, Took, [Next]_vars
    PROVE  Took'
<1>1. log \in Seq(Rows) /\ DOMAIN log = 1..Len(log)
  BY DEF Types
<1>2. SUFFICES ASSUME worker'.phase \in {"answered", "settle"},
                      NEW e \in With("took")', server'[e] # Gone, NEW m \in Members, NEW v \in BOOLEAN,
                      LastSays(log', e, m, v)
               PROVE  m \notin DOMAIN owed'[e] /\ (m \in unseen'[e] \/ (m \in server'[e]) = v)
  BY DEF Took
<1>3. CASE AskEmails
  <2>1. worker'.phase = "land"
    BY <1>3 DEF AskEmails, Types
  <2> QED
    BY <1>2, <2>1
<1>4. CASE Send
  BY <1>2, <1>4, SendShape DEF Flushed, Idle
<1>5. CASE Serve
  <2>1. PICK taken : Serves(taken)
    BY <1>5, ServeShape
  <2>2. log' = log /\ e \in taken /\ ~Destroying(e)
    BY <2>1 DEF Serves
  <2>3. LastSays(log, e, m, v)
    BY <1>2, <2>2
  <2>4. Naming(log, e, m) # {}
    BY <2>3 DEF LastSays
  <2> QED
    BY <2>1, <2>2, <2>3, <2>4, TakenSays
<1>6. ASSUME worker.phase \in {"answered", "settle"}, e \in With("took"), server[e] # Gone,
             LastSays(log, e, m, v)
      PROVE  m \notin DOMAIN owed[e] /\ (m \in unseen[e] \/ (m \in server[e]) = v)
  BY <1>6 DEF Took
<1>7. CASE Refuse
  <2>1. /\ worker.phase = "answered" /\ server' = server
        /\ worker' = [worker EXCEPT !.phase = "settle"]
    BY <1>7, RefuseSays
  <2>2. worker'.verdict = worker.verdict
    BY <2>1 DEF Types
  <2>3. e \in With("took") /\ e \notin With("refused")
    BY <2>2 DEF With
  <2>4. e \in Emails
    BY <1>1, <2>1, <2>3, SentIdsType DEF Answered
  <2>5. owed'[e] = owed[e] /\ unseen'[e] = unseen[e]
    BY <1>7, <2>3, <2>4, RefuseSays
  <2>6. \E L, p : Stem(log', log, L, p) /\ KeepsChanges(log, L, e)
    BY <1>7, <2>3, RefuseKeeps
  <2>7. LastSays(log, e, m, v)
    BY <1>1, <1>2, <2>6, StemSays
  <2> QED
    BY <1>2, <1>6, <2>1, <2>3, <2>5, <2>7
<1>8. CASE Meddle
  <2>1. PICK x, patch : Meddles(x, patch)
    BY <1>8, MeddleShape
  <2>2. log' = log /\ worker' = [worker EXCEPT !.fresh = worker'.fresh]
    BY <2>1 DEF Meddles
  <2>3. worker'.phase = worker.phase /\ worker'.verdict = worker.verdict
    BY <2>2 DEF Types
  <2>4. e \in With("took")
    BY <2>3 DEF With
  <2>5. e \in Emails
    BY <1>1, <1>2, <2>3, <2>4, SentIdsType DEF Answered
  <2>6. /\ server[e] # Gone /\ unseen[e] \subseteq unseen'[e]
        /\ DOMAIN owed'[e] \subseteq DOMAIN owed[e]
        /\ (m \in server'[e]) # (m \in server[e]) => m \in unseen'[e]
    BY <1>2, <2>1, <2>5, MeddledSays
  <2>7. m \notin DOMAIN owed[e] /\ (m \in unseen[e] \/ (m \in server[e]) = v)
    BY <1>2, <1>6, <2>2, <2>3, <2>4, <2>6
  <2> QED
    BY <2>6, <2>7
<1>9. CASE UNCHANGED <<worker, log, server, owed, unseen, stored>>
  <2>1. e \in With("took")
    BY <1>9 DEF With
  <2> QED
    BY <1>2, <1>6, <1>9, <2>1
<1> QED
  BY <1>2, <1>3, <1>4, <1>5, <1>7, <1>8, <1>9, Busy

-----------------------------------------------------------------------------
(* The invariant is kept: the rows fit *)

\* What is out of an email comes before what is held.
LEMMA SentFirst ==
    ASSUME Types, Ordered(log), Outgoing, worker.phase \in {"out", "answered", "settle"},
           NEW e \in SentIds, NEW rest \in Seq(Rows),
           Picks(rest, log, {i \in Of(log, e) : ~Out(log[i])})
    PROVE  RowsOf(log, e) = Sent(e) \o rest
<1> DEFINE A == {i \in 1..Len(log) : log[i].id = e /\ Out(log[i])}
           B == {i \in Of(log, e) : ~Out(log[i])}
<1>1. log \in Seq(Rows) /\ Len(log) \in Nat
  BY DEF Types
<1>2. A \in SUBSET (1..Len(log)) /\ B \in SUBSET (1..Len(log)) /\ A \cup B = Of(log, e)
      /\ Of(log, e) \in SUBSET (1..Len(log))
  BY DEF Of
<1>3. ASSUME NEW a \in A, NEW b \in B PROVE a < b
  <2>1. a \in 1..Len(log) /\ log[a].id = e /\ Out(log[a])
    OBVIOUS
  <2>2. b \in 1..Len(log) /\ log[b].id = e /\ ~Out(log[b])
    BY DEF Of
  <2>3. log[b].held
    BY <2>2 DEF Outgoing
  <2>4. log[b].destroy
    BY <2>2, <2>3 DEF Ordered
  <2>5. ~(b < a)
    BY <2>1, <2>2, <2>4 DEF Ordered
  <2>6. a # b
    BY <2>1, <2>2
  <2>7. a \in Nat /\ b \in Nat
    BY <2>1, <2>2
  <2> QED
    BY <2>5, <2>6, <2>7
<1>4. Sent(e) \in Seq(Rows) /\ Picks(Sent(e), log, A)
  BY <1>1, SentPicks
<1>5. Picks(RowsOf(log, e), log, Of(log, e))
  BY <1>1, RowsOfPicks DEF Of
<1>6. Picks(rest, log, B)
  OBVIOUS
<1> HIDE DEF A, B, Rows
<1>7. Picks(Sent(e) \o rest, log, A \cup B)
  BY <1>1, <1>2, <1>3, <1>4, <1>6, PicksConcat
<1> DEFINE s == Sent(e) \o rest
           t == RowsOf(log, e)
           O == Of(log, e)
<1>8. Picks(s, log, O) /\ Picks(t, log, O) /\ O \in SUBSET (1..Len(log))
  BY <1>2, <1>5, <1>7
<1> HIDE DEF s, t, O
<1>9. s = t
  BY <1>1, <1>8, PicksUnique
<1> QED
  BY <1>9 DEF s, t

\* An email whose changes were taken: what is left fits what the server
\* says now.
LEMMA SettledFits ==
    ASSUME Types, Ordered(log), Fitting, Outgoing, Answered, Settle,
           NEW e \in With("took"), e \in stored
    PROVE  Fits(said'[e], RowsOf(log', e), header'[e])
<1>1. log \in Seq(Rows) /\ e \in Emails
  BY DEF Types
<1>2. worker.phase = "settle" /\ header' = header
      /\ said'[e] = Patched(said[e], Merged(Sent(e)))
  BY <1>1, SettleSays
<1>3. e \in SentIds /\ e \notin With("gone")
  BY <1>2 DEF Answered, With
<1>4. PICK L : /\ log' = Without(log, L)
               /\ Leaves(L, {i \in 1..Len(log) : \/ Out(log[i]) /\ log[i].id \in With("took")
                                                 \/ log[i].id \in With("gone")})
  BY SettleShape
<1> DEFINE rest == RowsOf(log', e)
<1>5. rest \in Seq(Rows) /\ Picks(rest, log, {i \in Of(log, e) : log[i].seq \notin L})
  BY <1>1, <1>4, RowsOfWithout
<1>6. {i \in Of(log, e) : log[i].seq \notin L} = {i \in Of(log, e) : ~Out(log[i])}
  <2>1. \A i \in Of(log, e) : log[i].seq \in L <=> Out(log[i])
    BY <1>3, <1>4 DEF Of, Leaves
  <2> QED
    BY <2>1
<1> HIDE DEF rest
<1>7. Picks(rest, log, {i \in Of(log, e) : ~Out(log[i])})
  BY <1>5, <1>6
<1>8. RowsOf(log, e) = Sent(e) \o rest
  BY <1>2, <1>3, <1>5, <1>7, SentFirst
<1>9. Fits(said[e], Sent(e) \o rest, header[e])
  BY <1>8 DEF Fitting
<1>10. Sent(e) \in Seq(Rows)
  BY <1>1, SentPicks
<1>11. PICK mid : Fits(said[e], Sent(e), mid) /\ Fits(mid, rest, header[e])
  BY <1>5, <1>9, <1>10, FitsConcat
<1>12. mid = Patched(said[e], Merged(Sent(e)))
  BY <1>10, <1>11, FitsMerged
<1> QED
  BY <1>2, <1>11, <1>12 DEF rest

\* A row logged on the header of its email.
LEMMA LoggedFits ==
    ASSUME Types, Fitting, NEW e \in Emails, e \in stored, NEW patch \in Patches, NEW destroy, NEW lease,
           NEW row, Logs(row, e, patch, destroy, lease),
           header' = [header EXCEPT ![e] = Patched(@, patch)], said' = said, stored' = stored
    PROVE  Fitting'
<1>1. \A x : RowsOf(log', x) = IF x = e THEN Append(RowsOf(log, x), row) ELSE RowsOf(log, x)
  BY LogsSay
<1>2. row \in Rows /\ row.patch = patch /\ row.inverse = InverseOf(header[e], patch)
  BY DEF Logs
<1>3. RowsOf(log, e) \in Seq(Rows) /\ Fits(said[e], RowsOf(log, e), header[e])
  BY RowsOfPicks DEF Types, Fitting
<1>4. Fits(said[e], Append(RowsOf(log, e), row), Patched(header[e], patch))
  <2>1. row.inverse = InverseOf(header[e], row.patch)
    BY <1>2
  <2>2. Fits(said[e], Append(RowsOf(log, e), row), Patched(header[e], row.patch))
    <3> HIDE DEF Rows
    <3> QED
      BY <1>2, <1>3, <2>1, FitsAppend
  <2> QED
    BY <1>2, <2>2
<1>5. header'[e] = Patched(header[e], patch) /\ \A x \in Emails \ {e} : header'[x] = header[x]
  BY DEF Types
<1>6. stored \in SUBSET Emails
  BY DEF Types
<1>7. ASSUME NEW x \in stored PROVE Fits(said[x], RowsOf(log', x), header'[x])
  <2>1. CASE x = e
    BY <2>1, <1>1, <1>4, <1>5
  <2>2. CASE x # e
    BY <2>2, <1>1, <1>5, <1>6 DEF Fitting
  <2> QED
    BY <2>1, <2>2
<1> QED
  BY <1>7 DEF Fitting

\* Every step keeps the rows fitting.
LEMMA FittingKept ==
    ASSUME Types, Ordered(log), Fitting, Outgoing, Answered, [Next]_vars
    PROVE  Fitting'
<1>1. log \in Seq(Rows) /\ stored \in SUBSET Emails /\ said \in [Emails -> States]
  BY DEF Types
<1>2. CASE Change
  <2>1. PICK e, patch, row : Changes(e, patch, row)
    BY <1>2, ChangeShape
  <2>2. PICK t \in Tabs : Logs(row, e, patch, FALSE, t)
    BY <2>1 DEF Changes
  <2>3. /\ e \in Emails /\ e \in stored /\ patch \in Patches /\ said' = said /\ stored' = stored
        /\ header' = [header EXCEPT ![e] = Patched(@, patch)]
    BY <2>1 DEF Changes
  <2>4. \E destroy : Logs(row, e, patch, destroy, t)
    BY <2>2
  <2> QED
    BY <2>3, <2>4, LoggedFits
<1>3. CASE Destroy
  <2>1. PICK e, patch, t, row : Destroys(e, patch, t, row)
    BY <1>3, DestroyShape
  <2>2. Logs(row, e, patch, TRUE, t)
    BY <2>1 DEF Destroys
  <2>3. /\ e \in Emails /\ e \in stored /\ patch \in Patches /\ said' = said /\ stored' = stored
        /\ header' = [header EXCEPT ![e] = Patched(@, patch)]
    BY <2>1 DEF Destroys
  <2>4. \E destroy : Logs(row, e, patch, destroy, t)
    BY <2>2
  <2> QED
    BY <2>3, <2>4, LoggedFits
<1>4. ASSUME Flags(log', log), Bystands PROVE Fitting'
  <2>1. ASSUME NEW e \in stored PROVE Fits(said[e], RowsOf(log', e), header[e])
    BY <1>1, <1>4, FlagsFit DEF Fitting
  <2> QED
    BY <1>4, <2>1 DEF Fitting, Bystands
<1>5. CASE Release
  BY <1>4, <1>5, ReleaseShape, BystandsSay DEF Releases
<1>6. CASE Flush
  BY <1>4, <1>6, FlushShape, BystandsSay
<1>7. CASE Send
  BY <1>4, <1>7, SendShape, BystandsSay
<1>8. CASE \/ Meddle \/ Serve \/ LeaseLost \/ NoAnswer \/ AskMailboxes \/ AskEmails \/ Crash
           \/ UNCHANGED vars
  <2>1. UNCHANGED <<log, header, said, stored>>
    BY <1>8 DEF Meddle, Serve, LeaseLost, NoAnswer, AskMailboxes, AskEmails, Crash, vars, history
  <2> QED
    BY <2>1 DEF Fitting
<1>9. CASE Drop
  <2>1. \A e \in stored : Fits(said[e], RowsOf(log', e), header'[e])
    BY <1>9, DropShape DEF Drops
  <2>2. said' = said /\ stored' = stored
    BY <1>9 DEF Drop, history
  <2> QED
    BY <2>1, <2>2 DEF Fitting
<1>10. CASE Refuse
  <2>1. \A e \in stored : Fits(said[e], RowsOf(log', e), header'[e])
    BY <1>10, RefuseShape
  <2>2. said' = said /\ stored' = stored
    BY <1>10, RefuseSays
  <2> QED
    BY <2>1, <2>2 DEF Fitting
<1>11. CASE Cancel
  <2>1. PICK L : /\ log' = Without(log, L)
                 /\ Leaves(L, {i \in 1..Len(log) : log[i].id \in Canceled})
    BY <1>11, CancelShape
  <2>2. Bystands
    BY <1>11, BystandsSay
  <2>3. ASSUME NEW e \in stored PROVE Fits(said[e], RowsOf(log', e), header[e])
    <3>1. RowsOf(log, e) \in Seq(Rows) /\ Fits(said[e], RowsOf(log, e), header[e])
      BY <1>1, RowsOfPicks DEF Fitting
    <3>2. CASE e \in Canceled
      <4>1. \A i \in Of(log, e) : log[i].seq \in L
        BY <2>1, <3>2 DEF Leaves, Of
      <4>2. RowsOf(log', e) = <<>>
        BY <1>1, <2>1, <4>1, RowsOfLeaving
      <4>3. EndsWhereFound(RowsOf(log, e))
        BY <3>2 DEF Canceled, Cancels
      <4>4. said[e] = header[e]
        BY <3>1, <4>3, FitsCancels
      <4>5. said[e] \in States
        BY <1>1
      <4> QED
        BY <4>2, <4>4, <4>5, FitsNone
    <3>3. CASE e \notin Canceled
      <4>1. \A i \in Of(log, e) : log[i].seq \notin L
        BY <2>1, <3>3 DEF Leaves, Of
      <4>2. RowsOf(log', e) = RowsOf(log, e)
        BY <1>1, <2>1, <4>1, RowsOfStaying
      <4> QED
        BY <3>1, <4>2
    <3> QED
      BY <3>2, <3>3
  <2> QED
    BY <2>2, <2>3 DEF Fitting, Bystands
<1>12. CASE Settle
  <2>1. PICK L : /\ log' = Without(log, L)
                 /\ Leaves(L, {i \in 1..Len(log) : \/ Out(log[i]) /\ log[i].id \in With("took")
                                                   \/ log[i].id \in With("gone")})
    BY <1>12, SettleShape
  <2>2. /\ stored' = stored \ With("gone") /\ header' = header
        /\ \A e \in Emails \ With("took") : said'[e] = said[e]
    BY <1>12, SettleSays
  <2>3. ASSUME NEW e \in stored, e \notin With("gone") PROVE Fits(said'[e], RowsOf(log', e), header'[e])
    <3>1. CASE e \in With("took")
      BY <1>12, <3>1, SettledFits
    <3>2. CASE e \notin With("took")
      <4>1. \A i \in Of(log, e) : log[i].seq \notin L
        BY <2>1, <2>3, <3>2 DEF Leaves, Of
      <4>2. RowsOf(log', e) = RowsOf(log, e)
        BY <1>1, <2>1, <4>1, RowsOfStaying
      <4>3. said'[e] = said[e]
        BY <1>1, <2>2, <3>2
      <4> QED
        BY <2>2, <4>2, <4>3 DEF Fitting
    <3> QED
      BY <3>1, <3>2
  <2> QED
    BY <2>2, <2>3 DEF Fitting
<1>13. CASE Land
  <2>1. /\ \A e \in Landed : Fits(worker.emails[e], RowsOf(log', e), header'[e]) /\ said'[e] = worker.emails[e]
        /\ \A e \in Emails \ Landed : /\ RowsOf(log', e) = RowsOf(log, e)
                                      /\ header'[e] = header[e] /\ said'[e] = said[e]
        /\ stored' \in SUBSET stored
    BY <1>13, LandShape
  <2>2. ASSUME NEW e \in stored PROVE Fits(said'[e], RowsOf(log', e), header'[e])
    <3>1. CASE e \in Landed
      BY <2>1, <3>1
    <3>2. CASE e \notin Landed
      BY <1>1, <2>1, <3>2 DEF Fitting
    <3> QED
      BY <3>1, <3>2
  <2> QED
    BY <2>1, <2>2 DEF Fitting
<1>14. CASE Fetch
  <2>1. PICK e : Fetches(e)
    BY <1>14, FetchShape
  <2>2. /\ e \in Emails /\ Fits(server[e], RowsOf(log', e), header'[e])
        /\ \A x \in Emails \ {e} : RowsOf(log', x) = RowsOf(log, x) /\ header'[x] = header[x]
        /\ stored' = stored \cup {e} /\ said' = [said EXCEPT ![e] = server[e]]
    BY <2>1 DEF Fetches
  <2>3. said'[e] = server[e] /\ \A x \in Emails \ {e} : said'[x] = said[x]
    BY <1>1, <2>2
  <2>4. ASSUME NEW x \in stored' PROVE Fits(said'[x], RowsOf(log', x), header'[x])
    <3>1. CASE x = e
      BY <2>2, <2>3, <3>1
    <3>2. CASE x # e
      <4>1. x \in stored /\ x \in Emails \ {e}
        BY <1>1, <2>2, <3>2
      <4> QED
        BY <2>2, <2>3, <4>1 DEF Fitting
    <3> QED
      BY <3>1, <3>2
  <2> QED
    BY <2>4 DEF Fitting
<1> QED
  BY <1>2, <1>3, <1>5, <1>6, <1>7, <1>8, <1>9, <1>10, <1>11, <1>12, <1>13, <1>14
     DEF Next, User, Worker

-----------------------------------------------------------------------------
(* The invariant is kept: what is owed, and where the server differs *)

\* The changes of an email say what they said; what went out is there.
SaysAlike(e) ==
    \A m :
      /\ Naming(log', e, m) = {} <=> Naming(log, e, m) = {}
      /\ \A v : LastSays(log', e, m, v) <=> LastSays(log, e, m, v)
      /\ (\E i \in Naming(log, e, m) : log[i].sent) => \E i \in Naming(log', e, m) : log'[i].sent

\* No change of it leaves.
LEMMA StemAlike ==
    ASSUME log \in Seq(Rows), NEW L, NEW p, Stem(log', log, L, p), NEW e, KeepsChanges(log, L, e)
    PROVE  SaysAlike(e)
<1>1. ASSUME NEW m
      PROVE  /\ Naming(log', e, m) = {} <=> Naming(log, e, m) = {}
             /\ \A v : LastSays(log', e, m, v) <=> LastSays(log, e, m, v)
  <2> DEFINE new == log'
  <2>1. Stem(new, log, L, p)
    OBVIOUS
  <2> HIDE DEF new
  <2>2. /\ Naming(log, e, m) = {} => Naming(new, e, m) = {}
        /\ Naming(new, e, m) = {} => Naming(log, e, m) = {}
    BY <2>1, StemSays
  <2>3. \A v : LastSays(new, e, m, v) <=> LastSays(log, e, m, v)
    BY <2>1, StemSays
  <2> QED
    BY <2>2, <2>3 DEF new
<1>2. ASSUME NEW m, NEW i \in Naming(log, e, m), log[i].sent
      PROVE  \E k \in Naming(log', e, m) : log'[k].sent
  <2>1. PICK k \in Naming(log', e, m) : p[k] = i
    BY StemNaming
  <2>2. k \in 1..Len(log')
    BY DEF Naming
  <2>3. Descends(log'[k], log[i])
    BY <2>1, <2>2, StemRows
  <2> QED
    BY <1>2, <2>3 DEF Descends
<1> QED
  BY <1>1, <1>2 DEF SaysAlike

\* Refitted rows say what they said.
LEMMA SameAlike ==
    ASSUME log \in Seq(Rows), KeepsRows(log', log), NEW e
    PROVE  SaysAlike(e)
<1>1. PICK p : Stem(log', log, {}, p)
  BY StemOfRefit
<1>2. KeepsChanges(log, {}, e)
  BY DEF KeepsChanges
<1> QED
  BY <1>1, <1>2, StemAlike

\* Rows whose flags moved say what they said.
LEMMA FlagsAlike ==
    ASSUME log \in Seq(Rows), Flags(log', log), NEW e
    PROVE  SaysAlike(e)
<1>1. PICK p : Stem(log', log, {}, p)
  BY StemOfFlags
<1>2. KeepsChanges(log, {}, e)
  BY DEF KeepsChanges
<1> QED
  BY <1>1, <1>2, StemAlike

\* A row logged: it is the last word on what it names, and no other is.
LEMMA LoggedNames ==
    ASSUME Types, NEW x \in Emails, NEW patch, NEW destroy, NEW lease, NEW row,
           Logs(row, x, patch, destroy, lease), NEW e, NEW m
    PROVE  /\ \A i \in Naming(log, e, m) : i \in Naming(log', e, m) /\ log'[i] = log[i]
           /\ e # x \/ destroy \/ m \notin DOMAIN patch => Naming(log', e, m) = Naming(log, e, m)
           /\ e = x /\ ~destroy /\ m \in DOMAIN patch => LastSays(log', e, m, patch[m])
<1> DEFINE n == Len(log)
<1>1. log' \in Seq(Rows) /\ Len(log') = n + 1 /\ log'[n + 1] = row /\ \A i \in 1..n : log'[i] = log[i]
  BY LogsSay
<1>2. row.id = x /\ row.patch = patch /\ row.destroy = destroy
  BY DEF Logs
<1>3. n \in Nat
  BY DEF Types
<1>4. Naming(log, e, m) = {i \in 1..n : log[i].id = e /\ ~log[i].destroy /\ m \in DOMAIN log[i].patch}
      /\ Naming(log', e, m) = {i \in 1..(n + 1) : log'[i].id = e /\ ~log'[i].destroy /\ m \in DOMAIN log'[i].patch}
  BY <1>1 DEF Naming
<1> HIDE DEF n
<1>5. \A i \in 1..(n + 1) : i = n + 1 \/ i \in 1..n
  BY <1>3
<1>6. \A i \in 1..n : i \in 1..(n + 1) /\ i <= n + 1
  BY <1>3
<1>7. \A i \in Naming(log, e, m) : i \in Naming(log', e, m) /\ log'[i] = log[i]
  BY <1>1, <1>4, <1>6
<1>8. ASSUME e # x \/ destroy \/ m \notin DOMAIN patch
      PROVE  Naming(log', e, m) = Naming(log, e, m)
  BY <1>1, <1>2, <1>4, <1>5, <1>6, <1>8
<1>9. ASSUME e = x, ~destroy, m \in DOMAIN patch
      PROVE  LastSays(log', e, m, patch[m])
  <2>1. n + 1 \in Naming(log', e, m)
    BY <1>1, <1>2, <1>3, <1>4, <1>9
  <2>2. \A j \in Naming(log', e, m) : j <= n + 1
    BY <1>3, <1>4
  <2> QED
    BY <1>1, <1>2, <2>1, <2>2 DEF LastSays
<1> QED
  BY <1>7, <1>8, <1>9

\* A destroy, or a change of another email, says nothing of this one.
LEMMA LoggedAlike ==
    ASSUME Types, NEW x \in Emails, NEW patch, NEW destroy, NEW lease, NEW row,
           Logs(row, x, patch, destroy, lease), NEW e, e # x \/ destroy
    PROVE  SaysAlike(e)
<1>1. ASSUME NEW m
      PROVE  /\ Naming(log', e, m) = Naming(log, e, m)
             /\ \A i \in Naming(log, e, m) : log'[i] = log[i]
  BY LoggedNames
<1>2. ASSUME NEW m, NEW v PROVE LastSays(log', e, m, v) <=> LastSays(log, e, m, v)
  BY <1>1 DEF LastSays
<1>3. ASSUME NEW m, NEW i \in Naming(log, e, m), log[i].sent
      PROVE  \E k \in Naming(log', e, m) : log'[k].sent
  BY <1>1, <1>3
<1> QED
  BY <1>1, <1>2, <1>3 DEF SaysAlike

\* An email nothing was done to.
LEMMA MailAlike ==
    ASSUME NEW e, Mail(e), SaysAlike(e), e \in stored', server'[e] = server[e], said'[e] = said[e],
           owed'[e] = owed[e], unseen'[e] = unseen[e]
    PROVE  Mail(e)'
<1>1. DOMAIN owed[e] \cap unseen[e] = {}
  BY DEF Mail
<1>2. ASSUME NEW m \in DOMAIN owed[e]
      PROVE  \/ LastSays(log', e, m, owed[e][m])
             \/ Naming(log', e, m) = {} /\ (m \in server[e]) = owed[e][m]
  BY DEF Mail, SaysAlike
<1>3. ASSUME NEW m \in Members, (m \in server[e]) # (m \in said[e])
      PROVE  m \in unseen[e] \/ \E i \in Naming(log', e, m) : log'[i].sent
  BY <1>3 DEF Mail, SaysAlike
<1> QED
  BY <1>1, <1>2, <1>3 DEF Mail

\* The user changes it.
LEMMA MailChanged ==
    ASSUME Types, NEW e, NEW patch, NEW row, Changes(e, patch, row), Mail(e)
    PROVE  Mail(e)'
<1>1. /\ e \in Emails /\ patch \in Patches
      /\ owed' = [owed EXCEPT ![e] = Over(@, [m \in DOMAIN patch \ unseen[e] |-> patch[m]])]
      /\ UNCHANGED <<server, stored, said, unseen>>
  BY DEF Changes
<1>2. PICK t \in Tabs : Logs(row, e, patch, FALSE, t)
  BY DEF Changes
<1>3. \E destroy : Logs(row, e, patch, destroy, t) /\ ~destroy
  BY <1>2
<1>4. ASSUME NEW m
      PROVE  /\ \A i \in Naming(log, e, m) : i \in Naming(log', e, m) /\ log'[i] = log[i]
             /\ m \notin DOMAIN patch => Naming(log', e, m) = Naming(log, e, m)
             /\ m \in DOMAIN patch => LastSays(log', e, m, patch[m])
  BY <1>1, <1>3, LoggedNames
<1>5. /\ DOMAIN owed'[e] = DOMAIN owed[e] \cup (DOMAIN patch \ unseen[e])
      /\ \A m \in DOMAIN patch \ unseen[e] : owed'[e][m] = patch[m]
      /\ \A m \in DOMAIN owed[e] \ (DOMAIN patch \ unseen[e]) : owed'[e][m] = owed[e][m]
  <2> DEFINE new == Over(owed[e], [m \in DOMAIN patch \ unseen[e] |-> patch[m]])
  <2>1. owed'[e] = new
    BY <1>1 DEF Types
  <2>2. /\ DOMAIN new = DOMAIN owed[e] \cup (DOMAIN patch \ unseen[e])
        /\ \A m \in DOMAIN patch \ unseen[e] : new[m] = patch[m]
        /\ \A m \in DOMAIN owed[e] \ (DOMAIN patch \ unseen[e]) : new[m] = owed[e][m]
    <3> HIDE DEF Patches
    <3> QED
      BY <1>1, OwesSays
  <2> HIDE DEF new
  <2> QED
    BY <2>1, <2>2
<1>6. e \in stored /\ DOMAIN owed[e] \cap unseen[e] = {}
  BY DEF Mail
<1>7. e \in stored' /\ DOMAIN owed'[e] \cap unseen'[e] = {}
  BY <1>1, <1>5, <1>6
<1>8. ASSUME NEW m \in DOMAIN owed'[e]
      PROVE  \/ LastSays(log', e, m, owed'[e][m])
             \/ Naming(log', e, m) = {} /\ (m \in server'[e]) = owed'[e][m]
  <2>1. CASE m \in DOMAIN patch
    <3>1. m \notin unseen[e]
      BY <1>5, <1>6
    <3> QED
      BY <1>4, <1>5, <2>1, <3>1
  <2>2. CASE m \notin DOMAIN patch
    <3>1. m \in DOMAIN owed[e] /\ owed'[e][m] = owed[e][m]
      BY <1>5, <2>2
    <3>2. Naming(log', e, m) = Naming(log, e, m)
      BY <1>4, <2>2
    <3>3. CASE LastSays(log, e, m, owed[e][m])
      <4>1. LastSays(log', e, m, owed[e][m])
        BY <1>4, <3>2, <3>3 DEF LastSays
      <4> QED
        BY <3>1, <4>1
    <3>4. CASE Naming(log, e, m) = {} /\ (m \in server[e]) = owed[e][m]
      BY <1>1, <3>1, <3>2, <3>4
    <3> QED
      BY <3>1, <3>3, <3>4 DEF Mail
  <2> QED
    BY <2>1, <2>2
<1>9. ASSUME NEW m \in Members, (m \in server'[e]) # (m \in said'[e])
      PROVE  m \in unseen'[e] \/ \E i \in Naming(log', e, m) : log'[i].sent
  <2>1. m \in unseen[e] \/ \E i \in Naming(log, e, m) : log[i].sent
    BY <1>1, <1>9 DEF Mail
  <2> QED
    BY <1>1, <1>4, <2>1
<1> QED
  BY <1>7, <1>8, <1>9 DEF Mail

\* Another client writes.
LEMMA MailMeddled ==
    ASSUME Types, NEW x, NEW patch, Meddles(x, patch), NEW e \in Emails, server'[e] # Gone,
           server[e] # Gone => Mail(e)
    PROVE  Mail(e)'
<1>1. /\ server[e] # Gone
      /\ unseen[e] \subseteq unseen'[e]
      /\ DOMAIN owed'[e] \subseteq DOMAIN owed[e]
      /\ \A m \in DOMAIN owed'[e] : owed'[e][m] = owed[e][m]
      /\ \A m \in Members : (m \in server'[e]) # (m \in server[e]) =>
           m \in unseen'[e] /\ m \notin DOMAIN owed'[e]
      /\ DOMAIN owed[e] \cap unseen[e] = {} => DOMAIN owed'[e] \cap unseen'[e] = {}
  BY MeddledSays
<1>2. log' = log /\ stored' = stored /\ said' = said
  BY DEF Meddles
<1>3. Mail(e)
  BY <1>1
<1>4. e \in stored' /\ DOMAIN owed'[e] \cap unseen'[e] = {}
  BY <1>1, <1>2, <1>3 DEF Mail
<1>5. ASSUME NEW m \in DOMAIN owed'[e]
      PROVE  \/ LastSays(log', e, m, owed'[e][m])
             \/ Naming(log', e, m) = {} /\ (m \in server'[e]) = owed'[e][m]
  <2>1. m \in DOMAIN owed[e] /\ owed'[e][m] = owed[e][m]
    BY <1>1
  <2>2. m \in Members
    <3>1. owed[e] \in Patches
      BY DEF Types
    <3> QED
      BY <2>1, <3>1, PatchType
  <2>3. m \in server'[e] <=> m \in server[e]
    BY <1>1, <2>2
  <2>4. \/ LastSays(log, e, m, owed[e][m])
        \/ Naming(log, e, m) = {} /\ (m \in server[e]) = owed[e][m]
    BY <1>3, <2>1 DEF Mail
  <2> QED
    BY <1>2, <2>1, <2>3, <2>4
<1>6. ASSUME NEW m \in Members, (m \in server'[e]) # (m \in said'[e])
      PROVE  m \in unseen'[e] \/ \E i \in Naming(log', e, m) : log'[i].sent
  <2>1. CASE (m \in server'[e]) # (m \in server[e])
    BY <1>1, <2>1
  <2>2. CASE (m \in server'[e]) = (m \in server[e])
    <3>1. m \in unseen[e] \/ \E i \in Naming(log, e, m) : log[i].sent
      BY <1>2, <1>3, <1>6, <2>2 DEF Mail
    <3> QED
      BY <1>1, <1>2, <3>1
  <2> QED
    BY <2>1, <2>2
<1> QED
  BY <1>4, <1>5, <1>6 DEF Mail

\* The changes of an email that is out are out, and marked.
LEMMA NamedOut ==
    ASSUME Types, Ordered(log), Outgoing, worker.phase \in {"out", "answered", "settle"},
           NEW e \in SentIds, NEW m, NEW i \in Naming(log, e, m)
    PROVE  i \in 1..Len(log) /\ log[i].id = e /\ Out(log[i]) /\ log[i].sent
<1>1. i \in 1..Len(log) /\ log[i].id = e /\ ~log[i].destroy
  BY DEF Naming
<1>2. ~log[i].held
  BY <1>1 DEF Ordered
<1>3. Out(log[i])
  BY <1>1, <1>2 DEF Outgoing
<1> QED
  BY <1>1, <1>3 DEF Outgoing

\* The server takes what is out.
LEMMA MailTaken ==
    ASSUME Types, Ordered(log), Outgoing, NEW taken, Serves(taken), NEW e \in taken,
           ~Destroying(e), Mail(e)
    PROVE  Mail(e)'
<1>1. worker.phase = "out" /\ e \in SentIds /\ UNCHANGED <<stored, log, said, unseen>>
  BY DEF Serves
<1>2. ASSUME NEW m
      PROVE  /\ e \in Emails
             /\ m \in DOMAIN owed'[e] <=> m \in DOMAIN owed[e] /\ Naming(log, e, m) = {}
             /\ m \in DOMAIN owed'[e] => owed'[e][m] = owed[e][m]
             /\ m \in Members /\ Naming(log, e, m) = {} => (m \in server'[e]) = (m \in server[e])
  BY TakenSays
<1>3. e \in stored' /\ DOMAIN owed'[e] \cap unseen'[e] = {}
  BY <1>1, <1>2 DEF Mail
<1>4. ASSUME NEW m \in DOMAIN owed'[e]
      PROVE  \/ LastSays(log', e, m, owed'[e][m])
             \/ Naming(log', e, m) = {} /\ (m \in server'[e]) = owed'[e][m]
  <2>1. m \in DOMAIN owed[e] /\ Naming(log, e, m) = {} /\ owed'[e][m] = owed[e][m] /\ e \in Emails
    BY <1>2
  <2>2. m \in Members
    <3>1. owed[e] \in Patches
      BY <2>1 DEF Types
    <3> QED
      BY <2>1, <3>1, PatchType
  <2>3. (m \in server'[e]) = (m \in server[e])
    BY <1>2, <2>1, <2>2
  <2>4. ~LastSays(log, e, m, owed[e][m])
    BY <2>1 DEF LastSays
  <2>5. (m \in server[e]) = owed[e][m]
    BY <2>1, <2>4 DEF Mail
  <2> QED
    BY <1>1, <2>1, <2>3, <2>5
<1>5. ASSUME NEW m \in Members, (m \in server'[e]) # (m \in said'[e])
      PROVE  m \in unseen'[e] \/ \E i \in Naming(log', e, m) : log'[i].sent
  <2>1. CASE Naming(log, e, m) = {}
    <3>1. (m \in server[e]) # (m \in said[e])
      BY <1>1, <1>2, <1>5, <2>1
    <3>2. m \in unseen[e] \/ \E i \in Naming(log, e, m) : log[i].sent
      BY <3>1 DEF Mail
    <3> QED
      BY <1>1, <3>2
  <2>2. CASE Naming(log, e, m) # {}
    <3>1. PICK i : i \in Naming(log, e, m)
      BY <2>2
    <3>2. log[i].sent
      BY <1>1, <3>1, NamedOut
    <3> QED
      BY <1>1, <3>1, <3>2
  <2> QED
    BY <2>1, <2>2
<1> QED
  BY <1>3, <1>4, <1>5 DEF Mail

\* The rows of an email that adds up to nothing are its changes.
LEMMA CanceledPatches ==
    ASSUME log \in Seq(Rows), NEW e \in Canceled
    PROVE  RowsOf(log, e) = PatchesOf(e)
<1> DEFINE A == {i \in 1..Len(log) : log[i].id = e}
           B == {i \in 1..Len(log) : log[i].id = e /\ ~log[i].destroy}
<1>1. A = B
  <2>1. \A i \in 1..Len(log) : log[i].id = e => ~log[i].destroy
    BY CanceledSays
  <2> QED
    BY <2>1
<1>2. Picks(RowsOf(log, e), log, A)
  BY RowsOfPicks
<1>3. Picks(PatchesOf(e), log, B)
  BY PatchesOfPicks
<1>4. A \in SUBSET (1..Len(log))
  OBVIOUS
<1> HIDE DEF A, B, Rows
<1>5. Picks(PatchesOf(e), log, A)
  BY <1>1, <1>3
<1> QED
  BY <1>2, <1>4, <1>5, PicksUnique

\* Rows that add up to nothing leave: the server stands where they lead.
LEMMA MailCanceled ==
    ASSUME Types, Ordered(log), Fitting, Cancel, NEW e \in Canceled, Mail(e)
    PROVE  Mail(e)'
<1>1. log \in Seq(Rows) /\ owed \in [Emails -> Patches]
  BY DEF Types
<1>2. UNCHANGED <<server, said, stored, owed, unseen>>
  BY BystandsSay DEF Bystands
<1>3. PICK L : /\ KeepsRows(log', Without(log, L))
               /\ Leaves(L, {i \in 1..Len(log) : log[i].id \in Canceled})
  BY CancelShape
<1>4. PICK p : Stem(log', log, L, p)
  BY <1>1, <1>3, StemOfKept
<1>5. ASSUME NEW m PROVE Naming(log', e, m) = {}
  <2>1. SUFFICES ASSUME NEW k \in Naming(log', e, m) PROVE FALSE
    OBVIOUS
  <2>2. k \in 1..Len(log') /\ p[k] \in Naming(log, e, m)
    <3>1. k \in 1..Len(log')
      BY DEF Naming
    <3>2. \A l \in 1..Len(log') : l \in Naming(log', e, m) <=> p[l] \in Naming(log, e, m)
      BY <1>1, <1>4, StemNaming
    <3> QED
      BY <3>1, <3>2
  <2>3. p[k] \in 1..Len(log) /\ log[p[k]].id = e
    BY <2>2 DEF Naming
  <2>4. log[p[k]].seq \notin L
    BY <1>1, <1>4, <2>2, StemRows
  <2> QED
    BY <1>3, <2>3, <2>4 DEF Leaves
<1>6. ASSUME NEW m, NEW i \in Naming(log, e, m) PROVE ~log[i].sent
  <2>1. i \in 1..Len(log) /\ log[i].id = e
    BY DEF Naming
  <2> QED
    BY <1>1, <2>1, CanceledSays
<1> DEFINE q == Merged(PatchesOf(e))
<1>7. said[e] = Patched(said[e], q) /\ said[e] \in States
  <2>1. RowsOf(log, e) \in Seq(Rows) /\ Fits(said[e], RowsOf(log, e), header[e])
    BY <1>1, RowsOfPicks DEF Fitting, Mail
  <2>2. EndsWhereFound(RowsOf(log, e))
    BY DEF Canceled, Cancels
  <2>3. said[e] = header[e] /\ header[e] = Patched(said[e], Merged(RowsOf(log, e)))
    BY <2>1, <2>2, FitsCancels, FitsMerged
  <2>4. said[e] \in States
    BY <2>1, FitsType
  <2> QED
    BY <1>1, <2>3, <2>4, CanceledPatches
<1>8. /\ q \in Patches
      /\ \A m : m \in DOMAIN q <=> Naming(log, e, m) # {}
      /\ \A m \in DOMAIN q : LastSays(log, e, m, q[m])
  BY <1>1, PatchesSay
<1> HIDE DEF q
<1>9. ASSUME NEW m \in DOMAIN owed[e] PROVE (m \in server[e]) = owed[e][m]
  <2>1. SUFFICES ASSUME LastSays(log, e, m, owed[e][m]) PROVE (m \in server[e]) = owed[e][m]
    BY DEF Mail
  <2>2. Naming(log, e, m) # {}
    BY <2>1 DEF LastSays
  <2>3. m \in DOMAIN q /\ q[m] = owed[e][m]
    BY <1>1, <1>8, <2>1, <2>2, LastSaysOnce
  <2>4. m \in Members
    BY <1>8, <2>3, PatchType
  <2>5. m \in said[e] <=> q[m]
    <3>1. m \in Patched(said[e], q) <=> q[m]
      BY <1>7, <1>8, <2>3, PatchedSays
    <3> QED
      BY <1>7, <3>1
  <2>6. (m \in server[e]) = (m \in said[e])
    BY <1>6, <2>4 DEF Mail
  <2>7. q[m] \in BOOLEAN
    BY <1>8, <2>3, PatchType
  <2> QED
    BY <2>3, <2>5, <2>6, <2>7
<1>10. ASSUME NEW m \in Members, (m \in server[e]) # (m \in said[e]) PROVE m \in unseen[e]
  BY <1>6, <1>10 DEF Mail
<1>11. e \in stored /\ DOMAIN owed[e] \cap unseen[e] = {}
  BY DEF Mail
<1> QED
  BY <1>2, <1>5, <1>9, <1>10, <1>11 DEF Mail

\* What a row that is out names, what is out names.
LEMMA OutNamed ==
    ASSUME log \in Seq(Rows), NEW e, NEW i \in 1..Len(log), log[i].id = e, Out(log[i]),
           NEW m \in DOMAIN log[i].patch
    PROVE  m \in DOMAIN Merged(Sent(e))
<1> DEFINE s == Sent(e)
           S == {j \in 1..Len(log) : log[j].id = e /\ Out(log[j])}
<1>1. s \in Seq(Rows) /\ Picks(s, log, S)
  BY SentPicks
<1>2. i \in S
  OBVIOUS
<1> HIDE DEF s, S
<1>3. PICK p : Lists(p, Len(s), S) /\ s = [k \in 1..Len(s) |-> log[p[k]]]
  BY <1>1 DEF Picks
<1>4. PICK k \in 1..Len(s) : p[k] = i
  BY <1>2, <1>3 DEF Lists
<1>5. s[k] = log[i]
  BY <1>3, <1>4
<1>6. Names(s, m) # {}
  BY <1>4, <1>5 DEF Names
<1>7. m \in DOMAIN Merged(s)
  BY <1>1, <1>6, MergedSays
<1> QED
  BY <1>7 DEF s

\* A refusal: what was refused is owed no longer.
LEMMA MailRefused ==
    ASSUME Types, Ordered(log), Fitting, Outgoing, Answered, Refuse, NEW e \in Emails,
           e \in With("refused"), Mail(e)
    PROVE  Mail(e)'
<1>1. log \in Seq(Rows) /\ owed \in [Emails -> Patches]
  BY DEF Types
<1>2. /\ worker.phase = "answered"
      /\ owed'[e] = Disowed(e, Merged(Sent(e)))
      /\ unseen'[e] = {m \in Members : (m \in server[e]) # (m \in said[e])}
      /\ UNCHANGED <<server, stored, said>>
  BY RefuseSays
<1>3. e \in SentIds
  BY <1>2 DEF Answered
<1> DEFINE q == Merged(Sent(e))
<1>4. /\ DOMAIN owed'[e] = DOMAIN owed[e] \ DOMAIN q
      /\ \A m \in DOMAIN owed[e] \ DOMAIN q : owed'[e][m] = owed[e][m]
  <2>1. /\ DOMAIN Disowed(e, q) = DOMAIN owed[e] \ DOMAIN q
        /\ \A m \in DOMAIN owed[e] \ DOMAIN q : Disowed(e, q)[m] = owed[e][m]
    BY <1>1, DisowedSays
  <2> QED
    BY <1>2, <2>1
<1>5. ASSUME NEW m, m \notin DOMAIN q PROVE Naming(log, e, m) = {}
  <2>1. SUFFICES ASSUME NEW i \in Naming(log, e, m) PROVE FALSE
    OBVIOUS
  <2>2. i \in 1..Len(log) /\ log[i].id = e /\ Out(log[i])
    BY <1>2, <1>3, NamedOut
  <2>3. m \in DOMAIN log[i].patch
    BY DEF Naming
  <2> QED
    BY <1>1, <1>5, <2>2, <2>3, OutNamed
<1> HIDE DEF q
<1>6. PICK L : KeepsRows(log', Without(log, L))
  BY RefuseShape
<1>7. PICK p : Stem(log', log, L, p)
  BY <1>1, <1>6, StemOfKept
<1>8. ASSUME NEW m \in DOMAIN owed'[e]
      PROVE  /\ Naming(log', e, m) = {} /\ (m \in server[e]) = owed'[e][m]
             /\ m \notin unseen'[e]
  <2>1. m \in DOMAIN owed[e] /\ m \notin DOMAIN q /\ owed'[e][m] = owed[e][m]
    BY <1>4
  <2>2. Naming(log, e, m) = {}
    BY <1>5, <2>1
  <2>3. Naming(log', e, m) = {}
    BY <1>1, <1>7, <2>2, StemSays
  <2>4. ~LastSays(log, e, m, owed[e][m])
    BY <2>2 DEF LastSays
  <2>5. (m \in server[e]) = owed[e][m] /\ m \notin unseen[e]
    BY <2>1, <2>4 DEF Mail
  <2>6. m \in Members => (m \in server[e]) = (m \in said[e])
    BY <2>2, <2>5 DEF Mail
  <2> QED
    BY <1>2, <2>1, <2>3, <2>5, <2>6
<1>9. e \in stored
  BY DEF Mail
<1>10. \A m \in Members : (m \in server'[e]) # (m \in said'[e]) => m \in unseen'[e]
  BY <1>2
<1>11. DOMAIN owed'[e] \cap unseen'[e] = {}
  BY <1>8
<1> QED
  BY <1>2, <1>8, <1>9, <1>10, <1>11 DEF Mail

\* What was taken is settled: the server said it.
LEMMA MailSettled ==
    ASSUME Types, Ordered(log), Outgoing, Answered, Took, Settle, NEW e \in With("took"),
           e \in Emails, server[e] # Gone, Mail(e)
    PROVE  Mail(e)'
<1>1. log \in Seq(Rows) /\ owed \in [Emails -> Patches] /\ said[e] \in States
  BY DEF Types
<1>2. /\ worker.phase = "settle" /\ stored' = stored \ With("gone")
      /\ said'[e] = Patched(said[e], Merged(Sent(e)))
      /\ UNCHANGED <<server, owed, unseen>>
  BY SettleSays
<1>3. e \in SentIds /\ ~Destroying(e) /\ e \notin With("gone")
  BY <1>2 DEF Answered, With
<1> DEFINE q == Merged(PatchesOf(e))
<1>4. said'[e] = Patched(said[e], q)
  BY <1>2, <1>3, TakenSent
<1>5. /\ q \in Patches
      /\ \A m : m \in DOMAIN q <=> Naming(log, e, m) # {}
      /\ \A m \in DOMAIN q : LastSays(log, e, m, q[m])
  BY <1>1, PatchesSay
<1> HIDE DEF q
<1>6. \A m \in DOMAIN q : m \in Members /\ q[m] \in BOOLEAN
  BY <1>5, PatchType
<1>7. ASSUME NEW m \in DOMAIN q
      PROVE  m \notin DOMAIN owed[e] /\ (m \in unseen[e] \/ (m \in server[e]) = q[m])
  BY <1>2, <1>5, <1>6 DEF Took
<1>8. PICK L : KeepsRows(log', Without(log, L))
  BY SettleShape
<1>9. PICK p : Stem(log', log, L, p)
  BY <1>1, <1>8, StemOfKept
<1>10. ASSUME NEW m \in DOMAIN owed[e]
       PROVE  Naming(log', e, m) = {} /\ (m \in server[e]) = owed[e][m]
  <2>1. Naming(log, e, m) = {}
    BY <1>5, <1>7
  <2>2. Naming(log', e, m) = {}
    BY <1>1, <1>9, <2>1, StemSays
  <2>3. ~LastSays(log, e, m, owed[e][m])
    BY <2>1 DEF LastSays
  <2> QED
    BY <2>2, <2>3 DEF Mail
<1>11. ASSUME NEW m \in Members, (m \in server[e]) # (m \in said'[e]) PROVE m \in unseen[e]
  <2>1. CASE m \in DOMAIN q
    <3>1. m \in said'[e] <=> q[m]
      BY <1>1, <1>4, <1>5, <2>1, PatchedSays
    <3> QED
      BY <1>6, <1>7, <1>11, <2>1, <3>1
  <2>2. CASE m \notin DOMAIN q
    <3>1. m \in said'[e] <=> m \in said[e]
      BY <1>1, <1>4, <1>5, <2>2, PatchedSays
    <3>2. Naming(log, e, m) = {}
      BY <1>5, <2>2
    <3> QED
      BY <1>11, <3>1, <3>2 DEF Mail
  <2> QED
    BY <2>1, <2>2
<1>12. e \in stored /\ DOMAIN owed[e] \cap unseen[e] = {}
  BY DEF Mail
<1> QED
  BY <1>2, <1>3, <1>10, <1>11, <1>12 DEF Mail

\* It lands.
LEMMA MailLanded ==
    ASSUME Types, Ordered(log), Landing, Land, NEW e \in Landed, server[e] # Gone, Mail(e)
    PROVE  Mail(e)'
<1>1. log \in Seq(Rows)
  BY DEF Types
<1>2. /\ KeepsRows(log', log) /\ worker.phase = "land" /\ e \in Emails
      /\ said'[e] = worker.emails[e]
      /\ unseen'[e] = IF worker.emails[e] = server[e] THEN {} ELSE unseen[e]
      /\ stored' = stored \ {x \in DOMAIN worker.emails : worker.emails[x] = Gone}
  BY LandShape
<1>3. server' = server /\ owed' = owed
  BY DEF Land
<1>4. SaysAlike(e)
  BY <1>1, <1>2, SameAlike
<1>5. e \in DOMAIN worker.emails /\ worker.emails[e] # Gone
  BY DEF Landed
<1>6. e \in stored'
  BY <1>2, <1>5 DEF Mail
<1>7. DOMAIN owed[e] \cap unseen'[e] = {}
  BY <1>2 DEF Mail
<1>8. ASSUME NEW m \in DOMAIN owed[e]
      PROVE  \/ LastSays(log', e, m, owed[e][m])
             \/ Naming(log', e, m) = {} /\ (m \in server[e]) = owed[e][m]
  BY <1>4 DEF Mail, SaysAlike
<1>9. ASSUME NEW m \in Members, (m \in server[e]) # (m \in said'[e]) PROVE m \in unseen'[e]
  <2>1. worker.emails[e] # server[e] /\ (m \in server[e]) # (m \in worker.emails[e])
    BY <1>2, <1>9
  <2>2. m \in unseen[e]
    BY <1>2, <1>5, <2>1 DEF Landing
  <2> QED
    BY <1>2, <2>1, <2>2
<1> QED
  BY <1>3, <1>6, <1>7, <1>8, <1>9 DEF Mail

\* It is fetched.
LEMMA MailFetched ==
    ASSUME Types, NEW e, Fetches(e), Fetch, Mail(e)
    PROVE  Mail(e)'
<1>1. log \in Seq(Rows)
  BY DEF Types
<1>2. /\ e \in Emails /\ KeepsRows(log', log)
      /\ stored' = stored \cup {e} /\ said' = [said EXCEPT ![e] = server[e]]
      /\ unseen' = [unseen EXCEPT ![e] = {}]
  BY DEF Fetches
<1>3. said'[e] = server[e] /\ unseen'[e] = {}
  BY <1>2 DEF Types
<1>4. server' = server /\ owed' = owed
  BY DEF Fetch
<1>5. SaysAlike(e)
  BY <1>1, <1>2, SameAlike
<1>6. ASSUME NEW m \in DOMAIN owed[e]
      PROVE  \/ LastSays(log', e, m, owed[e][m])
             \/ Naming(log', e, m) = {} /\ (m \in server[e]) = owed[e][m]
  BY <1>5 DEF Mail, SaysAlike
<1> QED
  BY <1>2, <1>3, <1>4, <1>6 DEF Mail

\* Every step keeps what is owed, and where the server differs.
LEMMA MailsKept ==
    ASSUME IInv, [Next]_vars
    PROVE  Mails'
<1>1. /\ Types /\ Ordered(log) /\ Outgoing /\ Answered /\ Landing /\ Fitting /\ Mails /\ Took
      /\ log \in Seq(Rows)
  BY DEF IInv, Types
<1>2. SUFFICES ASSUME NEW e \in Emails, server'[e] # Gone PROVE Mail(e)'
  BY DEF Mails
<1>3. server[e] # Gone => Mail(e)
  BY <1>1 DEF Mails
<1>4. ASSUME SaysAlike(e), server'[e] = server[e], said'[e] = said[e], owed'[e] = owed[e],
             unseen'[e] = unseen[e], e \in stored => e \in stored'
      PROVE  Mail(e)'
  <2>1. Mail(e)
    BY <1>2, <1>3, <1>4
  <2>2. e \in stored'
    BY <1>4, <2>1 DEF Mail
  <2> QED
    BY <1>4, <2>1, <2>2, MailAlike
<1>5. ASSUME log' = log PROVE SaysAlike(e)
  <2>1. KeepsRows(log', log)
    BY <1>1, <1>5 DEF KeepsRows
  <2> QED
    BY <1>1, <2>1, SameAlike
<1>6. CASE Change
  <2>1. PICK x, patch, row : Changes(x, patch, row)
    BY <1>1, <1>6, ChangeShape
  <2>2. /\ x \in Emails /\ \E t \in Tabs : Logs(row, x, patch, FALSE, t)
        /\ owed' = [owed EXCEPT ![x] = Over(@, [m \in DOMAIN patch \ unseen[x] |-> patch[m]])]
        /\ UNCHANGED <<server, stored, said, unseen>>
    BY <2>1 DEF Changes
  <2>3. CASE e = x
    BY <1>1, <1>2, <1>3, <2>1, <2>2, <2>3, MailChanged
  <2>4. CASE e # x
    <3>1. PICK t \in Tabs : Logs(row, x, patch, FALSE, t)
      BY <2>2
    <3>2. \E destroy : Logs(row, x, patch, destroy, t)
      BY <3>1
    <3>3. SaysAlike(e)
      BY <1>1, <2>2, <2>4, <3>2, LoggedAlike
    <3>4. owed'[e] = owed[e]
      BY <2>2, <2>4
    <3> QED
      BY <1>4, <2>2, <3>3, <3>4
  <2> QED
    BY <2>3, <2>4
<1>7. CASE Destroy
  <2>1. PICK x, patch, t, row : Destroys(x, patch, t, row)
    BY <1>1, <1>7, DestroyShape
  <2>2. x \in Emails /\ Logs(row, x, patch, TRUE, t) /\ UNCHANGED <<server, stored, said, unseen, owed>>
    BY <2>1 DEF Destroys
  <2>3. \E destroy : Logs(row, x, patch, destroy, t) /\ destroy
    BY <2>2
  <2>4. SaysAlike(e)
    BY <1>1, <2>2, <2>3, LoggedAlike
  <2> QED
    BY <1>4, <2>2, <2>4
<1>8. ASSUME Flags(log', log), Bystands PROVE Mail(e)'
  <2>1. SaysAlike(e)
    BY <1>1, <1>8, FlagsAlike
  <2> QED
    BY <1>4, <1>8, <2>1 DEF Bystands
<1>9. CASE Release
  BY <1>1, <1>8, <1>9, ReleaseShape, BystandsSay DEF Releases
<1>10. CASE Flush
  BY <1>1, <1>8, <1>10, FlushShape, BystandsSay
<1>11. CASE Send
  BY <1>1, <1>8, <1>11, SendShape, BystandsSay
<1>12. CASE LeaseLost \/ NoAnswer \/ AskMailboxes \/ AskEmails \/ Crash \/ UNCHANGED vars
  <2>1. log' = log
    BY <1>12 DEF LeaseLost, NoAnswer, AskMailboxes, AskEmails, Crash, vars
  <2>2. Bystands
    BY <1>12, BystandsSay
  <2> QED
    BY <1>4, <1>5, <2>1, <2>2 DEF Bystands
<1>13. CASE Drop
  <2>1. PICK t, x, L : Drops(t, x, L)
    BY <1>1, <1>13, DropShape
  <2>2. /\ KeepsRows(log', Without(log, L))
        /\ Leaves(L, {i \in 1..Len(log) : log[i].seq = x.seq /\ log[i].held})
    BY <2>1 DEF Drops
  <2>3. PICK p : Stem(log', log, L, p)
    BY <1>1, <2>2, StemOfKept
  <2>4. KeepsChanges(log, L, e)
    BY <1>1, <2>2 DEF KeepsChanges, Leaves, Ordered
  <2>5. SaysAlike(e)
    BY <1>1, <2>3, <2>4, StemAlike
  <2>6. UNCHANGED <<server, stored, said, owed, unseen>>
    BY <1>13 DEF Drop, history
  <2> QED
    BY <1>4, <2>5, <2>6
<1>14. CASE Meddle
  <2>1. PICK x, patch : Meddles(x, patch)
    BY <1>1, <1>14, MeddleShape
  <2> QED
    BY <1>1, <1>2, <1>3, <2>1, MailMeddled
<1>15. CASE Serve
  <2>1. PICK taken : Serves(taken)
    BY <1>1, <1>15, ServeShape
  <2>2. /\ UNCHANGED <<stored, log, said, unseen>>
        /\ \A x \in taken : server[x] # Gone
        /\ e \notin taken => server'[e] = server[e] /\ owed'[e] = owed[e]
        /\ e \in taken /\ Destroying(e) => server'[e] = Gone
    BY <2>1 DEF Serves
  <2>3. CASE e \in taken
    <3>1. ~Destroying(e) /\ Mail(e)
      BY <1>2, <1>3, <2>2, <2>3
    <3> QED
      BY <1>1, <2>1, <2>3, <3>1, MailTaken
  <2>4. CASE e \notin taken
    BY <1>4, <1>5, <2>2, <2>4
  <2> QED
    BY <2>3, <2>4
<1>16. CASE Cancel
  <2>1. Bystands
    BY <1>16, BystandsSay
  <2>2. CASE e \in Canceled
    <3>1. Mail(e)
      BY <1>2, <1>3, <2>1 DEF Bystands
    <3> QED
      BY <1>1, <1>16, <2>2, <3>1, MailCanceled
  <2>3. CASE e \notin Canceled
    <3>1. PICK L : /\ KeepsRows(log', Without(log, L))
                   /\ Leaves(L, {i \in 1..Len(log) : log[i].id \in Canceled})
      BY <1>1, <1>16, CancelShape
    <3>2. PICK p : Stem(log', log, L, p)
      BY <1>1, <3>1, StemOfKept
    <3>3. KeepsChanges(log, L, e)
      BY <2>3, <3>1 DEF KeepsChanges, Leaves
    <3>4. SaysAlike(e)
      BY <1>1, <3>2, <3>3, StemAlike
    <3> QED
      BY <1>4, <2>1, <3>4 DEF Bystands
  <2> QED
    BY <2>2, <2>3
<1>17. CASE Refuse
  <2>1. /\ UNCHANGED <<server, stored, said>>
        /\ e \notin With("refused") => owed'[e] = owed[e] /\ unseen'[e] = unseen[e]
    BY <1>1, <1>17, RefuseSays
  <2>2. CASE e \in With("refused")
    BY <1>1, <1>2, <1>3, <1>17, <2>1, <2>2, MailRefused
  <2>3. CASE e \notin With("refused")
    <3>1. \E L, p : Stem(log', log, L, p) /\ KeepsChanges(log, L, e)
      BY <1>1, <1>17, <2>3, RefuseKeeps
    <3>2. SaysAlike(e)
      BY <1>1, <3>1, StemAlike
    <3> QED
      BY <1>4, <2>1, <2>3, <3>2
  <2> QED
    BY <2>2, <2>3
<1>18. CASE Settle
  <2>1. /\ worker.phase = "settle" /\ stored' = stored \ With("gone")
        /\ e \notin With("took") => said'[e] = said[e]
        /\ UNCHANGED <<server, owed, unseen>>
    BY <1>1, <1>18, SettleSays
  <2>2. e \notin With("gone")
    BY <1>1, <1>2, <2>1 DEF Answered
  <2>3. CASE e \in With("took")
    BY <1>1, <1>2, <1>3, <1>18, <2>1, <2>3, MailSettled
  <2>4. CASE e \notin With("took")
    <3>1. PICK L : /\ KeepsRows(log', Without(log, L))
                   /\ Leaves(L, {i \in 1..Len(log) : \/ Out(log[i]) /\ log[i].id \in With("took")
                                                     \/ log[i].id \in With("gone")})
      BY <1>1, <1>18, SettleShape
    <3>2. PICK p : Stem(log', log, L, p)
      BY <1>1, <3>1, StemOfKept
    <3>3. KeepsChanges(log, L, e)
      BY <2>2, <2>4, <3>1 DEF KeepsChanges, Leaves
    <3>4. SaysAlike(e)
      BY <1>1, <3>2, <3>3, StemAlike
    <3> QED
      BY <1>4, <2>1, <2>2, <2>4, <3>4
  <2> QED
    BY <2>3, <2>4
<1>19. CASE Land
  <2>1. server' = server /\ owed' = owed
    BY <1>19 DEF Land
  <2>2. CASE e \in Landed
    BY <1>1, <1>2, <1>3, <1>19, <2>1, <2>2, MailLanded
  <2>3. CASE e \notin Landed
    <3>1. /\ KeepsRows(log', log) /\ worker.phase = "land"
          /\ said'[e] = said[e] /\ unseen'[e] = unseen[e]
          /\ stored' = stored \ {x \in DOMAIN worker.emails : worker.emails[x] = Gone}
      BY <1>1, <1>19, <2>3, LandShape
    <3>2. SaysAlike(e)
      BY <1>1, <3>1, SameAlike
    <3>3. ~(e \in DOMAIN worker.emails /\ worker.emails[e] = Gone)
      BY <1>1, <1>2, <2>1, <3>1 DEF Landing
    <3>4. e \in stored => e \in stored'
      BY <3>1, <3>3
    <3> QED
      BY <1>4, <2>1, <3>1, <3>2, <3>4
  <2> QED
    BY <2>2, <2>3
<1>20. CASE Fetch
  <2>1. PICK x : Fetches(x)
    BY <1>1, <1>20, FetchShape
  <2>2. server' = server /\ owed' = owed
    BY <1>20 DEF Fetch
  <2>3. CASE e = x
    BY <1>1, <1>2, <1>3, <1>20, <2>1, <2>2, <2>3, MailFetched
  <2>4. CASE e # x
    <3>1. /\ KeepsRows(log', log) /\ stored' = stored \cup {x}
          /\ said' = [said EXCEPT ![x] = server[x]] /\ unseen' = [unseen EXCEPT ![x] = {}]
      BY <2>1 DEF Fetches
    <3>2. said'[e] = said[e] /\ unseen'[e] = unseen[e]
      BY <2>4, <3>1
    <3>3. SaysAlike(e)
      BY <1>1, <3>1, SameAlike
    <3> QED
      BY <1>4, <2>2, <3>1, <3>2, <3>3
  <2> QED
    BY <2>3, <2>4
<1> QED
  BY <1>6, <1>7, <1>9, <1>10, <1>11, <1>12, <1>13, <1>14, <1>15, <1>16, <1>17, <1>18, <1>19, <1>20
     DEF Next, User, Worker

-----------------------------------------------------------------------------
(* The theorems *)

\* The cache starts with every email as the server has it, and nothing
\* logged.
LEMMA IInvInit ==
    ASSUME Init
    PROVE  IInv
<1>1. server = [e \in Emails |-> {INBOX}] /\ {INBOX} \in States
  BY PendingAssumption DEF Init, States, Members
<1>2. /\ stored = Emails /\ header = server /\ said = server /\ log = <<>> /\ worker = Idle
      /\ toasts = [t \in Tabs |-> {}] /\ owed = [e \in Emails |-> NoPatch]
      /\ unseen = [e \in Emails |-> {}]
  BY DEF Init
<1>3. log \in Seq(Rows) /\ Len(log) = 0 /\ \A i : i \notin 1..Len(log)
  BY <1>2
<1>4. worker.phase = "idle"
  BY <1>2 DEF Idle
<1>5. NoPatch \in Patches /\ DOMAIN NoPatch = {}
  BY NoPatchSays
<1>6. Types
  <2>1. server \in [Emails -> States]
    BY <1>1
  <2>2. toasts \in [Tabs -> SUBSET Toast] /\ unseen \in [Emails -> States] /\ stored \in SUBSET Emails
    BY <1>2 DEF States
  <2>3. owed \in [Emails -> Patches]
    <3> HIDE DEF Patches
    <3> QED
      BY <1>2, <1>5
  <2>4. worker = [phase |-> worker.phase, poll |-> worker.poll, sent |-> worker.sent,
                  more |-> worker.more, verdict |-> worker.verdict,
                  mailboxes |-> worker.mailboxes, emails |-> worker.emails,
                  fresh |-> worker.fresh]
    BY <1>2 DEF Idle
  <2>5. worker.phase # "land"
    BY <1>4
  <2> QED
    BY <1>2, <1>3, <2>1, <2>2, <2>3, <2>4, <2>5 DEF Types
<1>7. Ordered(log)
  BY <1>3 DEF Ordered, Rising
<1>8. Toasts
  BY <1>2 DEF Toasts
<1>9. Outgoing /\ Answered /\ Landing /\ Took
  BY <1>4 DEF Outgoing, Answered, Landing, Took
<1>10. Fitting
  <2>1. ASSUME NEW e \in Emails PROVE Fits(said[e], RowsOf(log, e), header[e])
    <3>1. RowsOf(log, e) \in Seq(Rows) /\ Picks(RowsOf(log, e), log, {i \in 1..Len(log) : log[i].id = e})
      BY <1>3, RowsOfPicks
    <3>2. {i \in 1..Len(log) : log[i].id = e} = {}
      BY <1>3
    <3>3. RowsOf(log, e) = <<>>
      <4> HIDE DEF Rows
      <4> QED
        BY <3>1, <3>2, PicksNone
    <3>4. said[e] = header[e] /\ said[e] \in States
      BY <1>1, <1>2
    <3> QED
      BY <3>3, <3>4, FitsNone
  <2> QED
    BY <1>2, <2>1 DEF Fitting
<1>11. Mails
  BY <1>2, <1>5 DEF Mails, Mail
<1> QED
  BY <1>6, <1>7, <1>8, <1>9, <1>10, <1>11 DEF IInv

\* The invariant is inductive.
LEMMA IInvNext ==
    ASSUME IInv, [Next]_vars
    PROVE  IInv'
<1>1. Types /\ Ordered(log) /\ Toasts /\ Outgoing /\ Answered /\ Landing /\ Fitting /\ Took
  BY DEF IInv
<1>2. Types' /\ Ordered(log')
  BY <1>1, TypesKept, LogKept
<1>3. Toasts' /\ Outgoing' /\ Answered' /\ Landing'
  BY <1>1, ToastsKept, OutgoingKept, AnsweredKept, LandingKept
<1>4. Fitting' /\ Mails' /\ Took'
  BY <1>1, FittingKept, MailsKept, TookKept
<1> QED
  BY <1>2, <1>3, <1>4 DEF IInv

\* The inductive invariant the theorems follow from.
THEOREM LogHolds == Spec => []IInv
<1>1. Init => IInv
  BY IInvInit
<1>2. IInv /\ [Next]_vars => IInv'
  BY IInvNext
<1> QED
  BY <1>1, <1>2, PTL DEF Spec

\* A destroy whose toast is open can still be taken back: it is in the log
\* and held.
THEOREM ToastHoldsAlways == Spec => []ToastHolds
<1>1. IInv => ToastHolds
  BY DEF IInv, Toasts, HeldFor, ToastHolds, Types
<1> QED
  BY <1>1, LogHolds, PTL

\* Taking every row of an email back gives what the server said of it last.
THEOREM TakesBackAlways == Spec => []TakesBack
<1>1. ASSUME IInv, NEW e \in stored PROVE Unpatched(header[e], RowsOf(log, e)) = said[e]
  <2>1. log \in Seq(Rows) /\ Fits(said[e], RowsOf(log, e), header[e])
    BY <1>1 DEF IInv, Types, Fitting
  <2>2. RowsOf(log, e) \in Seq(Rows)
    BY <2>1, RowsOfPicks
  <2> QED
    BY <2>1, <2>2, FitsUnpatched
<1>2. IInv => TakesBack
  BY <1>1 DEF TakesBack
<1> QED
  BY <1>2, LogHolds, PTL

\* What the user set last goes out with the log or stands on the server,
\* until the server refuses it or another client writes the same path.
THEOREM NoChangeLostAlways == Spec => []NoChangeLost
<1>1. ASSUME IInv, NEW e \in Emails, NEW m \in DOMAIN owed[e], server[e] # Gone,
             (m \in server[e]) # owed[e][m]
      PROVE  m \in DOMAIN Merged(PatchesOf(e)) /\ Merged(PatchesOf(e))[m] = owed[e][m]
  <2>1. log \in Seq(Rows) /\ Mail(e)
    BY <1>1 DEF IInv, Types, Mails
  <2>2. LastSays(log, e, m, owed[e][m])
    BY <1>1, <2>1 DEF Mail
  <2>3. Naming(log, e, m) # {}
    BY <2>2 DEF LastSays
  <2>4. m \in DOMAIN Merged(PatchesOf(e)) /\ LastSays(log, e, m, Merged(PatchesOf(e))[m])
    BY <2>1, <2>3, PatchesSay
  <2> QED
    BY <2>1, <2>2, <2>4, LastSaysOnce
<1>2. IInv => NoChangeLost
  BY <1>1 DEF NoChangeLost
<1> QED
  BY <1>2, LogHolds, PTL

=============================================================================
