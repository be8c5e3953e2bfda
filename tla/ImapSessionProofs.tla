-------------------------- MODULE ImapSessionProofs --------------------------
(***************************************************************************)
(* That everything the session writes fits where the server stands when it *)
(* reads it, for every window, limit, kind of literals and number of       *)
(* changes by others, whatever turns are given up in the middle of.        *)
(*                                                                         *)
(* The argument.  A turn begins on a quiet connection: nothing unread by   *)
(* the server, no answer on its way, no EXPUNGE unread (Rest).  That       *)
(* comes from the NOOP of a kept session, whose tagged line is the last    *)
(* thing the server wrote that is not news (OwnLast): whatever was left of *)
(* an abandoned command is ahead of it under another tag (Tags).  So a     *)
(* command finds the server where the session believes it: the mailbox the *)
(* turn opened (Selected), and a count that the EXPUNGE lines still unread *)
(* can only bring down to what the server counts (Bounded).  A literal     *)
(* goes out behind its opening or after the server asked for it, unless    *)
(* its request was dropped in between (Literals).                          *)
(***************************************************************************)
EXTENDS ImapSession, FiniteSetTheorems, SequenceTheorems, TLAPS

-----------------------------------------------------------------------------
(* The inductive invariant *)

IsSeq(s) == s \in Seq(SeqSet(s))

\* The fields of the records.
IsCmd(c) == c = [op |-> c.op, tag |-> c.tag, box |-> c.box, uid |-> c.uid, low |-> c.low,
                 high |-> c.high, lit |-> c.lit, size |-> c.size]
IsServer(s) ==
    s = [mail |-> s.mail, home |-> s.home, fresh |-> s.fresh, ver |-> s.ver, sel |-> s.sel,
         rw |-> s.rw, view |-> s.view, mode |-> s.mode, held |-> s.held, busy |-> s.busy,
         owed |-> s.owed, torn |-> s.torn, tls |-> s.tls, offers |-> s.offers,
         literals |-> s.literals, changes |-> s.changes]
IsSession(s) == s = [state |-> s.state, offered |-> s.offered, count |-> s.count,
                     writable |-> s.writable]
IsCur(c) == c = [cmd |-> c.cmd, wait |-> c.wait, lines |-> c.lines, max |-> c.max,
                 got |-> c.got, snap |-> c.snap]
IsTurn(t) == t \in [on : BOOLEAN, box : Boxes \cup {None}]

\* A command names a mailbox where it needs one, a window where it walks, and
\* carries its literal as the server takes it.
Sound(c, literals) ==
    /\ IsCmd(c) /\ c.tag \in Nat \ {0}
    /\ c.op \in Opens \cup {"append"} => c.box \in Boxes
    /\ c.op \in Walks => c.low \in Nat \ {0} /\ c.high \in Nat
    /\ c.lit # "none" => c.op \in Appends \cup {"uid_search"}
    /\ c.lit = "plus" => Unsynchronized(literals, c.size)

\* The type of what the proofs reason about.
Types ==
    /\ IsServer(srv) /\ IsSession(cl) /\ IsCur(cur) /\ IsTurn(turn)
    /\ srv.mail = [b \in Boxes |-> srv.mail[b]] /\ \A b \in Boxes : IsSeq(srv.mail[b])
    /\ srv.sel \in Boxes \cup {None} /\ IsSeq(srv.view)
    /\ srv.busy = NoCmd \/ Sound(srv.busy, srv.literals)
    /\ srv.held = NoCmd \/ Sound(srv.held, srv.literals)
    /\ IsSeq(out) /\ \A i \in DOMAIN out : Sound(out[i], srv.literals)
    /\ IsSeq(wire) /\ \A i \in DOMAIN wire : wire[i].k = "exists" => wire[i].n \in Nat
    /\ cl.count \in Nat \cup {NoCount}
    /\ cur = NoCur \/ (~Idle /\ Sound(cur.cmd, srv.literals))

\* A tagged answer, and one that is the command's own.
Tells(l, tag) == l.k = "done" /\ l.tag = tag
Answered(tag) == \E p \in DOMAIN wire : Tells(wire[p], tag) /\ wire[p].status = "ok"

\* The server reads a literal or it does not.
Modes ==
    /\ srv.mode = "idle" => srv.held = NoCmd
    /\ srv.mode # "idle" => /\ srv.mode = "literal" /\ srv.busy = NoCmd
                            /\ srv.held # NoCmd /\ Apart(srv.held)

\* A command but a NOOP goes first of all, to a server that does nothing else.
Leading ==
    \A i \in DOMAIN out :
       out[i].op \notin {"literal", "check"} => i = 1 /\ srv.busy = NoCmd /\ srv.mode = "idle"

\* What is in flight is of one command.
Tagged(tag) ==
    /\ \A i \in DOMAIN out : out[i].tag = tag
    /\ srv.busy.tag \in {0, tag} /\ srv.held.tag \in {0, tag}
    /\ \A p \in DOMAIN wire : wire[p].k = "done" => wire[p].tag = tag

\* A NOOP may come behind what another command left, no other does.
Tags ==
    /\ Idle => \E tag \in Nat : Tagged(tag)
    /\ ~Idle /\ cur.cmd.op # "check" => Tagged(cur.cmd.tag)

\* Nothing is on its way but news.
Quiet ==
    /\ out = <<>> /\ srv.busy = NoCmd /\ srv.mode = "idle"
    /\ \A p \in DOMAIN wire : wire[p].k \notin {"done", "expunge"}

\* Where nothing is asked, only a kept session may have something unread.
Rest == Idle /\ (turn.on \/ cl.state # "signed") => Quiet

\* The command asked is the last thing in flight.
OwnLast ==
    ~Idle =>
      /\ \A p \in DOMAIN wire : Tells(wire[p], cur.cmd.tag) =>
           /\ out = <<>> /\ srv.busy = NoCmd /\ srv.mode = "idle"
           /\ \A q \in DOMAIN wire : q > p => wire[q].k \notin {"done", "expunge"}
      /\ srv.busy.tag = cur.cmd.tag => out = <<>> /\ srv.busy = cur.cmd
      /\ srv.held.tag = cur.cmd.tag =>
           srv.held = cur.cmd /\ \A i \in DOMAIN out : i = 1 /\ out[i].op = "literal"
      /\ \A i \in DOMAIN out : out[i].tag = cur.cmd.tag /\ out[i].op # "literal" =>
           /\ out[i] = cur.cmd \/ (cur.cmd.op = "sign_in" /\ out[i].op \in Ways)
           /\ \A j \in DOMAIN out : j > i => j = i + 1 /\ out[j].op = "literal"

\* The states of the session and of the turn.
Stages ==
    /\ ~Idle => cl.state = (IF cur.cmd.op = "sign_in" THEN "gone" ELSE "signed")
    /\ turn.on => cl.state = "signed" /\ cur.cmd.op \notin {"sign_in", "check"}
    /\ ~turn.on => turn.box = None
    /\ ~Idle /\ cur.cmd.op \notin {"sign_in", "check"} => turn.on

\* The sign-in finds TLS and the ways that were offered behind it.
Offered ==
    /\ cl.state \in {"secured", "fresh"} => srv.tls
    /\ cl.state = "fresh" => cl.offered \subseteq srv.offers
    /\ cur.cmd.op = "sign_in" =>
         srv.tls /\ (cl.offered \subseteq srv.offers \/ Answered(cur.cmd.tag))

\* A literal in flight follows its opening.
Trailing ==
    \A i \in DOMAIN out : out[i].op = "literal" /\ i > 1 =>
       /\ out[i - 1].op \in Appends /\ out[i - 1].lit = "plus"
       /\ out[i - 1].tag = out[i].tag

\* The literal the bridge has yet to write is the one the server waits for or
\* will; a request that was dropped may leave it waiting.
Literals ==
    /\ cur.wait = 1 => Apart(cur.cmd)
    /\ cur.wait = 1 /\ cur.cmd.lit = "plus" =>
         \/ Len(out) = 1 /\ out[1] = cur.cmd
         \/ out = <<>> /\ srv.mode = "literal" /\ srv.held = cur.cmd
    /\ \A p \in DOMAIN wire : wire[p].k = "continue" =>
         /\ srv.mode = "literal" /\ srv.held.lit = "sync"
         /\ \A i \in DOMAIN out : out[i].op # "literal"
         /\ \A q \in DOMAIN wire : wire[q].k = "continue" => q = p
    /\ ~srv.torn =>
         /\ srv.mode = "literal" =>
              \/ out # <<>> /\ out[1].op = "literal"
              \/ out = <<>> /\ cur.wait = 1 /\ cur.cmd = srv.held
         /\ \A i \in DOMAIN out : out[i].op \in Appends /\ out[i].lit = "plus" =>
              \/ i + 1 \in DOMAIN out /\ out[i + 1].op = "literal"
              \/ i = Len(out) /\ cur.wait = 1 /\ cur.cmd = out[i]
         /\ \A i \in DOMAIN out : out[i].lit = "sync" =>
              i = Len(out) /\ cur.wait = 1 /\ cur.cmd = out[i]
         /\ out # <<>> /\ out[1].op = "literal" => srv.mode = "literal"

\* No message leaves in the lines after position i up to position j.
Keeps(w, i, j) == \A q \in 1..Len(w) : i < q /\ q <= j => w[q].k # "expunge"

\* b bounds the count after each line unread from position p on, where an
\* EXISTS sets it anew (at 0 it is the count c), and ends at most at n.
Bounding(b, c, w, n, p) ==
    /\ b \in [0..Len(w) -> Nat] /\ b[Len(w)] <= n
    /\ IF p = 0 THEN c <= b[0] ELSE w[p].k = "exists" /\ w[p].n <= b[p]
    /\ \A i \in 1..Len(w) : i > p =>
         /\ w[i].k = "expunge" => b[i - 1] <= b[i] + 1
         /\ w[i].k = "exists" => w[i].n <= b[i]
    /\ \A i, j \in 0..Len(w) : p <= i /\ i <= j /\ Keeps(w, i, j) => b[i] <= b[j]
Bounded(c, w, n, most) == \E p \in 0..Len(w) : p <= most /\ \E b : Bounding(b, c, w, n, p)

\* The count of the session is good once the lines up to `most` are read.
Counts(most) == Bounded(cl.count, wire, Len(srv.view), most)

\* The mailbox a turn works in is the one selected.
Selected ==
    turn.box # None =>
      /\ srv.sel = turn.box /\ cl.count \in Nat /\ Counts(0) /\ (cl.writable => srv.rw)
      /\ cur.cmd.op \notin Opens

\* A walk and a write are of the mailbox the turn works in.
Works ==
    /\ cur.cmd.op \in Walks \cup Writes => turn.box # None
    /\ cur.cmd.op \in Writes => cur.cmd.box = turn.box /\ cl.writable

\* An open the server performed has selected its mailbox.
Opened ==
    cur.cmd.op \in Opens =>
      /\ cl.count \in Nat
      /\ srv.busy.tag = cur.cmd.tag => srv.sel = cur.cmd.box /\ Counts(Len(wire))
      /\ \A p \in DOMAIN wire : Tells(wire[p], cur.cmd.tag) /\ wire[p].status = "ok" =>
           srv.sel = cur.cmd.box /\ Counts(p - 1) /\ wire[p].ro = ~srv.rw

IInv ==
    /\ Types /\ Modes /\ Leading /\ Tags /\ Rest /\ OwnLast /\ Stages
    /\ Offered /\ SignsInSafely /\ Trailing /\ Literals
    /\ Selected /\ Works /\ Opened /\ CountHolds /\ WritesLand

-----------------------------------------------------------------------------
(* Sequences *)

\* A sequence is a function over its positions, empty if it has none.
LEMMA SeqBasics ==
    ASSUME NEW s, IsSeq(s)
    PROVE  /\ Len(s) \in Nat /\ DOMAIN s = 1..Len(s)
           /\ s = <<>> <=> Len(s) = 0
           /\ s # <<>> => 1 \in DOMAIN s /\ Head(s) = s[1]
<1> QED
  BY DEF IsSeq

\* The empty sequence is one.
LEMMA SeqEmpty == IsSeq(<<>>) /\ Len(<<>>) = 0 /\ DOMAIN <<>> = {}
<1> QED
  BY DEF IsSeq, SeqSet

\* A function over an interval from one on is a sequence.
LEMMA SeqFunction ==
    ASSUME NEW n \in Nat, NEW s, NEW S, s \in [1..n -> S]
    PROVE  IsSeq(s) /\ Len(s) = n /\ DOMAIN s = 1..n
<1>1. s \in [1..n -> SeqSet(s)]
  BY DEF SeqSet
<1> QED
  BY <1>1 DEF IsSeq

\* What is left once the first element is read.
LEMMA SeqTail ==
    ASSUME NEW s, IsSeq(s), s # <<>>
    PROVE  /\ IsSeq(Tail(s)) /\ Len(Tail(s)) = Len(s) - 1 /\ DOMAIN Tail(s) = 1..(Len(s) - 1)
           /\ \A i \in 1..(Len(s) - 1) : Tail(s)[i] = s[i + 1]
<1>1. s \in Seq(SeqSet(s))
  BY DEF IsSeq
<1>2. /\ Tail(s) \in Seq(SeqSet(s)) /\ Len(Tail(s)) = Len(s) - 1
      /\ \A i \in 1..(Len(s) - 1) : Tail(s)[i] = s[i + 1]
  BY <1>1
<1>3. Tail(s) \in [1..Len(Tail(s)) -> SeqSet(s)] /\ Len(Tail(s)) \in Nat
  BY <1>2, LenProperties
<1> QED
  BY <1>2, <1>3, SeqFunction

\* A sequence with one element more.
LEMMA SeqAppend ==
    ASSUME NEW s, NEW x, IsSeq(s)
    PROVE  /\ IsSeq(Append(s, x)) /\ Len(Append(s, x)) = Len(s) + 1
           /\ DOMAIN Append(s, x) = 1..(Len(s) + 1)
           /\ Append(s, x)[Len(s) + 1] = x
           /\ \A i \in 1..Len(s) : Append(s, x)[i] = s[i]
<1> DEFINE T == SeqSet(s) \cup {x}
<1>1. s \in Seq(T) /\ x \in T
  BY DEF IsSeq
<1> HIDE DEF T
<1>2. /\ Append(s, x) \in Seq(T) /\ Len(Append(s, x)) = Len(s) + 1
      /\ Append(s, x)[Len(s) + 1] = x
      /\ \A i \in 1..Len(s) : Append(s, x)[i] = s[i]
  BY <1>1
<1>3. Append(s, x) \in [1..Len(Append(s, x)) -> T] /\ Len(Append(s, x)) \in Nat
  BY <1>2, LenProperties
<1> QED
  BY <1>2, <1>3, SeqFunction

\* Two sequences in a row.
LEMMA SeqConcat ==
    ASSUME NEW s, NEW t, IsSeq(s), IsSeq(t)
    PROVE  /\ IsSeq(s \o t) /\ Len(s \o t) = Len(s) + Len(t)
           /\ DOMAIN (s \o t) = 1..(Len(s) + Len(t))
           /\ \A i \in 1..Len(s) : (s \o t)[i] = s[i]
           /\ \A i \in 1..(Len(s) + Len(t)) : i > Len(s) => (s \o t)[i] = t[i - Len(s)]
<1> DEFINE T == SeqSet(s) \cup SeqSet(t)
<1>1. s \in Seq(T) /\ t \in Seq(T)
  BY DEF IsSeq
<1> HIDE DEF T
<1>2. /\ s \o t \in Seq(T) /\ Len(s \o t) = Len(s) + Len(t)
      /\ \A i \in 1..Len(s) : (s \o t)[i] = s[i]
      /\ \A i \in 1..(Len(s) + Len(t)) : i > Len(s) => (s \o t)[i] = t[i - Len(s)]
  BY <1>1
<1>3. s \o t \in [1..Len(s \o t) -> T] /\ Len(s \o t) \in Nat
  BY <1>2, LenProperties
<1> QED
  BY <1>2, <1>3, SeqFunction

\* A mailbox without a message of its own has one less.
LEMMA WithoutOne ==
    ASSUME NEW s, IsSeq(s), NEW u \in SeqSet(s)
    PROVE  IsSeq(Without(s, u)) /\ Len(Without(s, u)) = Len(s) - 1
<1> DEFINE i == CHOOSE i \in DOMAIN s : s[i] = u
<1>1. i \in DOMAIN s /\ s \in Seq(SeqSet(s)) /\ Len(s) \in Nat /\ i \in 1..Len(s)
  BY DEF SeqSet, IsSeq
<1>2. Without(s, u) = SubSeq(s, 1, i - 1) \o SubSeq(s, i + 1, Len(s))
  BY DEF Without, RemoveAt
<1> HIDE DEF i
<1> DEFINE a == SubSeq(s, 1, i - 1)
           b == SubSeq(s, i + 1, Len(s))
<1>3. a \in Seq(SeqSet(s)) /\ Len(a) = i - 1
  BY <1>1
<1>4. b \in Seq(SeqSet(s)) /\ Len(b) = Len(s) - i
  BY <1>1
<1> HIDE DEF a, b
<1>5. /\ a \in [1..Len(a) -> SeqSet(s)] /\ Len(a) \in Nat
      /\ b \in [1..Len(b) -> SeqSet(s)] /\ Len(b) \in Nat
  BY <1>3, <1>4
<1>6. IsSeq(a) /\ IsSeq(b)
  BY <1>5, SeqFunction
<1>7. IsSeq(a \o b) /\ Len(a \o b) = Len(a) + Len(b)
  BY <1>6, SeqConcat
<1>8. Without(s, u) = a \o b
  BY <1>2 DEF a, b
<1> QED
  BY <1>1, <1>3, <1>4, <1>7, <1>8

\* The elements of a sequence are finitely many.
LEMMA SeqSetFinite ==
    ASSUME NEW s, IsSeq(s), NEW T \in SUBSET SeqSet(s)
    PROVE  Cardinality(T) \in Nat
<1>1. Len(s) \in Nat /\ s \in Surjection(1..Len(s), SeqSet(s))
  BY DEF IsSeq, SeqSet, Surjection
<1>2. IsFiniteSet(SeqSet(s))
  BY <1>1, FS_Interval, FS_Surjection
<1> QED
  BY <1>2, FS_Subset, FS_CardinalityType

\* What is in order is a sequence.
LEMMA InOrderSeq ==
    ASSUME NEW U, Cardinality(U) \in Nat
    PROVE  IsSeq(InOrder(U)) /\ Len(InOrder(U)) = Cardinality(U)
<1>1. InOrder(U) \in [1..Cardinality(U) -> SeqSet(InOrder(U))]
  BY DEF InOrder, SeqSet
<1> QED
  BY <1>1, SeqFunction

-----------------------------------------------------------------------------
(* The count and the lines unread *)

\* Reading a line keeps the count bounded.
LEMMA BoundedTail ==
    ASSUME NEW w, IsSeq(w), w # <<>>, \A i \in DOMAIN w : w[i].k = "exists" => w[i].n \in Nat,
           NEW n \in Nat, NEW c \in Nat, NEW most \in Nat, Bounded(c, w, n, most)
    PROVE  /\ Noted(c, w[1]) \in Nat
           /\ Bounded(Noted(c, w[1]), Tail(w), n, IF most = 0 THEN 0 ELSE most - 1)
<1> DEFINE m == Len(w)
           d == Noted(c, w[1])
           v == Tail(w)
<1>1. /\ m \in Nat /\ m >= 1 /\ DOMAIN w = 1..m /\ Len(v) = m - 1 /\ DOMAIN v = 1..(m - 1)
      /\ \A i \in 1..(m - 1) : v[i] = w[i + 1]
  BY SeqBasics, SeqTail
<1>start. PICK p \in 0..m : p <= most /\ \E b : Bounding(b, c, w, n, p)
  BY DEF Bounded
<1>2. PICK b : p <= most /\ Bounding(b, c, w, n, p)
  BY <1>start
<1>3. /\ w[1].k = "exists" => d = w[1].n
      /\ w[1].k = "expunge" => d = (IF c > 0 THEN c - 1 ELSE 0)
      /\ w[1].k \notin {"exists", "expunge"} => d = c
      /\ d \in Nat
  BY <1>1 DEF Noted, NoCount
<1> HIDE DEF v, d
<1> DEFINE g == [i \in 0..(m - 1) |-> b[i + 1]]
<1>4. g \in [0..(m - 1) -> Nat] /\ \A i \in 0..(m - 1) : g[i] = b[i + 1]
  BY <1>1, <1>2 DEF Bounding
<1> HIDE DEF g, m
<1>5. g[Len(v)] <= n
  BY <1>1, <1>2, <1>4 DEF Bounding, m
<1>6. \A i \in 1..Len(v) : i > p - 1 =>
        /\ v[i].k = "expunge" => g[i - 1] <= g[i] + 1
        /\ v[i].k = "exists" => v[i].n <= g[i]
  <2> SUFFICES ASSUME NEW i \in 1..(m - 1), i > p - 1
               PROVE  /\ v[i].k = "expunge" => g[i - 1] <= g[i] + 1
                      /\ v[i].k = "exists" => v[i].n <= g[i]
    BY <1>1
  <2>1. i + 1 \in 1..Len(w) /\ i + 1 > p /\ v[i] = w[i + 1] /\ g[i] = b[i + 1] /\ g[i - 1] = b[i]
        /\ (i + 1) - 1 = i
    BY <1>1, <1>4 DEF m
  <2>2. /\ w[i + 1].k = "expunge" => b[(i + 1) - 1] <= b[i + 1] + 1
        /\ w[i + 1].k = "exists" => w[i + 1].n <= b[i + 1]
    BY <1>2, <2>1 DEF Bounding
  <2> QED
    BY <2>1, <2>2
<1>7. ASSUME NEW i \in 0..(m - 1), NEW j \in 0..(m - 1), p - 1 <= i, i <= j, Keeps(v, i, j)
      PROVE  g[i] <= g[j]
  <2>1. Keeps(w, i + 1, j + 1)
    <3> SUFFICES ASSUME NEW q \in 1..Len(w), i + 1 < q, q <= j + 1 PROVE w[q].k # "expunge"
      BY DEF Keeps
    <3>1. q - 1 \in 1..Len(v) /\ i < q - 1 /\ q - 1 <= j /\ v[q - 1] = w[(q - 1) + 1] /\ (q - 1) + 1 = q
      BY <1>1 DEF m
    <3> QED
      BY <3>1, <1>7 DEF Keeps
  <2>2. i + 1 \in 0..Len(w) /\ j + 1 \in 0..Len(w) /\ p <= i + 1 /\ i + 1 <= j + 1
    BY <1>1, <1>7 DEF m
  <2>3. b[i + 1] <= b[j + 1]
    BY <1>2, <2>1, <2>2 DEF Bounding
  <2> QED
    BY <2>3, <1>4
<1>8. CASE p = 0 \/ p = 1
  <2>1. d <= g[0]
    <3>1. g[0] = b[1] /\ b[1] \in Nat /\ 0 \in 0..Len(w) /\ 1 \in 0..Len(w) /\ 1 \in 1..Len(w) /\ b[0] \in Nat
      BY <1>1, <1>2, <1>4 DEF Bounding, m
    <3>2. CASE p = 1
      BY <3>1, <3>2, <1>2, <1>3 DEF Bounding
    <3>3. CASE p = 0
      <4>1. /\ c <= b[0] /\ (w[1].k = "expunge" => b[1 - 1] <= b[1] + 1)
            /\ w[1].k = "exists" => w[1].n <= b[1]
        BY <3>1, <3>3, <1>2 DEF Bounding
      <4>3. w[1].k = "expunge" => c <= b[1] + 1
        BY <4>1, <3>1
      <4>2. w[1].k # "expunge" => b[0] <= b[1]
        <5>1. w[1].k # "expunge" => Keeps(w, 0, 1)
          BY DEF Keeps
        <5> QED
          BY <5>1, <3>1, <3>3, <1>2 DEF Bounding
      <4> QED
        BY <4>1, <4>2, <4>3, <3>1, <1>3
    <3> QED
      BY <3>2, <3>3, <1>8
  <2>2. Bounding(g, d, v, n, 0)
    <3>1. Len(v) = m - 1
      BY <1>1
    <3>2. \A i, j \in 0..Len(v) : 0 <= i /\ i <= j /\ Keeps(v, i, j) => g[i] <= g[j]
      BY <1>1, <1>7, <1>8, <3>1
    <3>3. \A i \in 1..Len(v) : i > 0 =>
            /\ v[i].k = "expunge" => g[i - 1] <= g[i] + 1
            /\ v[i].k = "exists" => v[i].n <= g[i]
      BY <1>1, <1>6, <1>8, <3>1
    <3> QED
      BY <3>1, <3>2, <3>3, <2>1, <1>4, <1>5 DEF Bounding
  <2>3. 0 \in 0..Len(v)
    BY <1>1
  <2> QED
    BY <2>2, <2>3, <1>3 DEF Bounded, d, v
<1>9. CASE p > 1
  <2>1. v[p - 1].k = "exists" /\ v[p - 1].n <= g[p - 1] /\ p - 1 \in 0..Len(v) /\ p - 1 # 0
    <3>1. w[p].k = "exists" /\ w[p].n <= b[p]
      BY <1>2, <1>9 DEF Bounding
    <3>2. p - 1 \in 1..(m - 1) /\ (p - 1) + 1 = p
      BY <1>1, <1>9 DEF m
    <3> QED
      BY <3>1, <3>2, <1>1, <1>4
  <2>2. Bounding(g, d, v, n, p - 1)
    <3>1. Len(v) = m - 1
      BY <1>1
    <3>2. \A i, j \in 0..Len(v) : p - 1 <= i /\ i <= j /\ Keeps(v, i, j) => g[i] <= g[j]
      BY <1>7, <3>1
    <3> QED
      BY <3>1, <3>2, <2>1, <1>4, <1>5, <1>6 DEF Bounding
  <2> QED
    BY <2>1, <2>2, <1>2, <1>3, <1>9 DEF Bounded, d, v
<1> QED
  BY <1>8, <1>9

\* Another line bounds the count where what it tells fits the new bound.
LEMMA BoundedAppend ==
    ASSUME NEW w, IsSeq(w), NEW l, NEW n \in Nat, NEW k \in Nat,
           l.k = "expunge" => n <= k + 1,
           l.k # "expunge" => n <= k,
           l.k = "exists" => l.n <= k,
           NEW c \in Nat, NEW most \in Nat, Bounded(c, w, n, most)
    PROVE  Bounded(c, Append(w, l), k, most)
<1> DEFINE m == Len(w)
           v == Append(w, l)
<1>1. /\ m \in Nat /\ Len(v) = m + 1 /\ v[m + 1] = l
      /\ \A i \in 1..m : v[i] = w[i]
  BY SeqBasics, SeqAppend
<1>start. PICK p \in 0..m : p <= most /\ \E b : Bounding(b, c, w, n, p)
  BY DEF Bounded
<1>2. PICK b : p <= most /\ Bounding(b, c, w, n, p)
  BY <1>start
<1> DEFINE g == [i \in 0..(m + 1) |-> IF i = m + 1 THEN k ELSE b[i]]
<1>3. b \in [0..m -> Nat] /\ b[m] <= n
  BY <1>2 DEF Bounding
<1>4. g \in [0..(m + 1) -> Nat] /\ g[m + 1] = k /\ \A i \in 0..m : g[i] = b[i]
  BY <1>1, <1>3
<1> HIDE DEF g, m, v
<1>5. IF p = 0 THEN c <= g[0] ELSE v[p].k = "exists" /\ v[p].n <= g[p]
  <2>1. IF p = 0 THEN c <= b[0] ELSE w[p].k = "exists" /\ w[p].n <= b[p]
    BY <1>2 DEF Bounding
  <2>2. g[p] = b[p] /\ (p # 0 => v[p] = w[p])
    BY <1>1, <1>4
  <2> QED
    BY <2>1, <2>2
<1>6. ASSUME NEW i \in 1..(m + 1), i > p
      PROVE  /\ v[i].k = "expunge" => g[i - 1] <= g[i] + 1
             /\ v[i].k = "exists" => v[i].n <= g[i]
  <2>1. CASE i = m + 1
    <3>1. g[i - 1] = b[m] /\ g[i] = k /\ v[i] = l /\ b[m] \in Nat
      BY <1>1, <1>3, <1>4, <2>1
    <3> QED
      BY <3>1, <1>3
  <2>2. CASE i # m + 1
    <3>0. i \in 1..m /\ i - 1 \in 0..m /\ i \in 0..m
      BY <1>1, <2>2
    <3>1. i \in 1..Len(w) /\ g[i - 1] = b[i - 1] /\ g[i] = b[i] /\ v[i] = w[i]
      BY <3>0, <1>1, <1>4 DEF m
    <3>2. /\ w[i].k = "expunge" => b[i - 1] <= b[i] + 1
          /\ w[i].k = "exists" => w[i].n <= b[i]
      BY <1>2, <1>6, <3>1 DEF Bounding
    <3> QED
      BY <3>1, <3>2
  <2> QED
    BY <2>1, <2>2
<1>7. ASSUME NEW i \in 0..(m + 1), NEW j \in 0..(m + 1), p <= i, i <= j, Keeps(v, i, j)
      PROVE  g[i] <= g[j]
  <2>1. ASSUME NEW q \in 0..m, q <= j, i <= q PROVE b[i] <= b[q] /\ b[i] \in Nat /\ b[q] \in Nat
    <3>1. Keeps(w, i, q)
      <4> SUFFICES ASSUME NEW r \in 1..Len(w), i < r, r <= q PROVE w[r].k # "expunge"
        BY DEF Keeps
      <4>1. r \in 1..Len(v) /\ r <= j /\ v[r] = w[r]
        BY <1>1, <2>1 DEF m
      <4> QED
        BY <4>1, <1>7 DEF Keeps
    <3>2. i \in 0..Len(w) /\ q \in 0..Len(w)
      BY <1>1, <2>1 DEF m
    <3> QED
      BY <3>1, <3>2, <1>2, <1>7, <2>1 DEF Bounding
  <2>2. CASE j # m + 1
    <3>1. j \in 0..m /\ i \in 0..m
      BY <1>1, <1>7, <2>2
    <3> QED
      BY <3>1, <2>1, <1>4, <1>7
  <2>3. CASE j = m + 1 /\ i # m + 1
    <3>1. i \in 0..m /\ m \in 0..m /\ m <= j /\ i <= m
      BY <1>1, <2>3
    <3>2. b[i] <= b[m] /\ b[i] \in Nat /\ b[m] \in Nat
      BY <3>1, <2>1
    <3>3. l.k # "expunge"
      <4>1. m + 1 \in 1..Len(v) /\ i < m + 1 /\ m + 1 <= j
        BY <1>1, <3>1, <2>3
      <4> QED
        BY <4>1, <1>1, <1>7 DEF Keeps
    <3> QED
      BY <3>1, <3>2, <3>3, <2>3, <1>3, <1>4
  <2>4. CASE j = m + 1 /\ i = m + 1
    BY <2>4, <1>4
  <2> QED
    BY <2>2, <2>3, <2>4
<1>8. Bounding(g, c, v, k, p)
  <2>1. Len(v) = m + 1 /\ g[Len(v)] <= k
    BY <1>1, <1>4
  <2>2. \A i \in 1..Len(v) : i > p =>
          /\ v[i].k = "expunge" => g[i - 1] <= g[i] + 1
          /\ v[i].k = "exists" => v[i].n <= g[i]
    BY <2>1, <1>6
  <2>3. \A i, j \in 0..Len(v) : p <= i /\ i <= j /\ Keeps(v, i, j) => g[i] <= g[j]
    BY <2>1, <1>7
  <2> QED
    BY <2>1, <2>2, <2>3, <1>4, <1>5 DEF Bounding
<1>9. p \in 0..Len(v)
  BY <1>1
<1> QED
  BY <1>2, <1>8, <1>9 DEF Bounded, v

\* An EXISTS as the last line bounds any count.
LEMMA BoundedReset ==
    ASSUME NEW w, IsSeq(w), NEW l, l.k = "exists", NEW n \in Nat, l.n <= n, NEW c
    PROVE  Bounded(c, Append(w, l), n, Len(w) + 1)
<1> DEFINE m == Len(w) + 1
           v == Append(w, l)
           g == [i \in 0..m |-> n]
<1>1. m \in Nat /\ m # 0 /\ Len(v) = m /\ v[m] = l
  BY SeqBasics, SeqAppend
<1>2. g \in [0..m -> Nat] /\ \A i \in 0..m : g[i] = n
  OBVIOUS
<1> HIDE DEF g, m, v
<1>3. Bounding(g, c, v, n, m)
  <2>1. m \in 0..m
    BY <1>1
  <2>2. \A i \in 1..m : ~(i > m)
    BY <1>1
  <2>3. \A i, j \in 0..m : g[i] <= g[j]
    BY <1>2
  <2> QED
    BY <2>1, <2>2, <2>3, <1>1, <1>2 DEF Bounding
<1>4. m \in 0..Len(v) /\ m <= m
  BY <1>1
<1>5. Bounded(c, v, n, m)
  BY <1>3, <1>4 DEF Bounded
<1> QED
  BY <1>5 DEF m, v

\* A larger mailbox keeps the bound, and so does a later start.
LEMMA BoundedMore ==
    ASSUME NEW c, NEW w, IsSeq(w), NEW n \in Nat, NEW k \in Nat, n <= k,
           NEW most \in Nat, NEW later \in Nat, most <= later, Bounded(c, w, n, most)
    PROVE  Bounded(c, w, k, later)
<1>0. Len(w) \in Nat
  BY SeqBasics
<1>start. PICK p \in 0..Len(w) : p <= most /\ \E b : Bounding(b, c, w, n, p)
  BY DEF Bounded
<1>1. PICK b : p <= most /\ Bounding(b, c, w, n, p)
  BY <1>start
<1>2. b[Len(w)] <= k
  BY <1>0, <1>1 DEF Bounding
<1>3. Bounding(b, c, w, k, p) /\ p <= later
  BY <1>0, <1>1, <1>2 DEF Bounding
<1> QED
  BY <1>3 DEF Bounded

\* Lines that tell of no mailbox leave the bound as it is.
LEMMA BoundedConcat ==
    ASSUME NEW w, IsSeq(w), NEW t, IsSeq(t), NEW n \in Nat, NEW c \in Nat, NEW most \in Nat,
           \A i \in 1..Len(t) : t[i].k \notin {"expunge", "exists"},
           Bounded(c, w, n, most)
    PROVE  Bounded(c, w \o t, n, most)
<1> DEFINE m == Len(w)
           v == w \o t
           r == Len(t)
<1>1. /\ m \in Nat /\ r \in Nat /\ Len(v) = m + r
      /\ \A i \in 1..m : v[i] = w[i]
      /\ \A i \in 1..(m + r) : i > m => v[i] = t[i - m] /\ i - m \in 1..r
  BY SeqBasics, SeqConcat
<1>start. PICK p \in 0..m : p <= most /\ \E b : Bounding(b, c, w, n, p)
  BY DEF Bounded
<1>2. PICK b : p <= most /\ Bounding(b, c, w, n, p)
  BY <1>start
<1>3. b \in [0..m -> Nat] /\ b[m] <= n
  BY <1>2 DEF Bounding
<1> HIDE DEF r, m, v
<1> DEFINE g == [i \in 0..(m + r) |-> IF i > m THEN n ELSE b[i]]
<1>4. /\ g \in [0..(m + r) -> Nat]
      /\ \A i \in 0..(m + r) : i > m => g[i] = n
      /\ \A i \in 0..m : g[i] = b[i] /\ b[i] \in Nat
  BY <1>1, <1>3
<1> HIDE DEF g
<1>5. IF p = 0 THEN c <= g[0] ELSE v[p].k = "exists" /\ v[p].n <= g[p]
  <2>1. IF p = 0 THEN c <= b[0] ELSE w[p].k = "exists" /\ w[p].n <= b[p]
    BY <1>2 DEF Bounding
  <2>2. g[p] = b[p] /\ (p # 0 => v[p] = w[p])
    BY <1>1, <1>4
  <2> QED
    BY <2>1, <2>2
<1>6. ASSUME NEW i \in 1..(m + r), i > p
      PROVE  /\ v[i].k = "expunge" => g[i - 1] <= g[i] + 1
             /\ v[i].k = "exists" => v[i].n <= g[i]
  <2>1. CASE i > m
    BY <1>1, <2>1 DEF r
  <2>2. CASE ~(i > m)
    <3>1. i \in 1..Len(w) /\ g[i - 1] = b[i - 1] /\ g[i] = b[i] /\ v[i] = w[i]
      BY <1>1, <1>4, <2>2 DEF m
    <3>2. /\ w[i].k = "expunge" => b[i - 1] <= b[i] + 1
          /\ w[i].k = "exists" => w[i].n <= b[i]
      BY <1>2, <1>6, <3>1 DEF Bounding
    <3> QED
      BY <3>1, <3>2
  <2> QED
    BY <2>1, <2>2
<1>7. ASSUME NEW i \in 0..(m + r), NEW j \in 0..(m + r), p <= i, i <= j, Keeps(v, i, j)
      PROVE  g[i] <= g[j]
  <2>1. ASSUME NEW q \in 0..m, q <= j, i <= q PROVE b[i] <= b[q] /\ b[i] \in Nat /\ b[q] \in Nat
    <3>1. Keeps(w, i, q)
      <4> SUFFICES ASSUME NEW x \in 1..Len(w), i < x, x <= q PROVE w[x].k # "expunge"
        BY DEF Keeps
      <4>1. x \in 1..Len(v) /\ x <= j /\ v[x] = w[x]
        BY <1>1, <2>1 DEF m
      <4> QED
        BY <4>1, <1>7 DEF Keeps
    <3>2. i \in 0..Len(w) /\ q \in 0..Len(w)
      BY <1>1, <2>1 DEF m
    <3>3. b[i] <= b[q]
      BY <3>1, <3>2, <1>2, <1>7, <2>1 DEF Bounding
    <3> QED
      BY <3>2, <3>3, <1>4 DEF m
  <2>2. CASE j <= m
    <3>1. j \in 0..m /\ i \in 0..m
      BY <1>1, <1>7, <2>2
    <3> QED
      BY <3>1, <2>1, <1>4, <1>7
  <2>3. CASE j > m /\ i <= m
    <3>1. i \in 0..m /\ m \in 0..m /\ m <= j /\ i <= m
      BY <1>1, <2>3
    <3>2. b[i] <= b[m] /\ b[i] \in Nat /\ b[m] \in Nat
      BY <3>1, <2>1
    <3>3. g[j] = n /\ g[i] = b[i]
      BY <1>4, <2>3, <3>1
    <3> QED
      BY <3>2, <3>3, <1>3
  <2>4. CASE j > m /\ i > m
    <3>1. g[j] = n /\ g[i] = n
      BY <1>4, <2>4
    <3> QED
      BY <3>1
  <2> QED
    BY <2>2, <2>3, <2>4, <1>1
<1>8. Bounding(g, c, v, n, p)
  <2>1. Len(v) = m + r /\ g[Len(v)] <= n
    <3>1. m + r \in 0..(m + r) /\ m \in 0..m /\ Len(v) = m + r
      BY <1>1
    <3>2. CASE r = 0
      BY <1>1, <1>3, <1>4, <3>1, <3>2
    <3>3. CASE r # 0
      <4>1. m + r > m
        BY <1>1, <3>3
      <4>2. g[m + r] = n
        BY <4>1, <1>4, <3>1
      <4> QED
        BY <4>2, <3>1
    <3> QED
      BY <3>2, <3>3
  <2>2. \A i \in 1..Len(v) : i > p =>
          /\ v[i].k = "expunge" => g[i - 1] <= g[i] + 1
          /\ v[i].k = "exists" => v[i].n <= g[i]
    BY <2>1, <1>6
  <2>3. \A i, j \in 0..Len(v) : p <= i /\ i <= j /\ Keeps(v, i, j) => g[i] <= g[j]
    BY <2>1, <1>7
  <2> QED
    BY <2>1, <2>2, <2>3, <1>4, <1>5 DEF Bounding
<1>9. p \in 0..Len(v)
  BY <1>1
<1> QED
  BY <1>2, <1>8, <1>9 DEF Bounded, v

\* Where no message leaves any more the count is the server's at most.
LEMMA BoundedQuiet ==
    ASSUME NEW w, IsSeq(w), NEW n \in Nat, NEW c \in Nat, Bounded(c, w, n, 0),
           \A q \in DOMAIN w : w[q].k # "expunge"
    PROVE  c <= n
<1>0. Len(w) \in Nat /\ DOMAIN w = 1..Len(w)
  BY SeqBasics
<1>1. PICK b : Bounding(b, c, w, n, 0)
  BY <1>0 DEF Bounded
<1>2. Keeps(w, 0, Len(w)) /\ 0 \in 0..Len(w) /\ Len(w) \in 0..Len(w)
  BY <1>0 DEF Keeps
<1>3. c <= b[0] /\ b[0] <= b[Len(w)] /\ b[Len(w)] <= n /\ b[0] \in Nat /\ b[Len(w)] \in Nat
  BY <1>0, <1>1, <1>2 DEF Bounding
<1> QED
  BY <1>3

-----------------------------------------------------------------------------
(* Where the connection goes *)

\* Nothing is connected, asked or unread.
Nothing ==
    /\ out = <<>> /\ wire = <<>> /\ cl = Gone /\ cur = NoCur /\ turn = NoTurn
    /\ srv.sel = None /\ srv.view = <<>> /\ srv.mode = "idle"
    /\ srv.held = NoCmd /\ srv.busy = NoCmd /\ IsServer(srv)
    /\ srv.mail = [b \in Boxes |-> srv.mail[b]] /\ \A b \in Boxes : IsSeq(srv.mail[b])

\* The invariant holds of it.
LEMMA NothingHolds == Nothing => IInv
<1> SUFFICES ASSUME Nothing PROVE IInv
  OBVIOUS
<1> USE DEF Nothing
<1>1. /\ NoCmd.tag = 0 /\ NoCmd.op = "none" /\ NoCur.cmd = NoCmd /\ NoCur.wait = 0
      /\ Gone.state = "gone" /\ Gone.count = NoCount /\ NoTurn.on = FALSE /\ NoTurn.box = None
      /\ IsCur(NoCur) /\ IsSession(Gone) /\ IsTurn(NoTurn)
  BY DEF NoCmd, NoCur, Gone, NoTurn, IsCur, IsSession, IsTurn
<1>2. DOMAIN out = {} /\ DOMAIN wire = {} /\ IsSeq(out) /\ IsSeq(wire) /\ IsSeq(srv.view)
      /\ Len(out) = 0
  BY SeqEmpty
<1>3. Types
  BY <1>1, <1>2 DEF Types
<1>4. Modes /\ Leading /\ OwnLast /\ Rest /\ Trailing /\ Literals
  BY <1>1, <1>2 DEF Modes, Leading, OwnLast, Rest, Quiet, Trailing, Literals, Idle
<1>5. Tags
  BY <1>1, <1>2 DEF Tags, Tagged, Idle
<1>6. Stages /\ Offered /\ Selected /\ Opened /\ Works
  BY <1>1, <1>2 DEF Stages, Offered, Selected, Opened, Works, Idle, Opens, Walks, Writes, Transfers
<1>7. SignsInSafely /\ CountHolds /\ WritesLand
  BY <1>2 DEF SignsInSafely, CountHolds, WritesLand
<1> QED
  BY <1>3, <1>4, <1>5, <1>6, <1>7 DEF IInv

\* It holds at first.
LEMMA InitHolds == Init => IInv
<1> SUFFICES ASSUME Init PROVE IInv
  OBVIOUS
<1>1. srv.mail = <<<<1, 2>>, <<3>>>> /\ IsServer(srv)
  BY DEF Init, IsServer
<1>2. /\ srv.mail = [b \in Boxes |-> srv.mail[b]]
      /\ \A b \in Boxes : srv.mail[b] \in Seq(Nat)
  BY <1>1 DEF Boxes
<1>3. ASSUME NEW b \in Boxes PROVE IsSeq(srv.mail[b])
  <2>1. srv.mail[b] \in Seq(Nat)
    BY <1>2
  <2>2. srv.mail[b] \in [1..Len(srv.mail[b]) -> Nat] /\ Len(srv.mail[b]) \in Nat
    BY <2>1, LenProperties
  <2> QED
    BY <2>2, SeqFunction
<1>4. Nothing
  BY <1>1, <1>2, <1>3 DEF Init, Nothing, Gone
<1> QED
  BY <1>4, NothingHolds

\* Losing the connection leaves nothing.
LEMMA CutHolds ==
    ASSUME Types, Cut, cl' = Gone, cur' = NoCur, turn' = NoTurn
    PROVE  IInv'
<1>1. IsServer(srv') /\ srv'.mail = srv.mail
  BY DEF Cut, Types, IsServer
<1>2. srv'.mail = [b \in Boxes |-> srv'.mail[b]] /\ \A b \in Boxes : IsSeq(srv'.mail[b])
  BY <1>1 DEF Types
<1>3. Nothing'
  BY <1>1, <1>2 DEF Cut, Nothing, Types, IsServer
<1>4. Nothing' => IInv'
  BY NothingHolds, PTL
<1> QED
  BY <1>3, <1>4

\* A connection at rest: nothing is asked and nothing but news unread.
Calm ==
    /\ Types /\ Idle /\ Quiet /\ Modes /\ Stages /\ Offered /\ Selected
    /\ \A p \in DOMAIN wire : wire[p].k # "continue"

\* The invariant holds of it.
LEMMA CalmHolds == Calm => IInv
<1> SUFFICES ASSUME Calm PROVE IInv
  OBVIOUS
<1> USE DEF Calm
<1>1. /\ NoCmd.tag = 0 /\ cur = NoCur /\ cur.cmd = NoCmd /\ cur.wait = 0 /\ cur.cmd.op = "none"
      /\ srv.busy = NoCmd /\ srv.held = NoCmd /\ srv.mode = "idle"
  BY DEF NoCmd, NoCur, Types, Quiet, Modes
<1>2. out = <<>> /\ DOMAIN out = {} /\ Len(out) = 0
  BY SeqEmpty DEF Quiet
<1>3. Leading /\ OwnLast /\ Rest /\ Trailing /\ Literals
  BY <1>1, <1>2 DEF Leading, OwnLast, Rest, Trailing, Literals, Idle
<1>4. Tags
  <2>1. Tagged(0)
    BY <1>1, <1>2 DEF Tagged, Quiet
  <2> QED
    BY <2>1, <1>1 DEF Tags, Idle
<1>5. Opened /\ Works
  BY <1>1, <1>2 DEF Opened, Works, Idle, Opens, Walks, Writes, Transfers
<1>6. SignsInSafely /\ CountHolds /\ WritesLand
  BY <1>2 DEF SignsInSafely, CountHolds, WritesLand
<1> QED
  BY <1>3, <1>4, <1>5, <1>6 DEF IInv

\* Before the sign-in nothing is asked, and no turn is on.
LEMMA StillBefore ==
    ASSUME IInv, Idle, cl.state # "signed"
    PROVE  /\ cur = NoCur /\ turn = NoTurn /\ Quiet
           /\ \A p \in DOMAIN wire : wire[p].k # "continue"
<1>1. cur = NoCur
  BY DEF IInv, Types
<1>2. Quiet
  BY DEF IInv, Rest
<1>3. turn = NoTurn
  BY DEF IInv, Stages, Types, IsTurn, NoTurn
<1>4. \A p \in DOMAIN wire : wire[p].k # "continue"
  BY <1>2 DEF Quiet, IInv, Literals
<1> QED
  BY <1>1, <1>2, <1>3, <1>4

\* A session on its way to the sign-in: the connection, STARTTLS, CAPABILITY.
LEMMA ConnectHolds ==
    ASSUME IInv, Connect \/ Starttls \/ Offers
    PROVE  IInv'
<1>1. Idle /\ cl.state # "signed"
  BY DEF Connect, Starttls, Offers, IInv, Stages
<1>2. /\ cur = NoCur /\ turn = NoTurn /\ Quiet
      /\ \A p \in DOMAIN wire : wire[p].k # "continue"
  BY <1>1, StillBefore
<1>3. CASE cl' = Gone /\ Cut /\ UNCHANGED <<cur, turn>>
  BY <1>2, <1>3, CutHolds DEF IInv
<1> DEFINE Step == /\ UNCHANGED <<out, wire, cur, turn>>
                   /\ \E tls \in BOOLEAN : \E offers : srv' = [srv EXCEPT !.tls = tls, !.offers = offers]
                   /\ cl' = [cl EXCEPT !.state = cl'.state, !.offered = cl'.offered]
                   /\ cl'.state \in {"plain", "secured", "fresh"}
                   /\ cl'.state # "plain" => srv'.tls
                   /\ cl'.state = "fresh" => cl'.offered \subseteq srv'.offers
<1>4. CASE Step
  <2>1. /\ IsServer(srv') /\ IsSession(cl') /\ cl'.count = cl.count
        /\ srv'.mail = srv.mail /\ srv'.sel = srv.sel /\ srv'.view = srv.view /\ srv'.busy = srv.busy
        /\ srv'.held = srv.held /\ srv'.mode = srv.mode /\ srv'.literals = srv.literals
    BY <1>4 DEF IInv, Types, IsServer, IsSession
  <2>2. Types'
    BY <1>2, <1>4, <2>1 DEF IInv, Types, Idle
  <2>3. Idle' /\ Quiet' /\ Modes' /\ \A p \in DOMAIN wire' : wire'[p].k # "continue"
    BY <1>1, <1>2, <1>4, <2>1 DEF IInv, Modes, Quiet, Idle
  <2>4. Stages' /\ Offered' /\ Selected'
    BY <1>2, <1>4, <2>3 DEF Stages, Offered, Selected, NoTurn, NoCur, NoCmd
  <2>5. Calm' => IInv'
    BY CalmHolds, PTL
  <2> QED
    BY <2>2, <2>3, <2>4, <2>5 DEF Calm
<1>5. CASE Connect
  <2>1. PICK tls \in BOOLEAN, offers \in SUBSET Ways :
          /\ cl' = Reached(IF tls THEN "secured" ELSE "plain")
          /\ srv' = [srv EXCEPT !.tls = tls, !.offers = offers]
    BY <1>5 DEF Connect
  <2>2. /\ cl' = [cl EXCEPT !.state = cl'.state, !.offered = cl'.offered]
        /\ cl'.state = (IF tls THEN "secured" ELSE "plain")
    BY <2>1 DEF Reached, IInv, Types, IsSession
  <2>3. srv'.tls = tls
    BY <2>1 DEF IInv, Types, IsServer
  <2> QED
    BY <1>4, <1>5, <2>1, <2>2, <2>3 DEF Connect
<1>6. CASE Starttls
  <2>1. SUFFICES ASSUME ~(cl' = Gone /\ Cut) PROVE IInv'
    BY <1>3, <1>6 DEF Starttls
  <2>2. PICK offers : srv' = [srv EXCEPT !.tls = TRUE, !.offers = offers]
    BY <1>6, <2>1 DEF Starttls
  <2>3. /\ cl' = [cl EXCEPT !.state = cl'.state, !.offered = cl'.offered]
        /\ cl'.state = "secured" /\ srv'.tls
    BY <1>6, <2>1, <2>2 DEF Starttls, IInv, Types, IsSession, IsServer
  <2> QED
    BY <1>4, <1>6, <2>1, <2>2, <2>3 DEF Starttls
<1>7. CASE Offers
  <2>1. SUFFICES ASSUME ~(cl' = Gone /\ Cut) PROVE IInv'
    BY <1>3, <1>7 DEF Offers
  <2>2. /\ cl' = [cl EXCEPT !.state = cl'.state, !.offered = cl'.offered]
        /\ cl'.state = "fresh" /\ cl'.offered = srv.offers
        /\ UNCHANGED <<out, wire, srv>> /\ cl.state = "secured"
    BY <1>7, <2>1 DEF Offers, CapabilitiesOf, IInv, Types, IsSession
  <2>3. srv.tls
    BY <2>2 DEF IInv, Offered
  <2>4. Types' /\ Idle' /\ Quiet' /\ Modes' /\ \A p \in DOMAIN wire' : wire'[p].k # "continue"
    <3>1. IsSession(cl') /\ cl'.count = cl.count
      BY <2>2 DEF IInv, Types, IsSession
    <3> QED
      BY <1>1, <1>2, <1>7, <2>2, <3>1 DEF Offers, IInv, Types, Modes, Quiet, Idle
  <2>5. Stages' /\ Offered' /\ Selected'
    BY <1>2, <1>7, <2>2, <2>3, <2>4 DEF Offers, Stages, Offered, Selected, NoTurn, NoCur, NoCmd
  <2>6. Calm' => IInv'
    BY CalmHolds, PTL
  <2> QED
    BY <2>4, <2>5, <2>6 DEF Calm
<1> QED
  BY <1>5, <1>6, <1>7

\* The caller is done with a session, or its sign-in finds no way.
LEMMA LogOutHolds ==
    ASSUME IInv, LogOut
    PROVE  IInv'
<1>1. cur = NoCur /\ turn = NoTurn
  BY DEF LogOut, IInv, Types, Stages, IsTurn, NoTurn
<1> QED
  BY <1>1, CutHolds DEF LogOut, IInv

\* The caller hands back what it asked nothing of.
LEMMA EndTurnHolds ==
    ASSUME IInv, EndTurn
    PROVE  IInv'
<1>1. Idle /\ turn.on /\ cur = NoCur /\ Quiet /\ cl.state = "signed"
  BY DEF EndTurn, IInv, Types, Rest, Stages
<1>2. /\ Types' /\ Idle' /\ Quiet' /\ Modes' /\ \A p \in DOMAIN wire' : wire'[p].k # "continue"
  <2>1. IsTurn(NoTurn)
    BY DEF IsTurn, NoTurn
  <2>2. \A p \in DOMAIN wire : wire[p].k # "continue"
    BY <1>1 DEF Quiet, IInv, Literals
  <2>3. Types'
    BY <2>1 DEF EndTurn, IInv, Types, Idle
  <2> QED
    BY <2>2, <2>3, <1>1 DEF EndTurn, IInv, Modes, Quiet, Idle
<1>3. Stages' /\ Offered' /\ Selected'
  BY <1>1, <1>2 DEF EndTurn, IInv, Stages, Offered, Selected, NoTurn, NoCur, NoCmd
<1>4. Calm' => IInv'
  BY CalmHolds, PTL
<1> QED
  BY <1>2, <1>3, <1>4 DEF Calm

-----------------------------------------------------------------------------
(* What is asked *)

\* A line of an answer or of a literal request.
NewsOnly(w) ==
    /\ IsSeq(w)
    /\ \A p \in DOMAIN w : /\ w[p].k \notin {"done", "expunge", "continue"}
                           /\ w[p].k = "exists" => w[p].n \in Nat

\* The command x fits the server as it stands.
Fits(x) ==
    /\ x.op \in Ways => srv.tls /\ x.op \in srv.offers
    /\ x.op \in Walks => x.low >= 1 /\ x.high <= Len(srv.view) /\ x.low <= x.high
    /\ x.op \in Writes => srv.sel = x.box /\ srv.rw

\* A command that fits, asked on a quiet connection, keeps the invariant.
LEMMA AskHolds ==
    ASSUME Types, out = <<>>, srv.busy = NoCmd, srv.mode = "idle", srv.held = NoCmd,
           srv' = srv, NewsOnly(wire'), NEW x, NEW own, out' = Append(out, x),
           IsCur(cur'), cur'.cmd = own, cur'.wait = (IF Apart(own) THEN 1 ELSE 0),
           Sound(own, srv.literals), Sound(x, srv.literals), x.tag = own.tag,
           x = own \/ (own.op = "sign_in" /\ x.op \in Ways),
           own.op \notin {"none", "literal", "check"},
           IsSession(cl'), cl'.count \in Nat \cup {NoCount}, IsTurn(turn'),
           Stages', Offered', Selected', Works', own.op \in Opens => cl'.count \in Nat, Fits(x)
    PROVE  IInv'
<1>1. /\ IsSeq(out') /\ DOMAIN out' = {1} /\ Len(out') = 1 /\ out'[1] = x /\ out' # <<>>
  <2>1. IsSeq(out) /\ Len(out) = 0
    BY SeqEmpty
  <2>2. IsSeq(out') /\ Len(out') = Len(out) + 1 /\ out'[Len(out) + 1] = x
    <3>1. IsSeq(Append(out, x))
      BY <2>1, SeqAppend
    <3>2. Len(Append(out, x)) = Len(out) + 1
      BY <2>1, SeqAppend
    <3>3. Append(out, x)[Len(out) + 1] = x
      BY <2>1, SeqAppend
    <3> QED
      BY <3>1, <3>2, <3>3
  <2>3. Len(out) + 1 = 1 /\ 1..1 = {1}
    BY <2>1
  <2> QED
    BY <2>2, <2>3, SeqBasics
<1>2. NoCmd.tag = 0 /\ own.tag \in Nat /\ own.tag # 0 /\ ~Idle'
  BY DEF NoCmd, Sound, Idle
<1>3. x.op \notin {"literal", "none"}
  BY DEF Ways
<1>4. Types'
  BY <1>1, <1>2 DEF Types, NewsOnly
<1>5. Modes' /\ Leading' /\ Rest' /\ Trailing'
  BY <1>1, <1>2, <1>3 DEF Modes, Leading, Rest, Trailing
<1>6. Tags'
  BY <1>1, <1>2 DEF Tags, Tagged, NewsOnly
<1>7. OwnLast'
  BY <1>1, <1>2 DEF OwnLast, Tells, NewsOnly
<1>8. Literals'
  <2>1. cur'.wait = 1 => Apart(own)
    OBVIOUS
  <2>2. x.lit = "plus" /\ x.op \in Appends => cur'.wait = 1 /\ x = own
    BY DEF Apart, Ways, Appends
  <2>3. Apart(own) => x = own
    BY DEF Apart, Sound, Appends
  <2>4. x.lit = "sync" => cur'.wait = 1 /\ x = own
    BY DEF Apart, Sound, Ways, Appends
  <2> QED
    BY <1>1, <1>2, <1>3, <2>1, <2>2, <2>3, <2>4 DEF Literals, NewsOnly
<1>9. Opened'
  BY <1>1, <1>2 DEF Opened, Tells, NewsOnly
<1>10. SignsInSafely' /\ CountHolds' /\ WritesLand'
  BY <1>1 DEF SignsInSafely, CountHolds, WritesLand, Fits
<1> QED
  BY <1>4, <1>5, <1>6, <1>7, <1>8, <1>9, <1>10 DEF IInv

\* A tag nothing carries is at hand where all that is in flight has one tag.
LEMMA TagIsFresh ==
    ASSUME NEW tag \in Nat, Tagged(tag)
    PROVE  /\ NextTag \in 1..TAGS
           /\ NextTag \notin {srv.busy.tag, srv.held.tag}
           /\ \A i \in DOMAIN out : out[i].tag # NextTag
           /\ \A p \in DOMAIN wire : ~Tells(wire[p], NextTag)
<1> DEFINE used == {srv.busy.tag, srv.held.tag} \cup {out[i].tag : i \in DOMAIN out}
                     \cup {wire[i].tag : i \in {i \in DOMAIN wire : wire[i].k = "done"}}
           P(n) == n \in 1..TAGS /\ n \notin used /\ \A m \in 1..n - 1 : m \in used
<1>1. used \subseteq {0, tag}
  BY DEF Tagged
<1> DEFINE n == IF 1 \in used THEN 2 ELSE 1
<1>2. n \in 1..TAGS /\ n \notin used /\ \A m \in 1..n - 1 : m \in used
  <2>1. CASE 1 \in used
    <3>1. 2 \notin used /\ n = 2
      BY <1>1, <2>1
    <3>2. \A m \in 1..2 - 1 : m = 1
      OBVIOUS
    <3> QED
      BY <2>1, <3>1, <3>2 DEF TAGS
  <2>2. CASE 1 \notin used
    <3>1. \A m \in 1..1 - 1 : FALSE
      OBVIOUS
    <3> QED
      BY <2>2, <3>1 DEF TAGS
  <2> QED
    BY <2>1, <2>2
<1> HIDE DEF n
<1>3. NextTag = CHOOSE i \in 1..TAGS : i \notin used /\ \A m \in 1..i - 1 : m \in used
  BY DEF NextTag
<1> HIDE DEF used
<1>4. NextTag \in 1..TAGS /\ NextTag \notin used
  BY <1>2, <1>3
<1> QED
  BY <1>4 DEF used, Tells

\* The tag of a command asked at rest.
LEMMA RestTag ==
    ASSUME IInv, Idle
    PROVE  /\ NextTag \in 1..TAGS
           /\ NextTag \notin {srv.busy.tag, srv.held.tag}
           /\ \A i \in DOMAIN out : out[i].tag # NextTag
           /\ \A p \in DOMAIN wire : ~Tells(wire[p], NextTag)
  BY TagIsFresh DEF IInv, Tags

\* What a quiet connection has.
LEMMA QuietSays ==
    ASSUME IInv, Quiet
    PROVE  /\ out = <<>> /\ srv.busy = NoCmd /\ srv.mode = "idle" /\ srv.held = NoCmd
           /\ NewsOnly(wire)
  BY DEF IInv, Types, Modes, Literals, Quiet, NewsOnly

\* A command without fields.
LEMMA NoCmdSays == IsCmd(NoCmd) /\ NoCmd.lit = "none"
  BY DEF NoCmd, IsCmd

\* The sign-in of a session that read what the server offers.
LEMMA SignInHolds ==
    ASSUME IInv, SignIn
    PROVE  IInv'
<1>1. Idle /\ cl.state = "fresh"
  BY DEF SignIn, TakeFresh
<1>2. cur = NoCur /\ turn = NoTurn /\ Quiet
  BY <1>1, StillBefore
<1>3. /\ out = <<>> /\ srv.busy = NoCmd /\ srv.mode = "idle" /\ srv.held = NoCmd
      /\ NewsOnly(wire)
  BY <1>2, QuietSays
<1>4. NextTag \in Nat \ {0}
  BY <1>1, RestTag DEF TAGS
<1> DEFINE t == NextTag
<1> HIDE DEF t
<1>5. PICK way \in Ways \cap cl.offered : out' = Append(out, [NoCmd EXCEPT !.op = way, !.tag = t])
  BY DEF SignIn, t
<1> DEFINE x == [NoCmd EXCEPT !.op = way, !.tag = t]
           own == [NoCmd EXCEPT !.op = "sign_in", !.tag = t]
<1>6. /\ Sound(x, srv.literals) /\ Sound(own, srv.literals) /\ x.tag = t /\ own.tag = t
      /\ x.op = way /\ own.op = "sign_in" /\ ~Apart(own)
  <2> HIDE DEF x, own
  <2>1. IsCmd(x) /\ x.tag = t /\ x.op = way /\ x.lit = "none"
    <3>1. x = [NoCmd EXCEPT !.op = way, !.tag = t]
      BY DEF x
    <3> QED
      BY <3>1, NoCmdSays DEF IsCmd
  <2>4. IsCmd(own) /\ own.tag = t /\ own.op = "sign_in" /\ own.lit = "none"
    <3>1. own = [NoCmd EXCEPT !.op = "sign_in", !.tag = t]
      BY DEF own
    <3> QED
      BY <3>1, NoCmdSays DEF IsCmd
  <2>2. t \in Nat \ {0} /\ way \in Ways
    BY <1>4 DEF t
  <2>3. way \notin Opens \cup {"append"} /\ way \notin Walks
    BY <2>2 DEF Ways, Opens, Walks
  <2> QED
    BY <2>1, <2>2, <2>3, <2>4 DEF Sound, Opens, Walks, Apart
<1>7. IsCur(cur') /\ cur'.cmd = own /\ cur'.wait = 0
  BY DEF SignIn, IsCur, NoCur, t
<1>8. /\ cl' = [cl EXCEPT !.state = "gone"] /\ IsSession(cl') /\ cl'.state = "gone"
      /\ cl'.count = cl.count /\ cl'.offered = cl.offered /\ turn' = turn /\ srv' = srv /\ wire' = wire
  BY DEF SignIn, TakeFresh, IInv, Types, IsSession
<1> HIDE DEF x, own
<1>9. Stages' /\ Selected' /\ Works'
  BY <1>2, <1>6, <1>7, <1>8 DEF Stages, Selected, Works, Idle, NoTurn, Walks, Writes, Transfers
<1>10. cl.offered \subseteq srv.offers /\ srv.tls
  BY <1>1 DEF IInv, Offered
<1>11. Offered'
  BY <1>6, <1>7, <1>8, <1>10 DEF Offered
<1>12. Fits(x)
  BY <1>5, <1>6, <1>10 DEF Fits, Ways, Walks, Writes, Transfers
<1>13. Types /\ cl'.count \in Nat \cup {NoCount} /\ IsTurn(turn')
  BY <1>8 DEF IInv, Types
<1>14. own.op \notin {"none", "literal", "check"} /\ own.op \notin Opens
  BY <1>6 DEF Opens
<1>15. out' = Append(out, x) /\ NewsOnly(wire') /\ cur'.wait = (IF Apart(own) THEN 1 ELSE 0)
  BY <1>3, <1>5, <1>6, <1>7, <1>8 DEF x
<1>16. x.tag = own.tag /\ (x = own \/ (own.op = "sign_in" /\ x.op \in Ways))
  BY <1>5, <1>6
<1> QED
  BY <1>3, <1>6, <1>7, <1>8, <1>9, <1>11, <1>12, <1>13, <1>14, <1>15, <1>16, AskHolds

\* A window lies within the count, or there is none.
LEMMA WindowFits ==
    ASSUME NEW top \in Int, NEW count \in Nat
    PROVE  LET w == Window(top, count)
           IN  w.high > 0 => /\ w.low \in Nat \ {0} /\ w.high \in Nat
                             /\ w.low >= 1 /\ w.low <= w.high /\ w.high <= count
<1> DEFINE h == Low(top, count)
<1>1. h \in Int /\ h <= count
  BY DEF Low
<1> HIDE DEF h
<1>2. CASE h > 0
  <2>1. Window(top, count) = [low |-> High(h - SEARCH_WINDOW + 1, 1), high |-> h]
    BY <1>2 DEF Window, h
  <2>2. /\ High(h - SEARCH_WINDOW + 1, 1) \in Int /\ High(h - SEARCH_WINDOW + 1, 1) >= 1
        /\ High(h - SEARCH_WINDOW + 1, 1) <= h
    BY <1>1, <1>2, WindowAssumption DEF High
  <2> QED
    BY <2>1, <2>2, <1>1, <1>2
<1>3. CASE ~(h > 0)
  <2>1. Window(top, count) = [low |-> 0, high |-> 0]
    BY <1>3 DEF Window, h
  <2> QED
    BY <2>1
<1> QED
  BY <1>2, <1>3

\* The top of a window is a sequence number or zero.
LEMMA WindowNat ==
    ASSUME NEW top \in Int, NEW count \in Nat
    PROVE  Window(top, count).high \in Nat
<1> DEFINE h == Low(top, count)
<1>1. h \in Int
  BY DEF Low
<1> HIDE DEF h
<1>2. CASE h > 0
  <2>1. Window(top, count) = [low |-> High(h - SEARCH_WINDOW + 1, 1), high |-> h]
    BY <1>2 DEF Window, h
  <2> QED
    BY <2>1, <1>1, <1>2
<1>3. CASE ~(h > 0)
  <2>1. Window(top, count) = [low |-> 0, high |-> 0]
    BY <1>3 DEF Window, h
  <2> QED
    BY <2>1
<1> QED
  BY <1>2, <1>3

\* A step that leaves the connection and the session alone.
LEMMA UnchangedHolds ==
    ASSUME IInv, UNCHANGED <<srv, out, wire, cl, cur, turn>>
    PROVE  IInv'
  BY DEF IInv, Types, Modes, Leading, Tags, Tagged, Rest, Quiet, OwnLast, Stages, Offered,
         SignsInSafely, Trailing, Literals, Selected, Works, Opened, CountHolds, WritesLand,
         Counts, Answered, Idle

\* The command a turn asks, by the fields it is given.
Asked(c, op, tag, box, lit, low, high) ==
    /\ IsCmd(c) /\ c.op = op /\ c.tag = tag /\ c.box = box /\ c.lit = lit
    /\ c.low = low /\ c.high = high

\* How a string goes fits the server.
LEMMA LiteralFits ==
    ASSUME NEW op, NEW size
    PROVE  /\ LiteralOf(op, size) # "none" => op \in Appends \cup {"uid_search"}
           /\ LiteralOf(op, size) = "plus" => Unsynchronized(srv.literals, size)
<1>1. CASE op \notin Appends \cup {"uid_search"}
  <2>1. LiteralOf(op, size) = "none"
    BY <1>1 DEF LiteralOf
  <2> QED
    BY <2>1
<1>2. CASE op \in Appends \cup {"uid_search"} /\ Unsynchronized(srv.literals, size)
  BY <1>2
<1>3. CASE op \in Appends \cup {"uid_search"} /\ ~Unsynchronized(srv.literals, size)
  <2>1. LiteralOf(op, size) = "sync"
    BY <1>3 DEF LiteralOf
  <2> QED
    BY <2>1, <1>3
<1> QED
  BY <1>1, <1>2, <1>3

\* A turn asks what fits: its own mailbox, a window below its count.
LEMMA BeginHolds ==
    ASSUME IInv, NEW op \in Ops, Begin(op)
    PROVE  IInv'
<1>1. /\ cl.state = "signed" /\ Idle /\ turn.on /\ MayGo(op)
      /\ op \notin Opens \cup {"append", "list", "status"} => turn.box # None
  BY DEF Begin, Selection
<1>2. Quiet /\ cur = NoCur
  BY <1>1 DEF IInv, Rest, Types
<1>3. /\ out = <<>> /\ srv.busy = NoCmd /\ srv.mode = "idle" /\ srv.held = NoCmd
      /\ NewsOnly(wire)
  BY <1>2, QuietSays
<1>4. NextTag \in Nat \ {0}
  BY <1>1, RestTag DEF TAGS
<1> DEFINE top == IF op \in Walks THEN Window(cl.count, cl.count) ELSE [low |-> 0, high |-> 0]
<1>5. op \in Walks => cl.count \in Nat /\ cl.count <= Len(srv.view)
  <2> SUFFICES ASSUME op \in Walks PROVE cl.count \in Nat /\ cl.count <= Len(srv.view)
    OBVIOUS
  <2>1. turn.box # None
    BY <1>1 DEF Walks, Opens
  <2>2. cl.count \in Nat /\ Counts(0)
    BY <2>1 DEF IInv, Selected
  <2>3. IsSeq(wire) /\ IsSeq(srv.view) /\ \A q \in DOMAIN wire : wire[q].k # "expunge"
    BY <1>3 DEF NewsOnly, IInv, Types
  <2>4. Len(srv.view) \in Nat
    BY <2>3, SeqBasics
  <2> QED
    BY <2>2, <2>3, <2>4, BoundedQuiet DEF Counts
<1>6. op \in Writes => srv.sel = turn.box /\ srv.rw
  <2> SUFFICES ASSUME op \in Writes PROVE srv.sel = turn.box /\ srv.rw
    OBVIOUS
  <2>1. turn.box # None
    BY <1>1 DEF Writes, Opens, Transfers
  <2> QED
    BY <1>1, <2>1 DEF IInv, Selected, MayGo
<1>8. \E box, size, c, low, high :
        /\ op \in Opens \cup {"append"} => box \in Boxes
        /\ op \in Writes => box = turn.box
        /\ op \in Walks => low = top.low /\ high = top.high
        /\ Asked(c, op, NextTag, box, LiteralOf(op, size), low, high) /\ c.size = size
        /\ \/ UNCHANGED <<cl, turn, srv, out, wire, cur>>
           \/ cl' = Gone /\ Cut /\ turn' = NoTurn /\ cur' = cur
           \/ /\ op \in Walks => top.high # 0
              /\ Send(c, Forgetting(op))
              /\ turn' = IF op \in Opens THEN [turn EXCEPT !.box = None] ELSE turn
              /\ UNCHANGED <<srv, wire>>
  <2>1. PICK box \in CASE op \in Opens \cup {"status"} -> Boxes [] op = "append" -> {1} [] OTHER -> {turn.box},
             uid \in IF op \in Writes \cup {"uid_part"} THEN Named ELSE {0},
             size \in IF op \in Appends /\ srv.literals = "minus" THEN {"small", "big"}
                                                              ELSE {"small"},
             at \in IF op = "uid_part" THEN {0, 1} ELSE {0} :
       /\ op \in Writes \cup Appends => srv.changes < MaxChanges
       /\ op = "uid_store" => srv.ver[uid] < MaxVer
       /\ LET w == IF op \in Walks THEN Window(cl.count, cl.count)
                                   ELSE [low |-> at, high |-> 0]
              cmd == [op |-> op, tag |-> NextTag, box |-> box, uid |-> uid,
                      low |-> w.low, high |-> w.high, lit |-> LiteralOf(op, size),
                      size |-> size]
          IN IF op \in Walks /\ (~Starts(cl.count) \/ w.high = 0)
               THEN /\ last' = [cmd |-> cmd, got |-> {}, snap |-> Snapped,
                                how |-> IF w.high = 0 THEN "ok" ELSE "protocol"]
                    /\ IF w.high = 0 THEN UNCHANGED <<cl, turn, srv, out, wire>>
                       ELSE cl' = Gone /\ Cut /\ turn' = [on |-> FALSE, box |-> None]
                    /\ UNCHANGED cur
               ELSE /\ Send(cmd, Forgetting(op))
                    /\ last' = NoLast
                    /\ turn' = IF op \in Opens THEN [turn EXCEPT !.box = None]
                                               ELSE turn
                    /\ UNCHANGED <<srv, wire>>
    BY ZenonT(60) DEF Begin
  <2> DEFINE x == IF op \in Walks THEN Window(cl.count, cl.count) ELSE [low |-> at, high |-> 0]
             c == [op |-> op, tag |-> NextTag, box |-> box, uid |-> uid,
                   low |-> x.low, high |-> x.high, lit |-> LiteralOf(op, size), size |-> size]
  <2>2. Asked(c, op, NextTag, box, LiteralOf(op, size), x.low, x.high) /\ c.size = size
    BY DEF Asked, IsCmd
  <2>3. op \in Walks => x.low = top.low /\ x.high = top.high
    OBVIOUS
  <2>4. /\ op \in Opens \cup {"append"} => box \in Boxes
        /\ op \in Writes => box = turn.box
    BY DEF Opens, Boxes, Writes, Transfers
  <2>5. \/ UNCHANGED <<cl, turn, srv, out, wire, cur>>
        \/ cl' = Gone /\ Cut /\ turn' = NoTurn /\ cur' = cur
        \/ /\ op \in Walks => top.high # 0
           /\ Send(c, Forgetting(op))
           /\ turn' = IF op \in Opens THEN [turn EXCEPT !.box = None] ELSE turn
           /\ UNCHANGED <<srv, wire>>
    <3>1. CASE op \in Walks /\ (~Starts(cl.count) \/ x.high = 0)
      BY <2>1, <3>1 DEF NoTurn
    <3>2. CASE ~(op \in Walks /\ (~Starts(cl.count) \/ x.high = 0))
      BY <2>1, <2>3, <3>2
    <3> QED
      BY <3>1, <3>2
  <2> QED
    <3> HIDE DEF c, x
    <3> WITNESS box, size, c, x.low, x.high
    <3> QED
      BY <2>2, <2>3, <2>4, <2>5
<1>9. PICK box, size, c, low, high :
        /\ op \in Opens \cup {"append"} => box \in Boxes
        /\ op \in Writes => box = turn.box
        /\ op \in Walks => low = top.low /\ high = top.high
        /\ Asked(c, op, NextTag, box, LiteralOf(op, size), low, high) /\ c.size = size
        /\ \/ UNCHANGED <<cl, turn, srv, out, wire, cur>>
           \/ cl' = Gone /\ Cut /\ turn' = NoTurn /\ cur' = cur
           \/ /\ op \in Walks => top.high # 0
              /\ Send(c, Forgetting(op))
              /\ turn' = IF op \in Opens THEN [turn EXCEPT !.box = None] ELSE turn
              /\ UNCHANGED <<srv, wire>>
  BY <1>8
<1>10. CASE UNCHANGED <<cl, turn, srv, out, wire, cur>>
  BY <1>10, UnchangedHolds
<1>11. CASE cl' = Gone /\ Cut /\ turn' = NoTurn /\ cur' = cur
  BY <1>2, <1>11, CutHolds DEF IInv
<1>12. CASE /\ op \in Walks => top.high # 0
            /\ Send(c, Forgetting(op))
            /\ turn' = IF op \in Opens THEN [turn EXCEPT !.box = None] ELSE turn
            /\ UNCHANGED <<srv, wire>>
  <2>1. op \in Walks => /\ low \in Nat \ {0} /\ high \in Nat
                        /\ low >= 1 /\ low <= high /\ high <= Len(srv.view)
    <3> SUFFICES ASSUME op \in Walks
                 PROVE  /\ low \in Nat \ {0} /\ high \in Nat
                        /\ low >= 1 /\ low <= high /\ high <= Len(srv.view)
      OBVIOUS
    <3> DEFINE v == Window(cl.count, cl.count)
    <3>1. low = v.low /\ high = v.high /\ v.high # 0
      BY <1>9, <1>12
    <3>2. cl.count \in Int /\ cl.count \in Nat
      BY <1>5
    <3>3. v.high \in Nat
      BY <3>2, WindowNat
    <3>4. v.high > 0 => /\ v.low \in Nat \ {0} /\ v.high \in Nat
                        /\ v.low >= 1 /\ v.low <= v.high /\ v.high <= cl.count
      BY <3>2, WindowFits
    <3>5. Len(srv.view) \in Nat
      BY SeqBasics DEF IInv, Types
    <3> HIDE DEF v
    <3> QED
      BY <3>1, <3>2, <3>3, <3>4, <3>5, <1>5
  <2>2. Sound(c, srv.literals)
    BY <1>4, <1>9, <2>1, LiteralFits DEF Asked, Sound
  <2>3. Fits(c)
    <3>1. c.op = op /\ c.low = low /\ c.high = high /\ c.box = box
      BY <1>9 DEF Asked
    <3>2. op \notin Ways
      BY DEF Ops, Ways, Opens, Walks, Fetches, Writes, Transfers, Appends
    <3> QED
      BY <1>6, <1>9, <2>1, <3>1, <3>2 DEF Fits
  <2>4. IsCur(cur') /\ cur'.cmd = c /\ cur'.wait = (IF Apart(c) THEN 1 ELSE 0) /\ out' = Append(out, c)
    BY <1>12 DEF Send, IsCur
  <2>5. c.op = op /\ op \notin {"none", "literal", "check", "sign_in"}
    BY <1>9 DEF Asked, Ops, Ways, Opens, Walks, Fetches, Writes, Transfers, Appends
  <2>6. /\ cl' = Forgetting(op) /\ IsSession(cl') /\ cl'.state = cl.state /\ cl'.count \in Nat \cup {NoCount}
        /\ op \in Opens => cl'.count = 0
        /\ op \notin Opens => cl' = cl
    BY <1>12 DEF Send, Forgetting, IInv, Types, IsSession
  <2>7. /\ IsTurn(turn') /\ turn'.on = turn.on
        /\ op \in Opens => turn'.box = None
        /\ op \notin Opens => turn' = turn
    BY <1>12 DEF IInv, Types, IsTurn
  <2>8. Stages'
    BY <1>1, <2>4, <2>5, <2>6, <2>7 DEF Stages, Idle
  <2>9. Offered'
    BY <1>1, <2>4, <2>5, <2>6 DEF Offered
  <2>10. Selected'
    <3>1. CASE op \in Opens
      BY <2>7, <3>1 DEF Selected
    <3>2. CASE op \notin Opens
      BY <1>12, <2>4, <2>5, <2>6, <2>7, <3>2 DEF IInv, Selected, Counts
    <3> QED
      BY <3>1, <3>2
  <2>13. Works'
    <3>1. op \in Walks \cup Writes => op \notin Opens \cup {"append", "list", "status"}
      BY DEF Walks, Writes, Transfers, Opens
    <3>2. cur'.cmd.op = op /\ cur'.cmd.box = box
      BY <1>9, <2>4 DEF Asked
    <3> QED
      BY <1>1, <1>9, <2>6, <2>7, <3>1, <3>2 DEF Works, MayGo
  <2>11. srv' = srv /\ NewsOnly(wire') /\ Types
    BY <1>3, <1>12 DEF IInv
  <2>12. c.op \in Opens => cl'.count \in Nat
    BY <2>5, <2>6
  <2> QED
    BY <1>3, <2>2, <2>3, <2>4, <2>5, <2>6, <2>7, <2>8, <2>9, <2>10, <2>11, <2>12, <2>13, AskHolds
<1> QED
  BY <1>9, <1>10, <1>11, <1>12

\* What the invariant says once nothing is asked.
LEMMA NoCurSays ==
    /\ NoCur.cmd = NoCmd /\ NoCur.wait = 0 /\ NoCmd.op = "none" /\ NoCmd.tag = 0
    /\ IsCur(NoCur) /\ NoTurn.on = FALSE /\ NoTurn.box = None /\ IsTurn(NoTurn)
  BY DEF NoCur, NoCmd, NoTurn, IsCur, IsTurn

\* A request dropped in the middle of a command leaves what was on its way.
LEMMA AbandonHolds ==
    ASSUME IInv, Abandon
    PROVE  IInv'
<1>1. cur' = NoCur /\ turn' = NoTurn
  BY DEF Abandon
<1>2. CASE cl' = Gone /\ Cut
  BY <1>1, <1>2, CutHolds DEF IInv
<1>3. CASE ~(cl' = Gone /\ Cut)
  <2>1. /\ cur.cmd.op \notin {"uid_search", "sign_in", "check"}
        /\ srv' = [srv EXCEPT !.torn = @ \/ cur.wait = 1]
        /\ UNCHANGED <<cl, out, wire>>
    BY <1>3 DEF Abandon
  <2>2. /\ IsServer(srv') /\ srv'.mail = srv.mail /\ srv'.sel = srv.sel /\ srv'.rw = srv.rw
        /\ srv'.view = srv.view /\ srv'.mode = srv.mode /\ srv'.held = srv.held
        /\ srv'.busy = srv.busy /\ srv'.tls = srv.tls /\ srv'.offers = srv.offers
        /\ srv'.literals = srv.literals
    BY <2>1 DEF IInv, Types, IsServer
  <2>3. ~srv'.torn => ~srv.torn /\ cur.wait # 1
    BY <2>1 DEF IInv, Types, IsServer
  <2>4. Idle' /\ cur'.cmd = NoCmd /\ cur'.wait = 0 /\ cur'.cmd.op = "none"
    BY <1>1, NoCurSays DEF Idle
  <2>5. Types'
    BY <1>1, <2>1, <2>2, NoCurSays DEF IInv, Types
  <2>6. Modes' /\ Leading' /\ Trailing'
    BY <2>1, <2>2 DEF IInv, Modes, Leading, Trailing
  <2>7. Tags'
    <3>1. \E tag \in Nat : Tagged(tag)
      <4>1. CASE Idle
        BY <4>1 DEF IInv, Tags
      <4>2. CASE ~Idle
        <5>1. cur.cmd.tag \in Nat /\ Tagged(cur.cmd.tag)
          <6>1. cur # NoCur
            BY <4>2, NoCurSays DEF Idle
          <6>2. Sound(cur.cmd, srv.literals)
            BY <6>1 DEF IInv, Types
          <6> QED
            BY <2>1, <4>2, <6>2 DEF IInv, Tags, Sound
        <5> QED
          BY <5>1
      <4> QED
        BY <4>1, <4>2
    <3>2. PICK tag \in Nat : Tagged(tag)
      BY <3>1
    <3>3. Tagged(tag)'
      BY <2>1, <2>2, <3>2 DEF Tagged
    <3> QED
      BY <2>4, <3>3 DEF Tags
  <2>8. Rest'
    <3>1. CASE Idle
      BY <1>1, <2>1, <2>2, <3>1, NoCurSays DEF IInv, Rest, Quiet
    <3>2. CASE ~Idle
      <4>1. cl.state = "signed"
        BY <2>1, <3>2 DEF IInv, Stages
      <4> QED
        BY <1>1, <2>1, <4>1, NoCurSays DEF Rest
    <3> QED
      BY <3>1, <3>2
  <2>9. OwnLast' /\ Stages'
    BY <1>1, <2>4, NoCurSays DEF OwnLast, Stages
  <2>10. Offered'
    BY <2>1, <2>2, <2>4 DEF IInv, Offered
  <2>11. Literals'
    BY <2>1, <2>2, <2>3, <2>4 DEF IInv, Literals
  <2>12. Selected' /\ Opened' /\ Works'
    BY <1>1, <2>4, NoCurSays DEF Selected, Opened, Works, Opens, Walks, Writes, Transfers
  <2>13. SignsInSafely' /\ CountHolds' /\ WritesLand'
    BY <2>1, <2>2 DEF IInv, SignsInSafely, CountHolds, WritesLand
  <2> QED
    BY <2>5, <2>6, <2>7, <2>8, <2>9, <2>10, <2>11, <2>12, <2>13 DEF IInv
<1> QED
  BY <1>2, <1>3

\* An outcome the session does not survive leaves no connection.
LEMMA EndsGone ==
    ASSUME IInv, NEW how, NEW session, NEW l, Ends(how, session, l), ~Stands(cur.cmd.op, how)
    PROVE  IInv'
<1>1. cur' = NoCur /\ turn' = NoTurn /\ cl' = Gone /\ Cut
  BY DEF Ends
<1> QED
  BY <1>1, CutHolds DEF IInv

\* A silent server ends the session.
LEMMA TimeoutHolds ==
    ASSUME IInv, Timeout
    PROVE  IInv'
<1>1. Ends("timeout", cl, [k |-> "none"]) /\ ~Stands(cur.cmd.op, "timeout")
  BY DEF Timeout, Stands
<1> QED
  BY <1>1, EndsGone

\* The bytes of a literal, under the tag of their command.
LEMMA LiteralSays ==
    ASSUME NEW tag \in Nat \ {0}, NEW literals
    PROVE  LET m == [NoCmd EXCEPT !.op = "literal", !.tag = tag]
           IN  Sound(m, literals) /\ m.op = "literal" /\ m.tag = tag /\ m.lit = "none"
<1> DEFINE m == [NoCmd EXCEPT !.op = "literal", !.tag = tag]
<1> HIDE DEF m
<1>1. m = [NoCmd EXCEPT !.op = "literal", !.tag = tag]
  BY DEF m
<1>2. IsCmd(m) /\ m.op = "literal" /\ m.tag = tag /\ m.lit = "none"
  BY <1>1, NoCmdSays DEF IsCmd
<1>3. Sound(m, literals)
  BY <1>2 DEF Sound, Opens, Walks
<1>4. Sound(m, literals) /\ m.op = "literal" /\ m.tag = tag /\ m.lit = "none"
  BY <1>2, <1>3
<1> QED
  BY <1>4 DEF m

\* An append's literal goes behind its opening.
LEMMA WriteLiteralHolds ==
    ASSUME IInv, WriteLiteral
    PROVE  IInv'
<1>1. cur.wait = 1 /\ cur.cmd.lit = "plus" /\ Apart(cur.cmd)
  BY DEF WriteLiteral, IInv, Literals
<1>2. cur.cmd.op \in Appends /\ ~Idle /\ cur # NoCur
  BY <1>1, NoCurSays DEF Apart, Appends, Idle
<1>3. Sound(cur.cmd, srv.literals) /\ cur.cmd.tag \in Nat \ {0}
  BY <1>2 DEF IInv, Types, Sound
<1> DEFINE t == cur.cmd.tag
           m == [NoCmd EXCEPT !.op = "literal", !.tag = cur.cmd.tag]
<1>4. Sound(m, srv.literals) /\ m.op = "literal" /\ m.tag = t /\ m.lit = "none"
  BY <1>3, LiteralSays
<1>5. out' = Append(out, m) /\ UNCHANGED <<srv, wire, cl, turn>>
  BY DEF WriteLiteral
<1>6. cur'.cmd = cur.cmd /\ cur'.wait = 0 /\ IsCur(cur')
  BY DEF WriteLiteral, IInv, Types, IsCur
<1> HIDE DEF m
<1>7. /\ IsSeq(out) /\ Len(out) \in Nat /\ DOMAIN out = 1..Len(out)
      /\ IsSeq(out') /\ Len(out') = Len(out) + 1 /\ DOMAIN out' = 1..(Len(out) + 1)
      /\ out'[Len(out) + 1] = m /\ \A i \in 1..Len(out) : out'[i] = out[i]
  <2>1. IsSeq(out)
    BY DEF IInv, Types
  <2> QED
    BY <1>5, <2>1, SeqAppend, SeqBasics
<1>8. \/ Len(out) = 1 /\ out[1] = cur.cmd
      \/ out = <<>> /\ Len(out) = 0 /\ srv.mode = "literal" /\ srv.held = cur.cmd
  BY <1>1, SeqEmpty DEF IInv, Literals
<1>9. Len(out) = 1 => srv.mode = "idle" /\ srv.busy = NoCmd /\ srv.held = NoCmd
  BY <1>2, <1>7, <1>8 DEF IInv, Leading, Modes, Appends
<1>10. Types'
  BY <1>4, <1>5, <1>6, <1>7, <1>2 DEF IInv, Types, Idle
<1>11. Modes' /\ Leading' /\ Rest' /\ Stages' /\ Offered'
  <2>1. Modes' /\ Leading'
    BY <1>4, <1>5, <1>7 DEF IInv, Modes, Leading
  <2>2. Rest' /\ Stages'
    BY <1>2, <1>5, <1>6 DEF IInv, Rest, Stages, Idle
  <2>3. Offered'
    BY <1>5, <1>6 DEF IInv, Offered, Answered
  <2> QED
    BY <2>1, <2>2, <2>3
<1>12. Tags'
  <2>1. Tagged(t)
    BY <1>2 DEF IInv, Tags, Appends
  <2>2. Tagged(t)'
    BY <1>4, <1>5, <1>6, <1>7, <2>1 DEF Tagged
  <2> QED
    BY <1>2, <1>6, <2>2 DEF Tags, Idle, Appends
<1>13. OwnLast'
  <2>1. \A p \in DOMAIN wire : ~Tells(wire[p], t)
    <3>1. out # <<>> \/ srv.mode = "literal"
      BY <1>8, SeqEmpty
    <3> QED
      BY <1>2, <3>1 DEF IInv, OwnLast
  <2>2. srv.busy.tag # t
    <3>1. srv.busy = NoCmd
      BY <1>8, <1>9 DEF IInv, Modes
    <3> QED
      BY <1>3, <3>1, NoCurSays
  <2>3. srv.held.tag = t => srv.held = cur.cmd /\ Len(out) = 0
    <3>1. Len(out) = 1 => srv.held.tag # t
      BY <1>3, <1>9, NoCurSays
    <3> QED
      BY <1>2, <1>8, <3>1 DEF IInv, OwnLast
  <2>4. \A i \in DOMAIN out' : out'[i].op # "literal" => i = 1 /\ Len(out) = 1 /\ out'[1] = cur.cmd
    BY <1>4, <1>7, <1>8
  <2>5. \A i \in DOMAIN out' : Len(out) = 0 => i = 1 /\ out'[i].op = "literal"
    BY <1>4, <1>7
  <2>6. \A j \in DOMAIN out' : Len(out) = 1 /\ j > 1 => j = 2 /\ out'[j].op = "literal"
    BY <1>4, <1>7
  <2> QED
    BY <1>5, <1>6, <2>1, <2>2, <2>3, <2>4, <2>5, <2>6 DEF OwnLast
<1>14. Trailing'
  BY <1>1, <1>2, <1>4, <1>5, <1>7, <1>8 DEF IInv, Trailing
<1>15. Literals'
  <2>1. \A p \in DOMAIN wire : wire[p].k # "continue"
    <3>1. srv.mode = "idle" \/ srv.held.lit # "sync"
      BY <1>1, <1>8, <1>9
    <3> QED
      BY <3>1 DEF IInv, Literals
  <2>2. srv.mode = "literal" => Len(out) = 0
    BY <1>8, <1>9
  <2>3. out' # <<>>
    BY <1>7, SeqBasics
  <2>4. out'[1].op = "literal" => srv.mode = "literal"
    BY <1>2, <1>4, <1>7, <1>8 DEF Appends
  <2>5. srv.mode = "literal" => out'[1].op = "literal"
    BY <1>4, <1>7, <2>2
  <2>6. \A i \in DOMAIN out' : out'[i].op \in Appends => i = 1 /\ Len(out) = 1 /\ i + 1 \in DOMAIN out' /\ out'[i + 1].op = "literal"
    BY <1>4, <1>7, <1>8 DEF Appends
  <2>7. \A i \in DOMAIN out' : out'[i].lit # "sync"
    BY <1>1, <1>4, <1>7, <1>8
  <2> QED
    BY <1>5, <1>6, <2>1, <2>3, <2>4, <2>5, <2>6, <2>7 DEF Literals
<1>16. Selected' /\ Opened' /\ Works'
  <2>1. Selected'
    BY <1>5, <1>6 DEF IInv, Selected, Counts
  <2>2. Opened' /\ Works'
    BY <1>2, <1>5, <1>6 DEF IInv, Opened, Works, Appends, Opens
  <2> QED
    BY <2>1, <2>2
<1>17. SignsInSafely' /\ CountHolds' /\ WritesLand'
  BY <1>4, <1>5, <1>7 DEF IInv, SignsInSafely, CountHolds, WritesLand, Ways, Walks, Writes, Transfers
<1> QED
  BY <1>10, <1>11, <1>12, <1>13, <1>14, <1>15, <1>16, <1>17 DEF IInv

\* The NOOP of a kept session goes behind whatever is left, under a tag of its
\* own.
LEMMA UseKeptHolds ==
    ASSUME IInv, UseKept
    PROVE  IInv'
<1>1. Idle /\ cl.state = "signed" /\ ~turn.on /\ turn.box = None /\ cur = NoCur
  BY DEF UseKept, Selection, IInv, Stages, Types
<1>2. /\ NextTag \in Nat \ {0}
      /\ NextTag \notin {srv.busy.tag, srv.held.tag}
      /\ \A i \in DOMAIN out : out[i].tag # NextTag
      /\ \A p \in DOMAIN wire : ~Tells(wire[p], NextTag)
  BY <1>1, RestTag DEF TAGS
<1> DEFINE t == NextTag
<1> HIDE DEF t
<1> DEFINE c == [NoCmd EXCEPT !.op = "check", !.tag = t]
<1>3. Send(c, cl) /\ UNCHANGED <<srv, wire, turn>>
  BY DEF UseKept, t
<1> HIDE DEF c
<1>4. IsCmd(c) /\ c.op = "check" /\ c.tag = t /\ c.lit = "none"
  <2>1. c = [NoCmd EXCEPT !.op = "check", !.tag = t]
    BY DEF c
  <2> QED
    BY <2>1, NoCmdSays DEF IsCmd
<1>5. Sound(c, srv.literals) /\ ~Apart(c)
  BY <1>2, <1>4 DEF Sound, Apart, Opens, Walks, t
<1>6. /\ out' = Append(out, c) /\ cl' = cl /\ cur'.cmd = c /\ cur'.wait = 0 /\ IsCur(cur')
  BY <1>3, <1>5 DEF Send, IsCur
<1>7. /\ IsSeq(out) /\ Len(out) \in Nat /\ DOMAIN out = 1..Len(out)
      /\ IsSeq(out') /\ Len(out') = Len(out) + 1 /\ DOMAIN out' = 1..(Len(out) + 1)
      /\ out'[Len(out) + 1] = c /\ \A i \in 1..Len(out) : out'[i] = out[i]
  <2>1. IsSeq(out)
    BY DEF IInv, Types
  <2> QED
    BY <1>6, <2>1, SeqAppend, SeqBasics
<1>8. ~Idle' /\ cur'.cmd.op = "check"
  BY <1>4, <1>6 DEF Idle
<1>9. Types'
  BY <1>3, <1>5, <1>6, <1>7, <1>8 DEF IInv, Types
<1>10. Modes' /\ Leading' /\ Rest' /\ Tags'
  BY <1>3, <1>4, <1>6, <1>7, <1>8 DEF IInv, Modes, Leading, Rest, Tags
<1>11. OwnLast'
  <2>1. \A i \in DOMAIN out' : out'[i].tag = t => i = Len(out) + 1 /\ out'[i] = c
    BY <1>2, <1>7 DEF t
  <2>2. \A j \in DOMAIN out' : ~(j > Len(out) + 1)
    BY <1>7
  <2> QED
    BY <1>2, <1>3, <1>4, <1>6, <2>1, <2>2 DEF OwnLast, t
<1>12. Stages' /\ Offered' /\ Selected' /\ Works' /\ Opened'
  BY <1>1, <1>3, <1>6, <1>8 DEF IInv, Stages, Offered, Selected, Works, Opened, Opens, Walks, Writes, Transfers
<1>13. Trailing'
  <2> SUFFICES ASSUME NEW i \in DOMAIN out', out'[i].op = "literal", i > 1
               PROVE  /\ out'[i - 1].op \in Appends /\ out'[i - 1].lit = "plus"
                      /\ out'[i - 1].tag = out'[i].tag
    BY DEF Trailing
  <2>1. i \in DOMAIN out /\ out'[i] = out[i] /\ out'[i - 1] = out[i - 1]
    BY <1>4, <1>7
  <2> QED
    BY <2>1 DEF IInv, Trailing
<1>14. Literals'
  <2>1. cur.wait = 0
    BY <1>1, NoCurSays
  <2>2. \A i \in DOMAIN out' : out'[i].op = "literal" => i \in DOMAIN out /\ out'[i] = out[i]
    BY <1>4, <1>7
  <2>3. \A i \in DOMAIN out' : out'[i].lit # "none" => i \in DOMAIN out /\ out'[i] = out[i]
    BY <1>4, <1>7
  <2>4. out # <<>> => 1 \in DOMAIN out /\ out'[1] = out[1]
    BY <1>7, SeqBasics
  <2>5. out' # <<>>
    BY <1>7, SeqBasics
  <2>6. out = <<>> => out'[1].op = "check"
    BY <1>4, <1>7, SeqEmpty
  <2>7. \A i \in DOMAIN out : i + 1 \in DOMAIN out => i + 1 \in DOMAIN out' /\ out'[i + 1] = out[i + 1]
    BY <1>7
  <2>8. \A p \in DOMAIN wire : wire[p].k = "continue" =>
          /\ srv.mode = "literal" /\ srv.held.lit = "sync"
          /\ \A i \in DOMAIN out' : out'[i].op # "literal"
          /\ \A q \in DOMAIN wire : wire[q].k = "continue" => q = p
    BY <2>2 DEF IInv, Literals
  <2>9. ~srv.torn =>
         /\ srv.mode = "literal" => out # <<>> /\ out[1].op = "literal"
         /\ \A i \in DOMAIN out : out[i].op \in Appends /\ out[i].lit = "plus" =>
              i + 1 \in DOMAIN out /\ out[i + 1].op = "literal"
         /\ \A i \in DOMAIN out : out[i].lit # "sync"
         /\ out # <<>> /\ out[1].op = "literal" => srv.mode = "literal"
    BY <2>1 DEF IInv, Literals
  <2>10. ~srv.torn =>
         /\ srv.mode = "literal" => out' # <<>> /\ out'[1].op = "literal"
         /\ \A i \in DOMAIN out' : out'[i].op \in Appends /\ out'[i].lit = "plus" =>
              i + 1 \in DOMAIN out' /\ out'[i + 1].op = "literal"
         /\ \A i \in DOMAIN out' : out'[i].lit # "sync"
         /\ out' # <<>> /\ out'[1].op = "literal" => srv.mode = "literal"
    <3> SUFFICES ASSUME ~srv.torn
                 PROVE /\ srv.mode = "literal" => out' # <<>> /\ out'[1].op = "literal"
                       /\ \A i \in DOMAIN out' : out'[i].op \in Appends /\ out'[i].lit = "plus" =>
                            i + 1 \in DOMAIN out' /\ out'[i + 1].op = "literal"
                       /\ \A i \in DOMAIN out' : out'[i].lit # "sync"
                       /\ out' # <<>> /\ out'[1].op = "literal" => srv.mode = "literal"
      OBVIOUS
    <3>1. srv.mode = "literal" => out' # <<>> /\ out'[1].op = "literal"
      BY <2>4, <2>5, <2>9
    <3>2. ASSUME NEW i \in DOMAIN out', out'[i].op \in Appends, out'[i].lit = "plus"
          PROVE  i + 1 \in DOMAIN out' /\ out'[i + 1].op = "literal"
      BY <2>3, <2>7, <2>9, <3>2
    <3>3. \A i \in DOMAIN out' : out'[i].lit # "sync"
      BY <2>3, <2>9
    <3>4. out' # <<>> /\ out'[1].op = "literal" => srv.mode = "literal"
      BY <2>4, <2>6, <2>9
    <3> QED
      BY <3>1, <3>2, <3>3, <3>4
  <2> QED
    BY <1>3, <1>6, <2>8, <2>10 DEF Literals
<1>15. SignsInSafely' /\ CountHolds' /\ WritesLand'
  BY <1>3, <1>4, <1>7 DEF IInv, SignsInSafely, CountHolds, WritesLand, Ways, Walks, Writes, Transfers
<1> QED
  BY <1>9, <1>10, <1>11, <1>12, <1>13, <1>14, <1>15 DEF IInv

-----------------------------------------------------------------------------
(* What is read *)

\* A command asked has a tag and fits the server's literals.
LEMMA AskedSays ==
    ASSUME IInv, ~Idle
    PROVE  Sound(cur.cmd, srv.literals) /\ cur.cmd.tag \in Nat \ {0}
<1>1. cur # NoCur
  BY NoCurSays DEF Idle
<1> QED
  BY <1>1 DEF IInv, Types, Sound

\* What is left unread behind the first line.
LEMMA LineSays ==
    ASSUME IInv, wire # <<>>
    PROVE  /\ IsSeq(wire) /\ Len(wire) \in Nat \ {0} /\ DOMAIN wire = 1..Len(wire)
           /\ 1 \in DOMAIN wire /\ Head(wire) = wire[1]
           /\ IsSeq(Tail(wire)) /\ Len(Tail(wire)) = Len(wire) - 1
           /\ DOMAIN Tail(wire) = 1..(Len(wire) - 1)
           /\ \A i \in DOMAIN Tail(wire) : i + 1 \in DOMAIN wire /\ Tail(wire)[i] = wire[i + 1]
           /\ \A i \in DOMAIN Tail(wire) : Tail(wire)[i].k = "exists" => Tail(wire)[i].n \in Nat
<1>1. IsSeq(wire) /\ \A i \in DOMAIN wire : wire[i].k = "exists" => wire[i].n \in Nat
  BY DEF IInv, Types
<1>2. Len(wire) \in Nat /\ DOMAIN wire = 1..Len(wire) /\ 1 \in DOMAIN wire /\ Head(wire) = wire[1]
  BY <1>1, SeqBasics
<1>3. /\ IsSeq(Tail(wire)) /\ Len(Tail(wire)) = Len(wire) - 1
      /\ DOMAIN Tail(wire) = 1..(Len(wire) - 1)
      /\ \A i \in 1..(Len(wire) - 1) : Tail(wire)[i] = wire[i + 1]
  BY <1>1, SeqTail
<1>4. \A i \in 1..(Len(wire) - 1) : i + 1 \in DOMAIN wire
  BY <1>2
<1> QED
  BY <1>1, <1>2, <1>3, <1>4

\* The command's own tagged line finds nothing else on its way.
LEMMA OwnLine ==
    ASSUME IInv, ~Idle, wire # <<>>, Tells(wire[1], cur.cmd.tag)
    PROVE  /\ out = <<>> /\ srv.busy = NoCmd /\ srv.mode = "idle" /\ srv.held = NoCmd
           /\ NewsOnly(Tail(wire)) /\ \A q \in DOMAIN wire : q > 1 => wire[q].k # "done"
<1>1. /\ out = <<>> /\ srv.busy = NoCmd /\ srv.mode = "idle"
      /\ \A q \in DOMAIN wire : q > 1 => wire[q].k \notin {"done", "expunge"}
  BY LineSays DEF IInv, OwnLast
<1>2. srv.held = NoCmd /\ \A q \in DOMAIN wire : wire[q].k # "continue"
  BY <1>1 DEF IInv, Modes, Literals
<1>3. \A i \in DOMAIN Tail(wire) : i + 1 > 1
  BY LineSays
<1>4. NewsOnly(Tail(wire))
  BY <1>1, <1>2, <1>3, LineSays DEF NewsOnly
<1> QED
  BY <1>1, <1>2, <1>4

\* Once the first line is noted the count is good for what is left.
LEMMA CountsOn ==
    ASSUME IInv, wire # <<>>, cl.count \in Nat, NEW most \in Nat, Counts(most)
    PROVE  /\ Noted(cl.count, wire[1]) \in Nat
           /\ Bounded(Noted(cl.count, wire[1]), Tail(wire), Len(srv.view), IF most = 0 THEN 0 ELSE most - 1)
<1>1. /\ IsSeq(wire) /\ \A i \in DOMAIN wire : wire[i].k = "exists" => wire[i].n \in Nat
      /\ Len(srv.view) \in Nat
  BY SeqBasics DEF IInv, Types
<1> QED
  BY <1>1, BoundedTail DEF Counts

\* A line that tells nothing of the mailbox leaves the count.
LEMMA NotedSame ==
    ASSUME NEW count, NEW l, l.k \notin {"exists", "expunge"}
    PROVE  Noted(count, l) = count
  BY DEF Noted

\* A step to a connection at rest.
LEMMA CalmStep ==
    ASSUME Types, out = <<>>, srv.busy = NoCmd, srv.mode = "idle", srv.held = NoCmd,
           UNCHANGED <<srv, out>>, NewsOnly(wire'), cur' = NoCur, IsSession(cl'),
           cl'.count \in Nat \cup {NoCount}, IsTurn(turn'), Stages', Offered', Selected'
    PROVE  IInv'
<1>1. Types'
  BY NoCurSays DEF Types, NewsOnly
<1>2. Idle' /\ Quiet' /\ Modes' /\ \A p \in DOMAIN wire' : wire'[p].k # "continue"
  BY NoCurSays DEF Idle, Quiet, Modes, NewsOnly
<1>3. Calm' => IInv'
  BY CalmHolds, PTL
<1> QED
  BY <1>1, <1>2, <1>3 DEF Calm

\* The tagged line of a command ends it: what is left is news.
LEMMA EndsWell ==
    ASSUME IInv, ~Idle, wire # <<>>, Tells(wire[1], cur.cmd.tag),
           NEW how, how = "ok" <=> wire[1].status = "ok",
           Stands(cur.cmd.op, how), Ends(how, cl, wire[1])
    PROVE  IInv'
<1> DEFINE op == cur.cmd.op
           l == wire[1]
<1>1. /\ out = <<>> /\ srv.busy = NoCmd /\ srv.mode = "idle" /\ srv.held = NoCmd
      /\ NewsOnly(Tail(wire)) /\ \A q \in DOMAIN wire : q > 1 => wire[q].k # "done"
  BY OwnLine
<1>2. /\ cur' = NoCur /\ cl' = SessionAfter(cur.cmd, how, cl, l)
      /\ turn' = TurnAfter(cur.cmd, how) /\ wire' = Tail(wire) /\ UNCHANGED <<srv, out>>
  BY DEF Ends
<1>3. /\ IsSession(cl) /\ IsTurn(turn) /\ cl.count \in Nat \cup {NoCount}
      /\ turn.on \in BOOLEAN /\ turn.box \in Boxes \cup {None} /\ Types
  BY DEF IInv, Types, IsTurn
<1>4. /\ cl.state = (IF op = "sign_in" THEN "gone" ELSE "signed")
      /\ turn.on => op \notin {"sign_in", "check"}
      /\ ~turn.on => turn.box = None
      /\ op \notin {"sign_in", "check"} => turn.on
  BY DEF IInv, Stages
<1>5. how \in {"ok", "refused", "badcharset"} /\ (op = "check" => how = "ok")
  BY DEF Stands
<1>6. l.k = "done" /\ Noted(cl.count, l) = cl.count
  BY NotedSame DEF Tells
<1>7. "sign_in" \notin Opens /\ "check" \notin Opens
  BY DEF Opens
\* A sign-in opens the session or hands the client back.
<1>8. CASE op = "sign_in"
  <2>1. /\ cl' = [cl EXCEPT !.state = IF how = "ok" THEN "signed" ELSE "fresh",
                            !.offered = IF how = "ok" THEN {} ELSE @]
        /\ turn' = [turn EXCEPT !.on = how = "ok"]
    BY <1>2, <1>7, <1>8 DEF SessionAfter, FinishSignIn, TurnAfter
  <2>2. /\ IsSession(cl') /\ cl'.count = cl.count
        /\ cl'.state = (IF how = "ok" THEN "signed" ELSE "fresh")
        /\ how # "ok" => cl'.offered = cl.offered
    BY <1>3, <2>1 DEF IsSession
  <2>3. IsTurn(turn') /\ turn'.box = turn.box /\ turn'.on = (how = "ok")
    BY <1>3, <2>1 DEF IsTurn
  <2>4. turn.box = None
    BY <1>4, <1>8, <1>3
  <2>5. srv.tls /\ (how # "ok" => cl.offered \subseteq srv.offers)
    <3>1. how # "ok" => ~Answered(cur.cmd.tag)
      <4> SUFFICES ASSUME how # "ok", NEW p \in DOMAIN wire, Tells(wire[p], cur.cmd.tag), wire[p].status = "ok"
                   PROVE  FALSE
        BY DEF Answered
      <4>1. p = 1
        BY <1>1, LineSays DEF Tells
      <4> QED
        BY <4>1
    <3> QED
      BY <1>8, <3>1 DEF IInv, Offered
  <2>6. Stages' /\ Offered' /\ Selected'
    BY <1>2, <2>2, <2>3, <2>4, <2>5, NoCurSays DEF Stages, Offered, Selected, Idle
  <2> QED
    BY <1>1, <1>2, <1>3, <2>2, <2>3, <2>6, NoCurSays, CalmStep
\* A kept session answered its NOOP.
<1>9. CASE op = "check"
  <2>1. cl' = cl /\ turn' = [turn EXCEPT !.on = TRUE]
    BY <1>2, <1>5, <1>7, <1>9 DEF SessionAfter, TurnAfter
  <2>2. IsTurn(turn') /\ turn'.box = turn.box /\ turn'.on = TRUE
    BY <1>3, <2>1 DEF IsTurn
  <2>3. turn.box = None
    BY <1>4, <1>9, <1>3
  <2>4. Stages' /\ Offered' /\ Selected'
    BY <1>2, <1>4, <1>9, <2>1, <2>2, <2>3, NoCurSays DEF Stages, Offered, Selected, Idle
  <2> QED
    BY <1>1, <1>2, <1>3, <2>1, <2>2, <2>4, NoCurSays, CalmStep
\* An open selected its mailbox, or none is selected any more.
<1>10. CASE op \in Opens
  <2>0. turn.on /\ turn.box = None /\ cl.count \in Nat
    BY <1>4, <1>7, <1>10 DEF IInv, Selected, Opened
  <2>1. CASE how = "ok"
    <3>1. cl' = [cl EXCEPT !.writable = op = "select" /\ ~l.ro] /\ turn' = [turn EXCEPT !.box = cur.cmd.box]
      BY <1>2, <1>7, <1>10, <2>1 DEF SessionAfter, AfterOpen, ReadOnly, TurnAfter
    <3>2. /\ IsSession(cl') /\ cl'.count = cl.count /\ cl'.state = cl.state
          /\ cl'.writable = (op = "select" /\ ~l.ro)
      BY <1>3, <3>1 DEF IsSession
    <3>3. cur.cmd.box \in Boxes
      BY <1>10, AskedSays DEF Sound
    <3>4. IsTurn(turn') /\ turn'.box = cur.cmd.box /\ turn'.on = turn.on
      BY <1>3, <3>1, <3>3 DEF IsTurn
    <3>5. srv.sel = cur.cmd.box /\ Counts(0) /\ l.ro = ~srv.rw
      <4>1. srv.sel = cur.cmd.box /\ Counts(1 - 1) /\ l.ro = ~srv.rw
        BY <1>10, <2>1, LineSays DEF IInv, Opened
      <4> QED
        BY <4>1
    <3>6. Counts(0)'
      <4>1. Bounded(cl.count, Tail(wire), Len(srv.view), 0)
        BY <1>6, <2>0, <3>5, CountsOn
      <4> QED
        BY <1>2, <3>2, <4>1 DEF Counts
    <3>7. Stages' /\ Offered' /\ Selected'
      <4>1. cl'.state = "signed"
        BY <1>4, <1>7, <1>10, <3>2
      <4>2. Stages' /\ Offered'
        BY <1>2, <2>0, <3>4, <4>1, NoCurSays DEF Stages, Offered, Idle
      <4>3. Selected'
        BY <1>2, <2>0, <3>2, <3>4, <3>5, <3>6, NoCurSays DEF Selected, Opens
      <4> QED
        BY <4>2, <4>3
    <3> QED
      BY <1>1, <1>2, <1>3, <3>2, <3>4, <3>7, NoCurSays, CalmStep
  <2>2. CASE how # "ok"
    <3>1. cl' = [cl EXCEPT !.count = NoCount] /\ turn' = turn
      BY <1>2, <1>7, <1>10, <2>2 DEF SessionAfter, AfterOpen, TurnAfter
    <3>2. IsSession(cl') /\ cl'.count = NoCount /\ cl'.state = cl.state
      BY <1>3, <3>1 DEF IsSession
    <3>3. Stages' /\ Offered' /\ Selected'
      <4>1. cl'.state = "signed"
        BY <1>4, <1>7, <1>10, <3>2
      <4> QED
        BY <1>2, <2>0, <3>1, <4>1, NoCurSays DEF Stages, Offered, Selected, Idle
    <3> QED
      BY <1>1, <1>2, <1>3, <3>1, <3>2, <3>3, NoCurSays, CalmStep
  <2> QED
    BY <2>1, <2>2
\* Any other command leaves the session and the turn.
<1>11. CASE op \notin Opens \cup {"sign_in", "check"}
  <2>1. cl' = cl /\ turn' = turn
    BY <1>2, <1>11 DEF SessionAfter, TurnAfter
  <2>2. turn.on /\ cl.state = "signed"
    BY <1>4, <1>11
  <2>3. Stages' /\ Offered'
    BY <1>2, <2>1, <2>2, NoCurSays DEF Stages, Offered, Idle
  <2>4. Selected'
    <3> SUFFICES ASSUME turn.box # None PROVE Selected'
      BY <2>1 DEF Selected
    <3>1. srv.sel = turn.box /\ cl.count \in Nat /\ Counts(0) /\ (cl.writable => srv.rw)
      BY DEF IInv, Selected
    <3>2. Bounded(cl.count, Tail(wire), Len(srv.view), 0)
      BY <1>6, <3>1, CountsOn
    <3>3. Counts(0)'
      BY <1>2, <2>1, <3>2 DEF Counts
    <3> QED
      BY <1>2, <2>1, <3>1, <3>3, NoCurSays DEF Selected, Opens
  <2> QED
    BY <1>1, <1>2, <1>3, <2>1, <2>3, <2>4, NoCurSays, CalmStep
<1> QED
  BY <1>8, <1>9, <1>10, <1>11

\* A line that does not end the command goes to the count.
LEMMA SkipHolds ==
    ASSUME IInv, ~Idle, wire # <<>>, ~Tells(wire[1], cur.cmd.tag),
           cl' = Followed(wire[1]), wire' = Tail(wire), UNCHANGED <<srv, out, turn>>,
           IsCur(cur'), cur'.cmd = cur.cmd, cur'.wait = cur.wait
    PROVE  IInv'
<1> DEFINE l == wire[1]
<1>1. /\ IsSession(cl') /\ cl'.count = Noted(cl.count, l) /\ cl'.state = cl.state
      /\ cl'.offered = cl.offered /\ cl'.writable = cl.writable
  BY DEF IInv, Types, Followed, IsSession
<1>2. /\ Len(wire) \in Nat \ {0} /\ DOMAIN wire = 1..Len(wire)
      /\ IsSeq(wire') /\ Len(wire') = Len(wire) - 1 /\ DOMAIN wire' = 1..(Len(wire) - 1)
      /\ \A i \in DOMAIN wire' : i + 1 \in DOMAIN wire /\ wire'[i] = wire[i + 1]
      /\ \A i \in DOMAIN wire' : wire'[i].k = "exists" => wire'[i].n \in Nat
  BY LineSays
<1>3. cl'.count \in Nat \cup {NoCount} /\ (cl.count \in Nat => cl'.count \in Nat)
  <2>1. CASE cl.count = NoCount
    BY <1>1, <2>1 DEF Noted, NoCount
  <2>2. CASE cl.count \in Nat
    <3>1. l.k = "exists" => l.n \in Nat
      BY LineSays DEF IInv, Types
    <3>2. Noted(cl.count, l) \in Nat
      BY <2>2, <3>1 DEF Noted, NoCount
    <3> QED
      BY <1>1, <3>2
  <2> QED
    BY <2>1, <2>2 DEF IInv, Types
<1>4. ~Idle' /\ cur # NoCur
  BY NoCurSays DEF Idle
<1>5. Types'
  BY <1>1, <1>2, <1>3, <1>4 DEF IInv, Types
<1>6. Modes' /\ Leading' /\ Trailing' /\ Rest' /\ Stages'
  BY <1>1, <1>4 DEF IInv, Modes, Leading, Trailing, Rest, Stages, Idle
<1>7. Tags'
  <2>1. ASSUME cur.cmd.op # "check" PROVE Tagged(cur.cmd.tag)'
    <3>1. Tagged(cur.cmd.tag)
      BY <2>1 DEF IInv, Tags
    <3> QED
      BY <1>2, <3>1 DEF Tagged
  <2> QED
    BY <1>4, <2>1 DEF Tags
<1>8. OwnLast'
  <2>1. ASSUME NEW p \in DOMAIN wire', Tells(wire'[p], cur.cmd.tag)
        PROVE  /\ out = <<>> /\ srv.busy = NoCmd /\ srv.mode = "idle"
               /\ \A q \in DOMAIN wire' : q > p => wire'[q].k \notin {"done", "expunge"}
    <3>1. p + 1 \in DOMAIN wire /\ Tells(wire[p + 1], cur.cmd.tag)
      BY <1>2, <2>1
    <3>2. /\ out = <<>> /\ srv.busy = NoCmd /\ srv.mode = "idle"
          /\ \A q \in DOMAIN wire : q > p + 1 => wire[q].k \notin {"done", "expunge"}
      BY <3>1 DEF IInv, OwnLast
    <3>3. \A q \in DOMAIN wire' : q > p => q + 1 > p + 1
      BY <1>2
    <3> QED
      BY <1>2, <3>2, <3>3
  <2>2. \A p \in DOMAIN wire' : Tells(wire'[p], cur'.cmd.tag) =>
           /\ out' = <<>> /\ srv'.busy = NoCmd /\ srv'.mode = "idle"
           /\ \A q \in DOMAIN wire' : q > p => wire'[q].k \notin {"done", "expunge"}
    BY <2>1
  <2> QED
    BY <2>2 DEF IInv, OwnLast
<1>9. Offered'
  <2>1. Answered(cur.cmd.tag) => Answered(cur.cmd.tag)'
    <3> SUFFICES ASSUME NEW p \in DOMAIN wire, Tells(wire[p], cur.cmd.tag), wire[p].status = "ok"
                 PROVE  \E q \in DOMAIN wire' : Tells(wire'[q], cur.cmd.tag) /\ wire'[q].status = "ok"
      BY DEF Answered
    <3>1. p # 1
      OBVIOUS
    <3>2. p - 1 \in DOMAIN wire' /\ (p - 1) + 1 = p
      BY <1>2, <3>1
    <3>3. wire'[p - 1] = wire[p]
      BY <1>2, <3>2
    <3> QED
      BY <3>2, <3>3
  <2> QED
    BY <1>1, <2>1 DEF IInv, Offered
<1>10. Literals'
  <2>1. \A p \in DOMAIN wire' : wire'[p].k = "continue" =>
         /\ srv.mode = "literal" /\ srv.held.lit = "sync"
         /\ \A i \in DOMAIN out : out[i].op # "literal"
         /\ \A q \in DOMAIN wire' : wire'[q].k = "continue" => q = p
    <3> SUFFICES ASSUME NEW p \in DOMAIN wire', wire'[p].k = "continue"
                 PROVE /\ srv.mode = "literal" /\ srv.held.lit = "sync"
                       /\ \A i \in DOMAIN out : out[i].op # "literal"
                       /\ \A q \in DOMAIN wire' : wire'[q].k = "continue" => q = p
      OBVIOUS
    <3>1. p + 1 \in DOMAIN wire /\ wire[p + 1].k = "continue"
      BY <1>2
    <3>2. /\ srv.mode = "literal" /\ srv.held.lit = "sync"
          /\ \A i \in DOMAIN out : out[i].op # "literal"
          /\ \A q \in DOMAIN wire : wire[q].k = "continue" => q = p + 1
      BY <3>1 DEF IInv, Literals
    <3>3. ASSUME NEW q \in DOMAIN wire', wire'[q].k = "continue" PROVE q = p
      <4>1. q + 1 \in DOMAIN wire /\ wire[q + 1].k = "continue"
        BY <1>2, <3>3
      <4>2. q + 1 = p + 1
        BY <3>2, <4>1
      <4> QED
        BY <1>2, <4>2
    <3> QED
      BY <3>2, <3>3
  <2> QED
    BY <2>1 DEF IInv, Literals
<1>11. Selected'
  <2> SUFFICES ASSUME turn.box # None PROVE Selected'
    BY DEF Selected
  <2>1. /\ srv.sel = turn.box /\ cl.count \in Nat /\ Counts(0) /\ (cl.writable => srv.rw)
        /\ cur.cmd.op \notin Opens
    BY DEF IInv, Selected
  <2>2. Bounded(Noted(cl.count, l), Tail(wire), Len(srv.view), 0)
    BY <2>1, CountsOn
  <2>3. Counts(0)'
    BY <1>1, <2>2 DEF Counts
  <2> QED
    BY <1>1, <1>3, <2>1, <2>3 DEF Selected
<1>12. Opened'
  <2> SUFFICES ASSUME cur.cmd.op \in Opens PROVE Opened'
    BY DEF Opened
  <2>0. cl.count \in Nat
    BY DEF IInv, Opened
  <2>1. ASSUME srv.busy.tag = cur.cmd.tag PROVE srv.sel = cur.cmd.box /\ Counts(Len(wire))'
    <3>1. srv.sel = cur.cmd.box /\ Counts(Len(wire))
      BY <2>1 DEF IInv, Opened
    <3>2. Bounded(Noted(cl.count, l), Tail(wire), Len(srv.view), Len(wire) - 1)
      <4>1. Bounded(Noted(cl.count, l), Tail(wire), Len(srv.view), IF Len(wire) = 0 THEN 0 ELSE Len(wire) - 1)
        BY <1>2, <2>0, <3>1, CountsOn
      <4> QED
        BY <1>2, <4>1
    <3> QED
      BY <1>1, <1>2, <3>1, <3>2 DEF Counts
  <2>2. ASSUME NEW p \in DOMAIN wire', Tells(wire'[p], cur.cmd.tag), wire'[p].status = "ok"
        PROVE  srv.sel = cur.cmd.box /\ Counts(p - 1)' /\ wire'[p].ro = ~srv.rw
    <3>1. p \in Nat \ {0} /\ p + 1 \in DOMAIN wire /\ wire'[p] = wire[p + 1] /\ (p + 1) - 1 = p
      BY <1>2
    <3>2. srv.sel = cur.cmd.box /\ Counts(p) /\ wire[p + 1].ro = ~srv.rw
      <4>1. srv.sel = cur.cmd.box /\ Counts((p + 1) - 1) /\ wire[p + 1].ro = ~srv.rw
        BY <2>2, <3>1 DEF IInv, Opened
      <4> QED
        BY <3>1, <4>1
    <3>3. Bounded(Noted(cl.count, l), Tail(wire), Len(srv.view), p - 1)
      <4>1. Bounded(Noted(cl.count, l), Tail(wire), Len(srv.view), IF p = 0 THEN 0 ELSE p - 1)
        BY <2>0, <3>1, <3>2, CountsOn
      <4> QED
        BY <3>1, <4>1
    <3> QED
      BY <1>1, <3>1, <3>2, <3>3 DEF Counts
  <2> QED
    BY <1>3, <2>0, <2>1, <2>2 DEF Opened
<1>13. Works' /\ SignsInSafely' /\ CountHolds' /\ WritesLand'
  BY <1>1 DEF IInv, Works, SignsInSafely, CountHolds, WritesLand
<1> QED
  BY <1>5, <1>6, <1>7, <1>8, <1>9, <1>10, <1>11, <1>12, <1>13 DEF IInv

\* The continuation request sends the literal to a server that waits for it.
LEMMA LiteralAskedHolds ==
    ASSUME IInv, wire # <<>>, wire[1].k = "continue", cur.wait = 1, cur.cmd.lit = "sync",
           Continuation(wire[1])
    PROVE  IInv'
<1>1. ~Idle /\ cur # NoCur /\ Apart(cur.cmd)
  <2>1. cur.cmd # NoCmd
    BY DEF NoCmd
  <2> QED
    BY <2>1, NoCurSays DEF IInv, Literals, Types
<1>2. Sound(cur.cmd, srv.literals) /\ cur.cmd.tag \in Nat \ {0} /\ cur.cmd.op \in Appends \cup {"uid_search"}
  BY <1>1, AskedSays DEF Sound
<1> DEFINE t == cur.cmd.tag
           m == [NoCmd EXCEPT !.op = "literal", !.tag = cur.cmd.tag]
<1>3. Sound(m, srv.literals) /\ m.op = "literal" /\ m.tag = t /\ m.lit = "none"
  BY <1>2, LiteralSays
<1>4. /\ out' = Append(out, m) /\ wire' = Tail(wire) /\ UNCHANGED <<srv, cl, turn>>
      /\ cur' = [cur EXCEPT !.wait = 0, !.lines = 0]
  BY DEF Continuation, Ends
<1>5. cur'.cmd = cur.cmd /\ cur'.wait = 0 /\ IsCur(cur')
  BY <1>4 DEF IInv, Types, IsCur
<1> HIDE DEF m
<1>6. /\ srv.mode = "literal" /\ srv.held.lit = "sync" /\ srv.busy = NoCmd /\ srv.held # NoCmd
      /\ \A i \in DOMAIN out : out[i].op # "literal"
      /\ \A q \in DOMAIN wire : wire[q].k = "continue" => q = 1
  BY LineSays DEF IInv, Literals, Modes
<1>7. srv.held.tag = t
  <2>1. Tagged(t)
    BY <1>1, <1>2 DEF IInv, Tags, Appends
  <2>2. srv.held.tag # 0
    BY <1>6 DEF IInv, Types, Sound
  <2> QED
    BY <2>1, <2>2 DEF Tagged
<1>8. srv.held = cur.cmd /\ out = <<>>
  <2>1. srv.held = cur.cmd /\ \A i \in DOMAIN out : i = 1 /\ out[i].op = "literal"
    BY <1>1, <1>7 DEF IInv, OwnLast
  <2>2. IsSeq(out)
    BY DEF IInv, Types
  <2> QED
    BY <1>6, <2>1, <2>2, SeqBasics
<1>9. IsSeq(out') /\ Len(out') = 1 /\ DOMAIN out' = {1} /\ out'[1] = m /\ out' # <<>>
  <2>1. IsSeq(out) /\ Len(out) = 0
    BY <1>8, SeqEmpty
  <2>2. IsSeq(out') /\ Len(out') = Len(out) + 1 /\ out'[Len(out) + 1] = m
    <3>1. IsSeq(Append(out, m))
      BY <2>1, SeqAppend
    <3>2. Len(Append(out, m)) = Len(out) + 1
      BY <2>1, SeqAppend
    <3>3. Append(out, m)[Len(out) + 1] = m
      BY <2>1, SeqAppend
    <3> QED
      BY <1>4, <3>1, <3>2, <3>3
  <2>3. Len(out) + 1 = 1 /\ 1..1 = {1}
    BY <2>1
  <2> QED
    BY <2>2, <2>3, SeqBasics
<1>10. /\ IsSeq(wire') /\ DOMAIN wire' = 1..(Len(wire) - 1) /\ Len(wire) \in Nat
       /\ \A i \in DOMAIN wire' : i + 1 \in DOMAIN wire /\ wire'[i] = wire[i + 1]
       /\ \A i \in DOMAIN wire' : wire'[i].k = "exists" => wire'[i].n \in Nat
       /\ \A i \in DOMAIN wire' : i + 1 # 1
  BY <1>4, LineSays
<1>11. Types'
  BY <1>1, <1>3, <1>4, <1>5, <1>9, <1>10 DEF IInv, Types, Idle
<1>12. Modes' /\ Leading' /\ Rest' /\ Trailing'
  BY <1>1, <1>3, <1>4, <1>5, <1>9 DEF IInv, Modes, Leading, Rest, Trailing, Idle
<1>13. Tags'
  <2>1. Tagged(t)
    BY <1>1, <1>2 DEF IInv, Tags, Appends
  <2>2. Tagged(t)'
    BY <1>3, <1>4, <1>9, <1>10, <2>1 DEF Tagged
  <2> QED
    BY <1>1, <1>5, <2>2 DEF Tags, Idle
<1>14. OwnLast'
  <2>1. \A p \in DOMAIN wire' : ~Tells(wire'[p], t)
    <3>1. \A p \in DOMAIN wire : ~Tells(wire[p], t)
      BY <1>1, <1>6 DEF IInv, OwnLast
    <3> QED
      BY <1>10, <3>1
  <2> QED
    BY <1>2, <1>3, <1>4, <1>5, <1>6, <1>8, <1>9, <2>1, NoCurSays DEF OwnLast
<1>15. Stages' /\ Offered' /\ Opened' /\ Works'
  <2>1. Stages' /\ Works'
    BY <1>4, <1>5 DEF IInv, Stages, Works, Idle
  <2>2. Offered' /\ Opened'
    BY <1>2, <1>4, <1>5 DEF IInv, Offered, Opened, Opens, Appends
  <2> QED
    BY <2>1, <2>2
<1>16. Literals'
  <2>1. \A p \in DOMAIN wire' : wire'[p].k # "continue"
    BY <1>6, <1>10
  <2> QED
    BY <1>3, <1>4, <1>5, <1>6, <1>9, <2>1 DEF Literals, Appends
<1>17. Selected'
  <2> SUFFICES ASSUME turn.box # None PROVE Selected'
    BY <1>4 DEF Selected
  <2>1. /\ srv.sel = turn.box /\ cl.count \in Nat /\ Counts(0) /\ (cl.writable => srv.rw)
        /\ cur.cmd.op \notin Opens
    BY DEF IInv, Selected
  <2>2. Bounded(cl.count, Tail(wire), Len(srv.view), 0)
    BY <2>1, CountsOn, NotedSame
  <2>3. Counts(0)'
    BY <1>4, <2>2 DEF Counts
  <2> QED
    BY <1>4, <1>5, <2>1, <2>3 DEF Selected
<1>18. SignsInSafely' /\ CountHolds' /\ WritesLand'
  BY <1>3, <1>9 DEF SignsInSafely, CountHolds, WritesLand, Ways, Walks, Writes, Transfers
<1> QED
  BY <1>11, <1>12, <1>13, <1>14, <1>15, <1>16, <1>17, <1>18 DEF IInv

\* The next command of the same call: a window below the count, or the EXPUNGE
\* of what is marked.
LEMMA NextHolds ==
    ASSUME IInv, ~Idle, wire # <<>>, Tells(wire[1], cur.cmd.tag), TaggedOk(wire[1]),
           NextWindow \cup ExpungeNext # {}
    PROVE  IInv'
<1>1. /\ out = <<>> /\ srv.busy = NoCmd /\ srv.mode = "idle" /\ srv.held = NoCmd
      /\ NewsOnly(Tail(wire))
  BY OwnLine
<1>2. PICK cmd \in NextWindow \cup ExpungeNext :
           /\ out' = Append(out, [cmd EXCEPT !.tag = NextTag])
           /\ cur' = [cur EXCEPT !.cmd = [cmd EXCEPT !.tag = NextTag], !.lines = 0,
                                 !.wait = IF cmd.lit = "sync" THEN 1 ELSE 0]
           /\ wire' = Tail(wire)
           /\ UNCHANGED <<srv, cl, turn>>
  BY DEF TaggedOk
<1>3. Sound(cur.cmd, srv.literals) /\ cur.cmd.tag \in Nat \ {0} /\ IsCmd(cur.cmd) /\ cur # NoCur
  BY AskedSays, NoCurSays DEF Sound, Idle
<1>4. cur.cmd.op \in Walks \cup {"uid_expunge"}
  BY <1>2 DEF NextWindow, ExpungeNext
<1>5. NextTag \in Nat \ {0}
  <2>1. Tagged(cur.cmd.tag)
    BY <1>4 DEF IInv, Tags, Walks
  <2> QED
    BY <1>3, <2>1, TagIsFresh DEF TAGS
<1> DEFINE t == NextTag
           x == [cmd EXCEPT !.tag = NextTag]
<1>6. /\ turn.box # None /\ srv.sel = turn.box /\ cl.count \in Nat /\ Counts(0)
      /\ (cl.writable => srv.rw) /\ cur.cmd.op \notin Opens
      /\ cur.cmd.op \in Writes => cur.cmd.box = turn.box /\ cl.writable
  BY <1>4 DEF IInv, Works, Selected, Writes
<1>7. Bounded(cl.count, Tail(wire), Len(srv.view), 0)
  BY <1>6, CountsOn, NotedSame DEF Tells
<1>8. cl.count <= Len(srv.view) /\ Len(srv.view) \in Nat
  <2>1. IsSeq(Tail(wire)) /\ \A q \in DOMAIN Tail(wire) : Tail(wire)[q].k # "expunge"
    BY <1>1 DEF NewsOnly
  <2>2. Len(srv.view) \in Nat
    BY SeqBasics DEF IInv, Types
  <2> QED
    BY <1>6, <1>7, <2>1, <2>2, BoundedQuiet
<1>9. /\ IsCmd(cmd) /\ cmd.op = cur.cmd.op /\ cmd.box = cur.cmd.box /\ cmd.lit = cur.cmd.lit
      /\ cmd.size = cur.cmd.size
      /\ cmd.op \in Walks => /\ cmd.low \in Nat \ {0} /\ cmd.high \in Nat
                             /\ cmd.low >= 1 /\ cmd.low <= cmd.high /\ cmd.high <= cl.count
  <2>1. CASE cmd \in NextWindow
    <3> DEFINE w == Window(cur.cmd.low - 1, cl.count)
    <3>1. /\ cur.cmd.op \in Walks /\ w.high > 0
          /\ cmd = [cur.cmd EXCEPT !.low = w.low, !.high = w.high]
      BY <2>1 DEF NextWindow
    <3>2. cur.cmd.low - 1 \in Int
      BY <1>3, <3>1 DEF Sound
    <3>3. /\ w.low \in Nat \ {0} /\ w.high \in Nat
          /\ w.low >= 1 /\ w.low <= w.high /\ w.high <= cl.count
      BY <1>6, <3>1, <3>2, WindowFits
    <3> HIDE DEF w
    <3> QED
      BY <1>3, <3>1, <3>3 DEF IsCmd
  <2>2. CASE cmd \in ExpungeNext
    <3>1. cur.cmd.op = "uid_expunge" /\ cmd = [cur.cmd EXCEPT !.low = 1]
      BY <2>2 DEF ExpungeNext
    <3>2. "uid_expunge" \notin Walks
      BY DEF Walks
    <3> QED
      BY <1>3, <3>1, <3>2 DEF IsCmd
  <2> QED
    BY <2>1, <2>2
<1> HIDE DEF t
<1>10. /\ IsCmd(x) /\ x.op = cmd.op /\ x.box = cmd.box /\ x.lit = cmd.lit /\ x.size = cmd.size
       /\ x.low = cmd.low /\ x.high = cmd.high /\ x.tag = NextTag
  BY <1>9 DEF IsCmd
<1> HIDE DEF x
<1>11. Sound(x, srv.literals)
  BY <1>3, <1>5, <1>9, <1>10, <1>4 DEF Sound
<1>12. IsCur(cur') /\ cur'.cmd = x /\ cur'.wait = (IF cmd.lit = "sync" THEN 1 ELSE 0) /\ out' = Append(out, x)
  <2>1. IsCur(cur)
    BY DEF IInv, Types
  <2>2. cur' = [cur EXCEPT !.cmd = x, !.lines = 0, !.wait = IF cmd.lit = "sync" THEN 1 ELSE 0]
    BY <1>2 DEF x
  <2>3. out' = Append(out, x)
    BY <1>2 DEF x
  <2> QED
    BY <2>1, <2>2, <2>3 DEF IsCur
<1>13. cur'.wait = (IF Apart(x) THEN 1 ELSE 0)
  BY <1>4, <1>9, <1>10, <1>12 DEF Apart, Appends, Walks
<1>14. Fits(x)
  BY <1>4, <1>6, <1>8, <1>9, <1>10 DEF Fits, Ways, Walks, Writes, Transfers
<1>15. x.op \notin {"none", "literal", "check", "sign_in"} /\ x.op \notin Opens
  BY <1>4, <1>9, <1>10 DEF Walks, Opens
<1>16. Stages' /\ Offered' /\ Works'
  <2>1. Stages'
    BY <1>2, <1>12, <1>15, <1>9, <1>10 DEF IInv, Stages, Idle
  <2>2. Offered' /\ Works'
    BY <1>2, <1>6, <1>9, <1>10, <1>12, <1>15 DEF IInv, Stages, Offered, Works, Idle
  <2> QED
    BY <2>1, <2>2
<1>17. Selected'
  <2>1. Counts(0)'
    BY <1>2, <1>7 DEF Counts
  <2> QED
    BY <1>2, <1>6, <1>12, <1>15, <2>1 DEF Selected
<1>18. Types /\ srv' = srv /\ NewsOnly(wire') /\ IsSession(cl') /\ cl'.count \in Nat \cup {NoCount} /\ IsTurn(turn')
  BY <1>1, <1>2 DEF IInv, Types
<1> QED
  BY <1>1, <1>11, <1>12, <1>13, <1>14, <1>15, <1>16, <1>17, <1>18, AskHolds

\* A line read ends the command, goes to the count, or sends the literal or
\* the next command.
LEMMA ReadHolds ==
    ASSUME IInv, Read
    PROVE  IInv'
<1> DEFINE l == wire[1]
<1>1. /\ ~Idle /\ wire # <<>> /\ Head(wire) = l
      /\ \/ Guarded(l) /\ Ends("protocol", cl, l)
         \/ ~Guarded(l) /\ Continuation(l)
         \/ ~Guarded(l) /\ Answer(l)
  <2>1. ~Idle /\ wire # <<>>
    BY DEF Read
  <2>2. Head(wire) = l
    BY <2>1, LineSays
  <2> QED
    BY <2>1, <2>2 DEF Read
<1> HIDE DEF l
<1>2. ~Stands(cur.cmd.op, "protocol")
  BY DEF Stands
<1>3. ASSUME NEW session, Ends("protocol", session, l) PROVE IInv'
  BY <1>2, <1>3, EndsGone
<1>4. ASSUME l.k = "done", l.tag = cur.cmd.tag, l.status # "ok" \/ cur.wait = 1,
             Ends(Refusal(l.status), cl, l)
      PROVE  IInv'
  <2>1. CASE Stands(cur.cmd.op, Refusal(l.status))
    <3>1. Refusal(l.status) # "ok" /\ (l.status = "ok" => Refusal(l.status) = "protocol")
      BY DEF Refusal
    <3>2. l.status # "ok"
      BY <1>2, <2>1, <3>1
    <3>3. Tells(wire[1], cur.cmd.tag)
      BY <1>4 DEF Tells, l
    <3> QED
      BY <1>1, <1>4, <2>1, <3>1, <3>2, <3>3, EndsWell DEF l
  <2>2. CASE ~Stands(cur.cmd.op, Refusal(l.status))
    BY <1>4, <2>2, EndsGone
  <2> QED
    BY <2>1, <2>2
<1>5. ASSUME ~(l.k = "done" /\ l.tag = cur.cmd.tag), cl' = Followed(l), wire' = Tail(wire),
             UNCHANGED <<srv, out, turn>>, IsCur(cur'), cur'.cmd = cur.cmd, cur'.wait = cur.wait
      PROVE  IInv'
  <2>1. ~Tells(wire[1], cur.cmd.tag)
    BY <1>5 DEF Tells, l
  <2> QED
    BY <1>1, <1>5, <2>1, SkipHolds DEF l
<1>6. IsCur(cur)
  BY DEF IInv, Types
<1>7. CASE Continuation(l)
  <2>1. cur.wait = 1 /\ cur.cmd.lit = "sync"
    BY <1>7 DEF Continuation
  <2>2. CASE l.k = "continue"
    BY <1>1, <1>7, <2>1, <2>2, LiteralAskedHolds DEF l
  <2>3. CASE l.k = "done" /\ l.tag = cur.cmd.tag
    <3>1. Ends(Refusal(l.status), cl, l)
      BY <1>7, <2>3 DEF Continuation
    <3> QED
      BY <1>4, <2>1, <2>3, <3>1
  <2>4. CASE l.k # "continue" /\ ~(l.k = "done" /\ l.tag = cur.cmd.tag)
    <3>1. \/ /\ cur' = [cur EXCEPT !.lines = Counted(@, l)]
             /\ cl' = Followed(l) /\ wire' = Tail(wire) /\ UNCHANGED <<srv, out, turn>>
          \/ Ends("protocol", cl, l)
      BY <1>7, <2>4 DEF Continuation
    <3>2. CASE cur' = [cur EXCEPT !.lines = Counted(@, l)]
      <4>1. IsCur(cur') /\ cur'.cmd = cur.cmd /\ cur'.wait = cur.wait
        BY <1>6, <3>2 DEF IsCur
      <4> QED
        BY <1>3, <1>5, <2>4, <3>1, <4>1
    <3> QED
      BY <1>3, <3>1, <3>2
  <2> QED
    BY <2>2, <2>3, <2>4
<1>8. CASE Answer(l)
  <2>1. CASE l.k = "done" /\ l.tag = cur.cmd.tag /\ l.status = "ok"
    <3>1. TaggedOk(l)
      BY <1>8, <2>1 DEF Answer
    <3>2. Tells(wire[1], cur.cmd.tag)
      BY <2>1 DEF Tells, l
    <3>3. CASE NextWindow \cup ExpungeNext # {}
      BY <1>1, <3>1, <3>2, <3>3, NextHolds DEF l
    <3>4. CASE NextWindow \cup ExpungeNext = {}
      <4>1. Ends(IF Lacking THEN "protocol" ELSE "ok", cl, l)
        BY <3>1, <3>4 DEF TaggedOk
      <4>2. CASE Lacking
        BY <1>3, <4>1, <4>2
      <4>3. CASE ~Lacking
        <5>1. Ends("ok", cl, l) /\ Stands(cur.cmd.op, "ok")
          BY <4>1, <4>3 DEF Stands
        <5> QED
          BY <1>1, <2>1, <3>2, <5>1, EndsWell DEF l
      <4> QED
        BY <4>2, <4>3
    <3> QED
      BY <3>3, <3>4
  <2>2. CASE l.k = "done" /\ l.tag = cur.cmd.tag /\ l.status # "ok"
    <3>1. Ends(Refusal(l.status), cl, l)
      BY <1>8, <2>2 DEF Answer
    <3> QED
      BY <1>4, <2>2, <3>1
  <2>3. CASE ~(l.k = "done" /\ l.tag = cur.cmd.tag)
    <3>1. \/ /\ cur' = [cur EXCEPT !.lines = Counted(@, l),
                                   !.got = IF l.k = "done" THEN @ ELSE Visit(@, l)]
             /\ cl' = Followed(l) /\ wire' = Tail(wire) /\ UNCHANGED <<srv, out, turn>>
          \/ Ends("protocol", cl, l)
          \/ Ends("protocol", Followed(l), l)
      BY <1>8, <2>3 DEF Answer
    <3>2. CASE cur' = [cur EXCEPT !.lines = Counted(@, l),
                                  !.got = IF l.k = "done" THEN @ ELSE Visit(@, l)]
      <4>1. IsCur(cur') /\ cur'.cmd = cur.cmd /\ cur'.wait = cur.wait
        BY <1>6, <3>2 DEF IsCur
      <4> QED
        BY <1>3, <1>5, <2>3, <3>1, <4>1
    <3> QED
      BY <1>3, <3>1, <3>2
  <2> QED
    BY <2>1, <2>2, <2>3
<1> QED
  BY <1>1, <1>3, <1>7, <1>8

-----------------------------------------------------------------------------
(* What the server takes *)

\* The command c is complete on the server's side: its literal is in, or it is
\* the first that came and waits for none.
Takes(c) ==
    /\ out # <<>> /\ srv.busy = NoCmd /\ Sound(c, srv.literals) /\ c.op # "literal"
    /\ \/ srv.mode = "literal" /\ srv.held = c /\ out[1].op = "literal"
       \/ srv.mode = "idle" /\ out[1] = c /\ ~(c.lit = "plus" /\ c.op \in Appends)

\* What is left for the server behind the first thing written.
LEMMA OutSays ==
    ASSUME IInv, out # <<>>
    PROVE  /\ IsSeq(out) /\ Len(out) \in Nat \ {0} /\ DOMAIN out = 1..Len(out)
           /\ 1 \in DOMAIN out /\ Head(out) = out[1]
           /\ IsSeq(Tail(out)) /\ Len(Tail(out)) = Len(out) - 1
           /\ DOMAIN Tail(out) = 1..(Len(out) - 1)
           /\ \A i \in DOMAIN Tail(out) : /\ i + 1 \in DOMAIN out /\ Tail(out)[i] = out[i + 1]
                                          /\ i \in Nat \ {0}
           /\ \A i \in DOMAIN out : i # 1 => i - 1 \in DOMAIN Tail(out) /\ Tail(out)[i - 1] = out[i]
           /\ Tail(out) = <<>> <=> Len(out) = 1
<1>1. IsSeq(out)
  BY DEF IInv, Types
<1>2. Len(out) \in Nat \ {0} /\ DOMAIN out = 1..Len(out) /\ 1 \in DOMAIN out /\ Head(out) = out[1]
  BY <1>1, SeqBasics
<1>3. /\ IsSeq(Tail(out)) /\ Len(Tail(out)) = Len(out) - 1
      /\ DOMAIN Tail(out) = 1..(Len(out) - 1)
      /\ \A i \in 1..(Len(out) - 1) : Tail(out)[i] = out[i + 1]
  BY <1>1, SeqTail
<1>4. \A i \in 1..(Len(out) - 1) : i + 1 \in DOMAIN out /\ i \in Nat \ {0}
  BY <1>2
<1>5. Tail(out) = <<>> <=> Len(Tail(out)) = 0
  BY <1>3, SeqBasics
<1>6. \A i \in 1..Len(out) : i # 1 => i - 1 \in 1..(Len(out) - 1) /\ (i - 1) + 1 = i
  BY <1>2
<1> QED
  BY <1>1, <1>2, <1>3, <1>4, <1>5, <1>6

\* What is taken is of the command asked, or of one dropped; a NOOP alone may
\* be behind it.
LEMMA TakesSays ==
    ASSUME IInv, NEW c, Takes(c)
    PROVE  /\ \A i \in DOMAIN Tail(out) : Tail(out)[i].op = "check"
           /\ \A p \in DOMAIN wire : wire[p].k # "continue"
           /\ ~Idle => \A p \in DOMAIN wire : ~Tells(wire[p], cur.cmd.tag)
           /\ ~Idle /\ c.tag = cur.cmd.tag =>
                /\ Tail(out) = <<>>
                /\ c = cur.cmd \/ (cur.cmd.op = "sign_in" /\ c.op \in Ways)
           /\ \A tag : Tagged(tag) => c.tag = tag
           /\ Idle => ~turn.on /\ cl.state = "signed"
           /\ cur.wait = 1 => cur.cmd.lit # "plus"
           /\ c.tag \in Nat \ {0}
<1>1. out # <<>> /\ 1 \in DOMAIN out /\ c.tag \in Nat \ {0}
  BY OutSays DEF Takes, Sound
<1>2. \A i \in DOMAIN out : i > 1 => out[i].op = "check"
  <2> SUFFICES ASSUME NEW i \in DOMAIN out, i > 1 PROVE out[i].op = "check"
    OBVIOUS
  <2>1. out[i].op \in {"literal", "check"}
    BY DEF IInv, Leading
  <2>2. ASSUME out[i].op = "literal" PROVE FALSE
    <3>1. out[i - 1].op \in Appends /\ out[i - 1].lit = "plus"
      BY <2>2 DEF IInv, Trailing
    <3>2. i - 1 \in DOMAIN out
      BY OutSays DEF Takes
    <3>3. i - 1 = 1 /\ srv.mode = "idle"
      BY <3>1, <3>2 DEF IInv, Leading, Appends
    <3> QED
      BY <3>1, <3>3 DEF Takes
  <2> QED
    BY <2>1, <2>2
<1>3. \A i \in DOMAIN Tail(out) : Tail(out)[i].op = "check"
  <2>1. \A i \in DOMAIN Tail(out) : i + 1 > 1
    BY <1>1, OutSays
  <2> QED
    BY <1>1, <1>2, <2>1, OutSays
<1>4. \A p \in DOMAIN wire : wire[p].k # "continue"
  BY <1>1 DEF IInv, Literals, Takes
<1>5. ~Idle => \A p \in DOMAIN wire : ~Tells(wire[p], cur.cmd.tag)
  BY <1>1 DEF IInv, OwnLast
<1>6. ASSUME ~Idle, c.tag = cur.cmd.tag
      PROVE  /\ Tail(out) = <<>>
             /\ c = cur.cmd \/ (cur.cmd.op = "sign_in" /\ c.op \in Ways)
  <2>1. Tail(out) # <<>> => 1 \in DOMAIN Tail(out) /\ 2 \in DOMAIN out /\ out[2].op # "literal"
    <3>1. Tail(out) # <<>> => 1 \in DOMAIN Tail(out)
      BY <1>1, OutSays, SeqBasics
    <3>2. 1 \in DOMAIN Tail(out) => 2 \in DOMAIN out
      BY <1>1, OutSays
    <3> QED
      BY <1>2, <3>1, <3>2
  <2>2. CASE srv.mode = "literal" /\ srv.held = c
    <3>1. srv.held = cur.cmd /\ \A i \in DOMAIN out : i = 1
      BY <1>6, <2>2 DEF IInv, OwnLast
    <3> QED
      BY <2>1, <2>2, <3>1
  <2>3. CASE out[1] = c
    <3>1. /\ out[1] = cur.cmd \/ (cur.cmd.op = "sign_in" /\ out[1].op \in Ways)
          /\ \A j \in DOMAIN out : j > 1 => j = 1 + 1 /\ out[j].op = "literal"
      BY <1>1, <1>6, <2>3 DEF IInv, OwnLast, Takes
    <3> QED
      BY <2>1, <2>3, <3>1
  <2> QED
    BY <2>2, <2>3 DEF Takes
<1>7. \A tag : Tagged(tag) => c.tag = tag
  BY <1>1 DEF Tagged, Takes
<1>8. Idle => ~turn.on /\ cl.state = "signed"
  BY <1>1 DEF IInv, Rest, Quiet
<1>9. cur.wait = 1 => cur.cmd.lit # "plus"
  <2> SUFFICES ASSUME cur.wait = 1, cur.cmd.lit = "plus" PROVE FALSE
    OBVIOUS
  <2>1. cur.cmd.op \in Appends /\ out[1] = cur.cmd
    BY <1>1 DEF IInv, Literals, Apart
  <2> QED
    BY <2>1 DEF Takes, Appends
<1> QED
  BY <1>1, <1>3, <1>4, <1>5, <1>6, <1>7, <1>8, <1>9

\* The server's side after a step: its record and its lines.
ServerTypes ==
    /\ IsServer(srv) /\ srv.mail = [b \in Boxes |-> srv.mail[b]]
    /\ \A b \in Boxes : IsSeq(srv.mail[b])
    /\ srv.sel \in Boxes \cup {None} /\ IsSeq(srv.view)
    /\ IsSeq(wire) /\ \A i \in DOMAIN wire : wire[i].k = "exists" => wire[i].n \in Nat

\* What stays once a command is taken.
LEMMA TakeKeeps ==
    ASSUME IInv, NEW c, Takes(c), out' = Tail(out), UNCHANGED <<cl, cur, turn>>, ServerTypes',
           srv'.literals = srv.literals, srv'.busy \in {NoCmd, c}, srv'.held \in {NoCmd, c}
    PROVE  /\ Types' /\ Leading' /\ Rest' /\ Stages' /\ Trailing' /\ Works'
           /\ SignsInSafely' /\ CountHolds' /\ WritesLand'
<1>1. out # <<>> /\ \A i \in DOMAIN out' : out'[i].op = "check"
  BY TakesSays DEF Takes
<1>2. Types'
  <2>1. Sound(c, srv.literals)
    BY DEF Takes
  <2>2. IsSeq(out') /\ \A i \in DOMAIN out' : Sound(out'[i], srv.literals)
    <3>1. \A i \in DOMAIN out : Sound(out[i], srv.literals)
      BY DEF IInv, Types
    <3> QED
      BY <1>1, <3>1, OutSays
  <2> QED
    BY <2>1, <2>2 DEF IInv, Types, ServerTypes, Idle
<1>3. Leading' /\ Trailing' /\ SignsInSafely' /\ CountHolds' /\ WritesLand'
  BY <1>1 DEF Leading, Trailing, SignsInSafely, CountHolds, WritesLand, Ways, Walks, Writes, Transfers
<1>4. Rest' /\ Stages' /\ Works'
  <2>1. Rest'
    BY TakesSays DEF Rest, Idle
  <2>2. Stages' /\ Works'
    BY DEF IInv, Stages, Works, Idle
  <2> QED
    BY <2>1, <2>2
<1> QED
  BY <1>2, <1>3, <1>4

\* Nothing reads a literal any more, and only a NOOP is behind.
LEMMA TakeLiterals ==
    ASSUME IInv, NEW c, Takes(c), out' = Tail(out), UNCHANGED <<cl, cur, turn>>,
           srv'.mode = "idle", \A p \in DOMAIN wire' : wire'[p].k # "continue"
    PROVE  Literals'
<1>1. \A i \in DOMAIN out' : out'[i].op = "check" /\ out'[i].lit = "none"
  <2>1. \A i \in DOMAIN out : Sound(out[i], srv.literals)
    BY DEF IInv, Types
  <2>2. \A i \in DOMAIN out' : out'[i].op = "check" /\ Sound(out'[i], srv.literals)
    BY <2>1, TakesSays, OutSays DEF Takes
  <2> QED
    BY <2>2 DEF Sound, Appends
<1>2. cur.wait = 1 => cur.cmd.lit # "plus" /\ Apart(cur.cmd)
  BY TakesSays DEF IInv, Literals
<1>3. out' # <<>> => out'[1].op = "check"
  <2>1. IsSeq(out')
    BY OutSays DEF Takes
  <2> QED
    BY <1>1, <2>1, SeqBasics
<1> QED
  BY <1>1, <1>2, <1>3 DEF Literals, Appends

\* What is behind the first thing written is the command asked as before.
LEMMA OwnTail ==
    ASSUME IInv, ~Idle, out # <<>>, out' = Tail(out)
    PROVE  \A i \in DOMAIN out' : out'[i].tag = cur.cmd.tag /\ out'[i].op # "literal" =>
             /\ out'[i] = cur.cmd \/ (cur.cmd.op = "sign_in" /\ out'[i].op \in Ways)
             /\ \A j \in DOMAIN out' : j > i => j = i + 1 /\ out'[j].op = "literal"
<1> SUFFICES ASSUME NEW i \in DOMAIN out', out'[i].tag = cur.cmd.tag, out'[i].op # "literal"
             PROVE  /\ out'[i] = cur.cmd \/ (cur.cmd.op = "sign_in" /\ out'[i].op \in Ways)
                    /\ \A j \in DOMAIN out' : j > i => j = i + 1 /\ out'[j].op = "literal"
  OBVIOUS
<1>1. i + 1 \in DOMAIN out /\ out'[i] = out[i + 1] /\ i \in Nat
  BY OutSays
<1>2. /\ out[i + 1] = cur.cmd \/ (cur.cmd.op = "sign_in" /\ out[i + 1].op \in Ways)
      /\ \A j \in DOMAIN out : j > i + 1 => j = (i + 1) + 1 /\ out[j].op = "literal"
  BY <1>1 DEF IInv, OwnLast
<1>3. ASSUME NEW j \in DOMAIN out', j > i PROVE j = i + 1 /\ out'[j].op = "literal"
  <2>1. j + 1 \in DOMAIN out /\ out'[j] = out[j + 1] /\ j \in Nat
    BY OutSays
  <2>2. j + 1 > i + 1
    BY <1>1, <1>3, <2>1
  <2>3. j + 1 = (i + 1) + 1 /\ out[j + 1].op = "literal"
    BY <1>2, <2>1, <2>2
  <2> QED
    BY <1>1, <2>1, <2>3
<1> QED
  BY <1>1, <1>2, <1>3

\* While a turn has its mailbox the server takes no open.
LEMMA TakesOwn ==
    ASSUME IInv, NEW c, Takes(c), turn.box # None, cur.cmd.op \notin Opens
    PROVE  c.op \notin Opens
<1>1. turn.on /\ cur.cmd.op \notin {"sign_in", "check"}
  BY DEF IInv, Stages
<1>2. ~Idle
  BY <1>1, TakesSays
<1>3. c.tag = cur.cmd.tag
  BY <1>1, <1>2, TakesSays DEF IInv, Tags
<1> QED
  BY <1>1, <1>2, <1>3, TakesSays

\* One line more on the wire.
LEMMA LineMore ==
    ASSUME IInv, NEW x, wire' = Append(wire, x)
    PROVE  /\ IsSeq(wire) /\ Len(wire) \in Nat /\ DOMAIN wire = 1..Len(wire)
           /\ IsSeq(wire') /\ Len(wire') = Len(wire) + 1 /\ DOMAIN wire' = 1..(Len(wire) + 1)
           /\ wire'[Len(wire) + 1] = x
           /\ \A p \in DOMAIN wire : /\ wire'[p] = wire[p] /\ p # Len(wire) + 1
                                     /\ p \in DOMAIN wire'
           /\ Len(wire) + 1 \in DOMAIN wire'
           /\ \A p \in DOMAIN wire' : p # Len(wire) + 1 => p \in DOMAIN wire
           /\ (x.k = "exists" => x.n \in Nat) =>
                \A p \in DOMAIN wire' : wire'[p].k = "exists" => wire'[p].n \in Nat
<1>1. IsSeq(wire) /\ \A i \in DOMAIN wire : wire[i].k = "exists" => wire[i].n \in Nat
  BY DEF IInv, Types
<1>2. Len(wire) \in Nat /\ DOMAIN wire = 1..Len(wire)
  BY <1>1, SeqBasics
<1>3. /\ IsSeq(wire') /\ Len(wire') = Len(wire) + 1 /\ DOMAIN wire' = 1..(Len(wire) + 1)
      /\ wire'[Len(wire) + 1] = x /\ \A p \in 1..Len(wire) : wire'[p] = wire[p]
  BY <1>1, SeqAppend
<1>4. /\ \A p \in 1..Len(wire) : p # Len(wire) + 1 /\ p \in 1..(Len(wire) + 1)
      /\ Len(wire) + 1 \in 1..(Len(wire) + 1)
      /\ \A p \in 1..(Len(wire) + 1) : p # Len(wire) + 1 => p \in 1..Len(wire)
  BY <1>2
<1> QED
  BY <1>1, <1>2, <1>3, <1>4

\* A line that tells of no mailbox leaves the count as good as it was.
LEMMA CountsMore ==
    ASSUME IInv, NEW x, wire' = Append(wire, x), x.k \notin {"exists", "expunge"},
           cl' = cl, Len(srv'.view) = Len(srv.view), cl.count \in Nat
    PROVE  \A most \in Nat : Counts(most) => Bounded(cl'.count, wire', Len(srv'.view), most)
<1>1. IsSeq(wire) /\ Len(srv.view) \in Nat
  BY SeqBasics DEF IInv, Types
<1> QED
  BY <1>1, BoundedAppend DEF Counts

\* A tagged answer to what the server took: a refusal, or the sign-in's.
LEMMA AnsweredHolds ==
    ASSUME IInv, NEW c, Takes(c), out' = Tail(out), UNCHANGED <<cl, cur, turn>>,
           NEW status, wire' = Append(wire, Done(c, status, FALSE)),
           status # "ok" \/ c.op \in Ways,
           IsServer(srv'), srv'.mode = "idle", srv'.held = NoCmd, srv'.busy = NoCmd,
           srv'.mail = srv.mail, srv'.tls = srv.tls, srv'.torn = srv.torn,
           srv'.literals = srv.literals,
           srv'.offers = srv.offers \/ (c.op \in Ways /\ status = "ok"),
           c.op \in Opens => srv'.sel = None /\ IsSeq(srv'.view),
           c.op \notin Opens => srv'.sel = srv.sel /\ srv'.rw = srv.rw /\ srv'.view = srv.view
    PROVE  IInv'
<1> DEFINE x == Done(c, status, FALSE)
           n == Len(wire) + 1
<1>1. x.k = "done" /\ x.tag = c.tag /\ x.status = status
  BY DEF Done
<1> HIDE DEF x
<1>2. /\ IsSeq(wire') /\ DOMAIN wire' = 1..n /\ n \in Nat /\ wire'[n] = x
      /\ \A p \in DOMAIN wire : wire'[p] = wire[p] /\ p \in DOMAIN wire'
      /\ \A p \in DOMAIN wire' : p # n => p \in DOMAIN wire
      /\ \A p \in DOMAIN wire' : wire'[p].k = "exists" => wire'[p].n \in Nat
      /\ n \in DOMAIN wire'
  <2>1. wire' = Append(wire, x)
    BY DEF x
  <2>2. Len(wire) \in Nat /\ DOMAIN wire = 1..Len(wire)
    BY <2>1, LineMore
  <2>3. /\ IsSeq(wire') /\ DOMAIN wire' = 1..(Len(wire) + 1) /\ wire'[Len(wire) + 1] = x
        /\ Len(wire) + 1 \in DOMAIN wire'
    BY <2>1, LineMore
  <2>4. \A p \in DOMAIN wire : wire'[p] = wire[p] /\ p \in DOMAIN wire'
    BY <2>1, LineMore
  <2>5. \A p \in DOMAIN wire' : p # Len(wire) + 1 => p \in DOMAIN wire
    BY <2>1, LineMore
  <2>6. x.k = "exists" => x.n \in Nat
    BY <1>1
  <2>7. \A p \in DOMAIN wire' : wire'[p].k = "exists" => wire'[p].n \in Nat
    BY <2>1, <2>6, LineMore
  <2>8. n \in Nat
    BY <2>2
  <2> QED
    BY <2>3, <2>4, <2>5, <2>7, <2>8
<1>3. ServerTypes'
  <2>1. IsSeq(srv'.view) /\ srv'.sel \in Boxes \cup {None}
    BY DEF IInv, Types
  <2>2. srv'.mail = [b \in Boxes |-> srv'.mail[b]] /\ \A b \in Boxes : IsSeq(srv'.mail[b])
    BY DEF IInv, Types
  <2> QED
    BY <1>2, <2>1, <2>2 DEF ServerTypes
<1>4. /\ Types' /\ Leading' /\ Rest' /\ Stages' /\ Trailing' /\ Works'
      /\ SignsInSafely' /\ CountHolds' /\ WritesLand'
  BY <1>3, TakeKeeps
<1>5. Modes'
  BY DEF Modes
<1>6. \A p \in DOMAIN wire' : wire'[p].k # "continue"
  BY <1>1, <1>2, TakesSays
<1>7. Literals'
  BY <1>6, TakeLiterals
<1>8. ASSUME NEW tag \in Nat, Tagged(tag) PROVE Tagged(tag)'
  <2>1. x.tag = tag
    BY <1>1, <1>8, TakesSays
  <2>2. \A i \in DOMAIN out' : out'[i].tag = tag
    BY <1>8, OutSays DEF Takes, Tagged
  <2>3. \A p \in DOMAIN wire' : wire'[p].k = "done" => wire'[p].tag = tag
    BY <1>2, <1>8, <2>1 DEF Tagged
  <2> QED
    BY <2>2, <2>3, NoCurSays DEF Tagged
<1>9. Tags'
  <2>1. Idle => \E tag \in Nat : Tagged(tag)'
    BY <1>8 DEF IInv, Tags
  <2>2. ~Idle /\ cur.cmd.op # "check" => Tagged(cur.cmd.tag)'
    BY <1>8, AskedSays DEF IInv, Tags
  <2> QED
    BY <2>1, <2>2 DEF Tags, Idle
<1>10. OwnLast'
  <2> SUFFICES ASSUME ~Idle PROVE OwnLast'
    BY DEF OwnLast, Idle
  <2>0. cur.cmd.tag # 0
    BY AskedSays
  <2>1. \A p \in DOMAIN wire' : Tells(wire'[p], cur.cmd.tag) =>
           /\ out' = <<>>
           /\ \A q \in DOMAIN wire' : q > p => wire'[q].k \notin {"done", "expunge"}
    <3> SUFFICES ASSUME NEW p \in DOMAIN wire', Tells(wire'[p], cur.cmd.tag)
                 PROVE  /\ out' = <<>>
                        /\ \A q \in DOMAIN wire' : q > p => wire'[q].k \notin {"done", "expunge"}
      OBVIOUS
    <3>1. p = n
      BY <1>2, TakesSays
    <3>2. c.tag = cur.cmd.tag
      BY <1>1, <1>2, <3>1 DEF Tells
    <3>3. \A q \in DOMAIN wire' : ~(q > p)
      BY <1>2, <3>1
    <3> QED
      BY <3>2, <3>3, TakesSays
  <2>2. \A i \in DOMAIN out' : out'[i].tag = cur.cmd.tag /\ out'[i].op # "literal" =>
           /\ out'[i] = cur.cmd \/ (cur.cmd.op = "sign_in" /\ out'[i].op \in Ways)
           /\ \A j \in DOMAIN out' : j > i => j = i + 1 /\ out'[j].op = "literal"
    BY OwnTail DEF Takes
  <2> QED
    BY <2>0, <2>1, <2>2, NoCurSays DEF OwnLast
<1>11. Offered'
  <2>1. Answered(cur.cmd.tag) => Answered(cur.cmd.tag)'
    BY <1>2 DEF Answered
  <2>2. cl.state # "fresh"
    <3>1. CASE Idle
      BY <3>1, TakesSays
    <3>2. CASE ~Idle
      BY <3>2 DEF IInv, Stages
    <3> QED
      BY <3>1, <3>2
  <2>3. CASE srv'.offers = srv.offers
    BY <2>1, <2>2, <2>3 DEF IInv, Offered
  <2>4. CASE c.op \in Ways /\ status = "ok"
    <3>1. cur.cmd.op = "sign_in" => Answered(cur.cmd.tag)'
      <4> SUFFICES ASSUME cur.cmd.op = "sign_in" PROVE Answered(cur.cmd.tag)'
        OBVIOUS
      <4>1. ~Idle
        BY DEF Idle
      <4>2. c.tag = cur.cmd.tag
        BY <4>1, TakesSays DEF IInv, Tags
      <4>3. Tells(wire'[n], cur.cmd.tag) /\ wire'[n].status = "ok"
        BY <1>1, <1>2, <2>4, <4>2 DEF Tells
      <4> QED
        BY <1>2, <4>3 DEF Answered
    <3> QED
      BY <2>2, <3>1 DEF IInv, Offered
  <2> QED
    BY <2>3, <2>4
<1>12. Selected'
  <2> SUFFICES ASSUME turn.box # None PROVE Selected'
    BY DEF Selected
  <2>1. /\ srv.sel = turn.box /\ cl.count \in Nat /\ Counts(0) /\ (cl.writable => srv.rw)
        /\ cur.cmd.op \notin Opens
    BY DEF IInv, Selected
  <2>2. c.op \notin Opens
    BY <2>1, TakesOwn
  <2>3. Counts(0)'
    <3>1. wire' = Append(wire, x) /\ x.k \notin {"exists", "expunge"}
      BY <1>1 DEF x
    <3> QED
      BY <2>1, <2>2, <3>1, CountsMore DEF Counts
  <2> QED
    BY <2>1, <2>2, <2>3 DEF Selected
<1>13. Opened'
  <2> SUFFICES ASSUME cur.cmd.op \in Opens PROVE Opened'
    BY DEF Opened
  <2>1. ~Idle /\ cl.count \in Nat /\ cur.cmd.op # "sign_in"
    BY DEF IInv, Opened, Opens, Idle
  <2>2. srv'.busy.tag # cur.cmd.tag
    BY <2>1, AskedSays, NoCurSays
  <2>3. ASSUME NEW p \in DOMAIN wire', Tells(wire'[p], cur.cmd.tag), wire'[p].status = "ok"
        PROVE  FALSE
    <3>1. p = n
      BY <1>2, <2>1, <2>3, TakesSays
    <3>2. c.tag = cur.cmd.tag /\ c.op \in Ways
      BY <1>1, <1>2, <2>3, <3>1 DEF Tells
    <3>3. c = cur.cmd
      BY <2>1, <3>2, TakesSays
    <3> QED
      BY <3>2, <3>3 DEF Ways, Opens
  <2> QED
    BY <2>1, <2>2, <2>3 DEF Opened
<1> QED
  BY <1>4, <1>5, <1>7, <1>9, <1>10, <1>11, <1>12, <1>13 DEF IInv

\* Once the first thing written is read a literal still follows its opening.
LEMMA TrailingTail ==
    ASSUME IInv, out # <<>>, out' = Tail(out)
    PROVE  Trailing'
<1> SUFFICES ASSUME NEW i \in DOMAIN out', out'[i].op = "literal", i > 1
             PROVE  /\ out'[i - 1].op \in Appends /\ out'[i - 1].lit = "plus"
                    /\ out'[i - 1].tag = out'[i].tag
  BY DEF Trailing
<1>1. i + 1 \in DOMAIN out /\ out'[i] = out[i + 1] /\ i \in Nat \ {0} /\ DOMAIN out' = 1..(Len(out) - 1) /\ Len(out) \in Nat
  BY OutSays
<1>2. i - 1 \in DOMAIN out' /\ (i - 1) + 1 = i /\ (i + 1) - 1 = i /\ i + 1 > 1
  BY <1>1
<1>3. out'[i - 1] = out[i]
  BY <1>2, OutSays
<1>4. /\ out[(i + 1) - 1].op \in Appends /\ out[(i + 1) - 1].lit = "plus"
      /\ out[(i + 1) - 1].tag = out[i + 1].tag
  BY <1>1, <1>2 DEF IInv, Trailing
<1> QED
  BY <1>1, <1>2, <1>3, <1>4

\* The server asks for the literal of what it read.
LEMMA ContinueHolds ==
    ASSUME IInv, NEW c, Takes(c), srv.mode = "idle", out[1] = c, c.lit = "sync",
           out' = Tail(out), UNCHANGED <<cl, cur, turn>>,
           wire' = Append(wire, [k |-> "continue"]),
           srv' = [srv EXCEPT !.mode = "literal", !.held = c]
    PROVE  IInv'
<1> DEFINE x == [k |-> "continue"]
           n == Len(wire) + 1
<1>1. x.k = "continue"
  OBVIOUS
<1> HIDE DEF x
<1>2. /\ IsSeq(wire') /\ DOMAIN wire' = 1..n /\ n \in Nat /\ wire'[n] = x
      /\ \A p \in DOMAIN wire : wire'[p] = wire[p] /\ p \in DOMAIN wire'
      /\ \A p \in DOMAIN wire' : p # n => p \in DOMAIN wire
      /\ \A p \in DOMAIN wire' : wire'[p].k = "exists" => wire'[p].n \in Nat
      /\ n \in DOMAIN wire'
  <2>1. wire' = Append(wire, x)
    BY DEF x
  <2>2. Len(wire) \in Nat /\ DOMAIN wire = 1..Len(wire)
    BY <2>1, LineMore
  <2> QED
    BY <1>1, <2>1, <2>2, LineMore
<1>3. /\ IsServer(srv') /\ srv'.mode = "literal" /\ srv'.held = c /\ srv'.busy = NoCmd
      /\ srv'.mail = srv.mail /\ srv'.sel = srv.sel /\ srv'.rw = srv.rw /\ srv'.view = srv.view
      /\ srv'.tls = srv.tls /\ srv'.offers = srv.offers /\ srv'.torn = srv.torn
      /\ srv'.literals = srv.literals
  BY DEF IInv, Types, IsServer, Takes
<1>4. ServerTypes'
  BY <1>2, <1>3 DEF IInv, Types, ServerTypes
<1>5. /\ Types' /\ Leading' /\ Rest' /\ Stages' /\ Trailing' /\ Works'
      /\ SignsInSafely' /\ CountHolds' /\ WritesLand'
  BY <1>3, <1>4, TakeKeeps
<1>6. Modes'
  <2>1. c # NoCmd
    BY NoCurSays, TakesSays
  <2> QED
    BY <1>3, <2>1 DEF Modes, Apart
<1>7. \A p \in DOMAIN wire' : wire'[p].k = "continue" => p = n
  BY <1>1, <1>2, TakesSays
<1>8. \A i \in DOMAIN out' : out'[i].op = "check"
  BY TakesSays
<1>9. Literals'
  <2>1. ~srv.torn => Tail(out) = <<>> /\ cur.wait = 1 /\ cur.cmd = c
    <3> SUFFICES ASSUME ~srv.torn PROVE Tail(out) = <<>> /\ cur.wait = 1 /\ cur.cmd = c
      OBVIOUS
    <3>1. out # <<>> /\ 1 \in DOMAIN out
      BY OutSays DEF Takes
    <3>2. 1 = Len(out) /\ cur.wait = 1 /\ cur.cmd = out[1]
      BY <3>1 DEF IInv, Literals
    <3> QED
      BY <3>1, <3>2, OutSays
  <2>2. cur.wait = 1 => cur.cmd.lit # "plus" /\ Apart(cur.cmd)
    BY TakesSays DEF IInv, Literals
  <2>3. ~srv'.torn => out' = <<>> /\ DOMAIN out' = {} /\ cur'.wait = 1 /\ cur'.cmd = srv'.held
    BY <1>3, <2>1, SeqEmpty
  <2>4. \A p \in DOMAIN wire' : wire'[p].k = "continue" =>
         /\ srv'.mode = "literal" /\ srv'.held.lit = "sync"
         /\ \A i \in DOMAIN out' : out'[i].op # "literal"
         /\ \A q \in DOMAIN wire' : wire'[q].k = "continue" => q = p
    BY <1>3, <1>7, <1>8
  <2> QED
    BY <1>3, <2>2, <2>3, <2>4 DEF Literals
<1>10. ASSUME NEW tag \in Nat, Tagged(tag) PROVE Tagged(tag)'
  <2>1. c.tag = tag
    BY <1>10, TakesSays
  <2>2. \A i \in DOMAIN out' : out'[i].tag = tag
    BY <1>10, OutSays DEF Takes, Tagged
  <2>3. \A p \in DOMAIN wire' : wire'[p].k = "done" => wire'[p].tag = tag
    BY <1>1, <1>2, <1>10 DEF Tagged
  <2> QED
    BY <1>3, <2>1, <2>2, <2>3, NoCurSays DEF Tagged
<1>11. Tags'
  <2>1. Idle => \E tag \in Nat : Tagged(tag)'
    BY <1>10 DEF IInv, Tags
  <2>2. ~Idle /\ cur.cmd.op # "check" => Tagged(cur.cmd.tag)'
    BY <1>10, AskedSays DEF IInv, Tags
  <2> QED
    BY <2>1, <2>2 DEF Tags, Idle
<1>12. ~Idle => \A p \in DOMAIN wire' : ~Tells(wire'[p], cur.cmd.tag)
  BY <1>1, <1>2, TakesSays DEF Tells
<1>13. OwnLast'
  <2> SUFFICES ASSUME ~Idle PROVE OwnLast'
    BY DEF OwnLast, Idle
  <2>0. cur.cmd.tag # 0
    BY AskedSays
  <2>1. c.tag = cur.cmd.tag => c = cur.cmd /\ out' = <<>> /\ DOMAIN out' = {}
    <3>1. c.op \notin Ways
      BY DEF Takes, Sound, Ways, Appends
    <3> QED
      BY <3>1, TakesSays, SeqEmpty
  <2>2. \A i \in DOMAIN out' : out'[i].tag = cur.cmd.tag /\ out'[i].op # "literal" =>
           /\ out'[i] = cur.cmd \/ (cur.cmd.op = "sign_in" /\ out'[i].op \in Ways)
           /\ \A j \in DOMAIN out' : j > i => j = i + 1 /\ out'[j].op = "literal"
    BY OwnTail DEF Takes
  <2> QED
    BY <1>3, <1>12, <2>0, <2>1, <2>2, NoCurSays DEF OwnLast
<1>14. Offered'
  <2>1. Answered(cur.cmd.tag) => Answered(cur.cmd.tag)'
    BY <1>2 DEF Answered
  <2> QED
    BY <1>3, <2>1 DEF IInv, Offered
<1>15. Selected'
  <2> SUFFICES ASSUME turn.box # None PROVE Selected'
    BY DEF Selected
  <2>1. /\ srv.sel = turn.box /\ cl.count \in Nat /\ Counts(0) /\ (cl.writable => srv.rw)
        /\ cur.cmd.op \notin Opens
    BY DEF IInv, Selected
  <2>2. Counts(0)'
    <3>1. wire' = Append(wire, x) /\ x.k \notin {"exists", "expunge"}
      BY <1>1 DEF x
    <3> QED
      BY <1>3, <2>1, <3>1, CountsMore DEF Counts
  <2> QED
    BY <1>3, <2>1, <2>2 DEF Selected
<1>16. Opened'
  <2> SUFFICES ASSUME cur.cmd.op \in Opens PROVE Opened'
    BY DEF Opened
  <2>1. ~Idle /\ cl.count \in Nat
    BY DEF IInv, Opened, Opens, Idle
  <2>2. srv'.busy.tag # cur.cmd.tag
    BY <1>3, <2>1, AskedSays, NoCurSays
  <2> QED
    BY <1>12, <2>1, <2>2 DEF Opened
<1> QED
  BY <1>5, <1>6, <1>9, <1>11, <1>13, <1>14, <1>15, <1>16 DEF IInv

\* The server has the opening of an append whose literal is on its way.
LEMMA OpeningHolds ==
    ASSUME IInv, out # <<>>, srv.busy = NoCmd, srv.mode = "idle", out[1].lit = "plus",
           out[1].op \in Appends, out' = Tail(out), UNCHANGED <<wire, cl, cur, turn>>,
           srv' = [srv EXCEPT !.mode = "literal", !.held = out[1]]
    PROVE  IInv'
<1> DEFINE c == out[1]
<1>1. 1 \in DOMAIN out /\ Sound(c, srv.literals) /\ c.tag \in Nat \ {0} /\ Apart(c) /\ c # NoCmd
  <2>1. 1 \in DOMAIN out
    BY OutSays
  <2>2. Sound(c, srv.literals)
    BY <2>1 DEF IInv, Types
  <2> QED
    BY <2>1, <2>2, NoCurSays DEF Sound, Apart
<1> HIDE DEF c
<1>2. \A i \in DOMAIN out' : /\ out'[i].op \in {"literal", "check"} /\ out'[i].lit = "none"
                             /\ Sound(out'[i], srv.literals)
  <2>1. \A i \in DOMAIN out' : i + 1 \in DOMAIN out /\ out'[i] = out[i + 1] /\ i + 1 # 1
    BY OutSays
  <2>2. \A i \in DOMAIN out : i # 1 => out[i].op \in {"literal", "check"}
    BY DEF IInv, Leading
  <2>3. \A i \in DOMAIN out : Sound(out[i], srv.literals)
    BY DEF IInv, Types
  <2>4. \A i \in DOMAIN out' : out'[i].op \in {"literal", "check"} /\ Sound(out'[i], srv.literals)
    BY <2>1, <2>2, <2>3
  <2> QED
    BY <2>4 DEF Sound, Appends
<1>3. /\ IsServer(srv') /\ srv'.mode = "literal" /\ srv'.held = c /\ srv'.busy = NoCmd
      /\ srv'.mail = srv.mail /\ srv'.sel = srv.sel /\ srv'.rw = srv.rw /\ srv'.view = srv.view
      /\ srv'.tls = srv.tls /\ srv'.offers = srv.offers /\ srv'.torn = srv.torn
      /\ srv'.literals = srv.literals
  BY DEF IInv, Types, IsServer, c
<1>4. ~Idle => \A p \in DOMAIN wire : ~Tells(wire[p], cur.cmd.tag)
  BY DEF IInv, OwnLast
<1>5. Types'
  BY <1>1, <1>2, <1>3, OutSays DEF IInv, Types, Idle
<1>6. Modes' /\ Leading' /\ SignsInSafely' /\ CountHolds' /\ WritesLand'
  BY <1>1, <1>2, <1>3 DEF Modes, Leading, SignsInSafely, CountHolds, WritesLand, Ways, Walks, Writes, Transfers
<1>7. ASSUME NEW tag \in Nat, Tagged(tag) PROVE Tagged(tag)'
  <2>1. \A i \in DOMAIN out' : out'[i].tag = tag
    BY <1>7, OutSays DEF Tagged
  <2>2. c.tag = tag
    BY <1>1, <1>7 DEF Tagged, c
  <2> QED
    BY <1>3, <1>7, <2>1, <2>2, NoCurSays DEF Tagged
<1>8. Tags'
  <2>1. Idle => \E tag \in Nat : Tagged(tag)'
    BY <1>7 DEF IInv, Tags
  <2>2. ~Idle /\ cur.cmd.op # "check" => Tagged(cur.cmd.tag)'
    BY <1>7, AskedSays DEF IInv, Tags
  <2> QED
    BY <2>1, <2>2 DEF Tags, Idle
<1>9. Rest' /\ Stages' /\ Works'
  <2>1. Rest'
    BY DEF IInv, Rest, Quiet, Idle
  <2>2. Stages' /\ Works'
    BY DEF IInv, Stages, Works, Idle
  <2> QED
    BY <2>1, <2>2
<1>10. c.tag = cur.cmd.tag /\ ~Idle =>
         c = cur.cmd /\ \A i \in DOMAIN out' : i = 1 /\ out'[i].op = "literal"
  <2> SUFFICES ASSUME c.tag = cur.cmd.tag, ~Idle
               PROVE  c = cur.cmd /\ \A i \in DOMAIN out' : i = 1 /\ out'[i].op = "literal"
    OBVIOUS
  <2>1. /\ out[1] = cur.cmd \/ (cur.cmd.op = "sign_in" /\ out[1].op \in Ways)
        /\ \A j \in DOMAIN out : j > 1 => j = 1 + 1 /\ out[j].op = "literal"
    BY <1>1 DEF IInv, OwnLast, c, Appends
  <2>2. c = cur.cmd
    BY <2>1 DEF c, Appends, Ways
  <2>3. ASSUME NEW i \in DOMAIN out' PROVE i = 1 /\ out'[i].op = "literal"
    <3>1. i + 1 \in DOMAIN out /\ out'[i] = out[i + 1] /\ i \in Nat \ {0}
      BY OutSays
    <3>2. i + 1 > 1
      BY <3>1
    <3>3. i + 1 = 1 + 1 /\ out[i + 1].op = "literal"
      BY <2>1, <3>1, <3>2
    <3> QED
      BY <3>1, <3>3
  <2> QED
    BY <2>2, <2>3
<1>11. OwnLast'
  <2> SUFFICES ASSUME ~Idle PROVE OwnLast'
    BY DEF OwnLast, Idle
  <2>0. cur.cmd.tag # 0
    BY AskedSays
  <2>1. \A i \in DOMAIN out' : out'[i].tag = cur.cmd.tag /\ out'[i].op # "literal" =>
           /\ out'[i] = cur.cmd \/ (cur.cmd.op = "sign_in" /\ out'[i].op \in Ways)
           /\ \A j \in DOMAIN out' : j > i => j = i + 1 /\ out'[j].op = "literal"
    BY OwnTail
  <2> QED
    BY <1>3, <1>4, <1>10, <2>0, <2>1, NoCurSays DEF OwnLast
<1>12. Offered' /\ Selected' /\ Opened'
  <2>1. Offered'
    BY <1>3 DEF IInv, Offered, Answered
  <2>2. Selected'
    BY <1>3 DEF IInv, Selected, Counts
  <2>3. Opened'
    <3> SUFFICES ASSUME cur.cmd.op \in Opens PROVE Opened'
      BY DEF Opened
    <3>1. ~Idle /\ cl.count \in Nat
      BY DEF IInv, Opened, Opens, Idle
    <3>2. srv'.busy.tag # cur.cmd.tag
      BY <1>3, <3>1, AskedSays, NoCurSays
    <3> QED
      BY <1>4, <3>1, <3>2 DEF Opened
  <2> QED
    BY <2>1, <2>2, <2>3
<1>13. Trailing'
  BY TrailingTail
<1>14. Literals'
  <2>1. \A p \in DOMAIN wire : wire[p].k # "continue"
    BY DEF IInv, Literals
  <2>2. cur.wait = 1 /\ cur.cmd.lit = "plus" => out' = <<>> /\ c = cur.cmd
    <3> SUFFICES ASSUME cur.wait = 1, cur.cmd.lit = "plus" PROVE out' = <<>> /\ c = cur.cmd
      OBVIOUS
    <3>1. Len(out) = 1 /\ out[1] = cur.cmd
      BY DEF IInv, Literals
    <3> QED
      BY <3>1, OutSays DEF c
  <2>3. ~srv.torn => \/ out' # <<>> /\ out'[1].op = "literal"
                     \/ out' = <<>> /\ cur.wait = 1 /\ cur.cmd = c
    <3> SUFFICES ASSUME ~srv.torn
                 PROVE  \/ out' # <<>> /\ out'[1].op = "literal"
                        \/ out' = <<>> /\ cur.wait = 1 /\ cur.cmd = c
      OBVIOUS
    <3>1. \/ 1 + 1 \in DOMAIN out /\ out[1 + 1].op = "literal"
          \/ 1 = Len(out) /\ cur.wait = 1 /\ cur.cmd = out[1]
      BY <1>1 DEF IInv, Literals, c
    <3>2. CASE 1 + 1 \in DOMAIN out /\ out[1 + 1].op = "literal"
      <4>1. (1 + 1) - 1 \in DOMAIN Tail(out) /\ Tail(out)[(1 + 1) - 1] = out[1 + 1]
        BY <3>2, OutSays
      <4>2. 1 \in DOMAIN out' /\ out'[1].op = "literal"
        BY <3>2, <4>1
      <4> QED
        BY <4>2, SeqEmpty
    <3>3. CASE 1 = Len(out) /\ cur.wait = 1 /\ cur.cmd = out[1]
      BY <3>3, OutSays DEF c
    <3> QED
      BY <3>1, <3>2, <3>3
  <2>4. cur.wait = 1 => Apart(cur.cmd)
    BY DEF IInv, Literals
  <2> QED
    BY <1>2, <1>3, <2>1, <2>2, <2>3, <2>4 DEF Literals
<1> QED
  BY <1>5, <1>6, <1>8, <1>9, <1>11, <1>12, <1>13, <1>14 DEF IInv

\* Bytes that fill a literal nobody finishes, or that find none to fill.
LEMMA DropsHolds ==
    ASSUME IInv, out # <<>>, srv.busy = NoCmd,
           (out[1].op = "literal") # (srv.mode = "literal"),
           out' = Tail(out), UNCHANGED <<srv, wire, cl, cur, turn>>
    PROVE  IInv'
<1>1. 1 \in DOMAIN out /\ \A i \in DOMAIN out' : i + 1 \in DOMAIN out /\ out'[i] = out[i + 1] /\ i + 1 # 1
  BY OutSays
<1>2. srv.torn
  <2>1. CASE out[1].op = "literal"
    BY <2>1 DEF IInv, Literals
  <2>2. CASE out[1].op # "literal"
    BY <2>2 DEF IInv, Literals
  <2> QED
    BY <2>1, <2>2
<1>3. out[1].op \in {"literal", "check"}
  BY <1>1 DEF IInv, Leading
<1>4. ~Idle => /\ \A p \in DOMAIN wire : ~Tells(wire[p], cur.cmd.tag)
               /\ srv.held.tag # cur.cmd.tag
  <2> SUFFICES ASSUME ~Idle PROVE /\ \A p \in DOMAIN wire : ~Tells(wire[p], cur.cmd.tag)
                                  /\ srv.held.tag # cur.cmd.tag
    OBVIOUS
  <2>1. \A p \in DOMAIN wire : ~Tells(wire[p], cur.cmd.tag)
    BY DEF IInv, OwnLast
  <2>2. ASSUME srv.held.tag = cur.cmd.tag PROVE FALSE
    <3>1. out[1].op = "literal"
      BY <1>1, <2>2 DEF IInv, OwnLast
    <3>2. srv.held = NoCmd
      BY <3>1 DEF IInv, Modes
    <3> QED
      BY <2>2, <3>2, AskedSays, NoCurSays
  <2> QED
    BY <2>1, <2>2
<1>5. Types'
  <2>1. \A i \in DOMAIN out : Sound(out[i], srv.literals)
    BY DEF IInv, Types
  <2>2. IsSeq(out') /\ \A i \in DOMAIN out' : Sound(out'[i], srv.literals)
    BY <1>1, <2>1, OutSays
  <2> QED
    BY <2>2 DEF IInv, Types, Idle
<1>6. \A i \in DOMAIN out' : out'[i].op \in {"literal", "check"} /\ out'[i].lit = "none"
  <2>1. \A i \in DOMAIN out : i # 1 => out[i].op \in {"literal", "check"}
    BY DEF IInv, Leading
  <2>2. \A i \in DOMAIN out' : out'[i].op \in {"literal", "check"} /\ Sound(out'[i], srv.literals)
    BY <1>1, <1>5, <2>1 DEF Types
  <2> QED
    BY <2>2 DEF Sound, Appends
<1>7. Modes' /\ Leading' /\ SignsInSafely' /\ CountHolds' /\ WritesLand'
  BY <1>6 DEF IInv, Modes, Leading, SignsInSafely, CountHolds, WritesLand, Ways, Walks, Writes, Transfers
<1>8. Tags'
  <2>1. ASSUME NEW tag \in Nat, Tagged(tag) PROVE Tagged(tag)'
    BY <1>1, <2>1 DEF Tagged
  <2>2. Idle => \E tag \in Nat : Tagged(tag)'
    BY <2>1 DEF IInv, Tags
  <2>3. ~Idle /\ cur.cmd.op # "check" => Tagged(cur.cmd.tag)'
    BY <2>1, AskedSays DEF IInv, Tags
  <2> QED
    BY <2>2, <2>3 DEF Tags, Idle
<1>9. Rest' /\ Stages' /\ Works'
  <2>1. Rest'
    BY DEF IInv, Rest, Quiet, Idle
  <2>2. Stages' /\ Works'
    BY DEF IInv, Stages, Works, Idle
  <2> QED
    BY <2>1, <2>2
<1>10. OwnLast'
  <2> SUFFICES ASSUME ~Idle PROVE OwnLast'
    BY DEF OwnLast, Idle
  <2>1. \A i \in DOMAIN out' : out'[i].tag = cur.cmd.tag /\ out'[i].op # "literal" =>
           /\ out'[i] = cur.cmd \/ (cur.cmd.op = "sign_in" /\ out'[i].op \in Ways)
           /\ \A j \in DOMAIN out' : j > i => j = i + 1 /\ out'[j].op = "literal"
    BY OwnTail
  <2>2. srv.busy.tag # cur.cmd.tag
    BY AskedSays, NoCurSays
  <2> QED
    BY <1>4, <2>1, <2>2 DEF OwnLast
<1>11. Offered' /\ Selected' /\ Opened'
  <2>1. Offered'
    BY DEF IInv, Offered, Answered
  <2>2. Selected'
    BY DEF IInv, Selected, Counts
  <2>3. Opened'
    BY DEF IInv, Opened, Counts
  <2> QED
    BY <2>1, <2>2, <2>3
<1>12. Trailing'
  BY TrailingTail
<1>13. Literals'
  <2>1. \A p \in DOMAIN wire : wire[p].k = "continue" =>
         /\ srv.mode = "literal" /\ srv.held.lit = "sync"
         /\ \A i \in DOMAIN out' : out'[i].op # "literal"
         /\ \A q \in DOMAIN wire : wire[q].k = "continue" => q = p
    BY <1>1 DEF IInv, Literals
  <2>2. ~(cur.wait = 1 /\ cur.cmd.lit = "plus")
    <3> SUFFICES ASSUME cur.wait = 1, cur.cmd.lit = "plus" PROVE FALSE
      OBVIOUS
    <3>1. out[1] = cur.cmd /\ cur.cmd.op \in Appends
      BY DEF IInv, Literals, Apart
    <3> QED
      BY <1>3, <3>1 DEF Appends
  <2>3. cur.wait = 1 => Apart(cur.cmd)
    BY DEF IInv, Literals
  <2> QED
    BY <1>2, <2>1, <2>2, <2>3 DEF Literals
<1> QED
  BY <1>5, <1>7, <1>8, <1>9, <1>10, <1>11, <1>12, <1>13 DEF IInv

\* A line behind the others, alone or behind more.
LEMMA ConcatOne ==
    ASSUME NEW w, IsSeq(w), NEW x
    PROVE  w \o <<x>> = Append(w, x)
<1> DEFINE S == SeqSet(w) \cup {x}
<1>1. w \in Seq(S) /\ x \in S
  BY DEF IsSeq
<1> HIDE DEF S
<1> QED
  BY <1>1, AppendIsConcat

\* Two lines behind the others.
LEMMA ConcatTwo ==
    ASSUME NEW w, IsSeq(w), NEW x, NEW y
    PROVE  w \o <<x, y>> = Append(Append(w, x), y)
<1> DEFINE S == SeqSet(w) \cup {x, y}
<1>1. w \in Seq(S) /\ <<x>> \in Seq(S) /\ <<y>> \in Seq(S)
  BY DEF IsSeq
<1>2. <<x, y>> = <<x>> \o <<y>>
  <2> DEFINE T == {x, y}
             l == <<x, y>>
             r == <<x>> \o <<y>>
  <2>1. l \in Seq(T) /\ Len(l) = 2 /\ l[1] = x /\ l[2] = y
    OBVIOUS
  <2>2. <<x>> \in Seq(T) /\ <<y>> \in Seq(T)
    OBVIOUS
  <2>3. r \in Seq(T) /\ Len(r) = 2 /\ r[1] = x /\ r[2] = y
    BY <2>2
  <2> HIDE DEF T, l, r
  <2>4. \A i \in 1..Len(l) : l[i] = r[i]
    BY <2>1, <2>3
  <2>5. l = r
    BY <2>1, <2>3, <2>4, SeqEqual
  <2> QED
    BY <2>5 DEF l, r
<1>3. (w \o <<x>>) \o <<y>> = w \o (<<x>> \o <<y>>)
  <2> HIDE DEF S
  <2> QED
    BY <1>1, ConcatAssociative
<1>4. w \o <<x>> = Append(w, x) /\ IsSeq(Append(w, x))
  BY ConcatOne, SeqAppend
<1>5. Append(w, x) \o <<y>> = Append(Append(w, x), y)
  BY <1>4, ConcatOne
<1> QED
  BY <1>2, <1>3, <1>4, <1>5

\* Three.
LEMMA ConcatThree ==
    ASSUME NEW w, IsSeq(w), NEW x, NEW y, NEW z
    PROVE  w \o <<x, y, z>> = Append(Append(Append(w, x), y), z)
<1> DEFINE S == SeqSet(w) \cup {x, y, z}
<1>1. w \in Seq(S) /\ <<x, y>> \in Seq(S) /\ <<z>> \in Seq(S)
  BY DEF IsSeq
<1>2. <<x, y, z>> = <<x, y>> \o <<z>>
  OBVIOUS
<1>3. (w \o <<x, y>>) \o <<z>> = w \o (<<x, y>> \o <<z>>)
  <2> HIDE DEF S
  <2> QED
    BY <1>1, ConcatAssociative
<1> DEFINE v == Append(Append(w, x), y)
<1>4. w \o <<x, y>> = v /\ IsSeq(v)
  <2>1. IsSeq(Append(w, x))
    BY SeqAppend
  <2> QED
    BY <2>1, ConcatTwo, SeqAppend
<1> HIDE DEF v
<1>5. v \o <<z>> = Append(v, z)
  BY <1>4, ConcatOne
<1>6. w \o <<x, y, z>> = Append(v, z)
  BY <1>2, <1>3, <1>4, <1>5
<1> QED
  BY <1>6 DEF v

\* What the server and its lines come to once it has done the command c.
Result(c, s, lines) ==
    /\ IsServer(s) /\ s.tls = srv.tls /\ s.offers = srv.offers /\ s.torn = srv.torn
    /\ s.literals = srv.literals
    /\ s.mail = [b \in Boxes |-> s.mail[b]] /\ \A b \in Boxes : IsSeq(s.mail[b])
    /\ s.sel \in Boxes \cup {None} /\ IsSeq(s.view) /\ IsSeq(lines)
    /\ \A i \in DOMAIN lines : /\ lines[i].k \notin {"done", "continue"}
                               /\ lines[i].k = "exists" => lines[i].n \in Nat
    /\ c.op \in Opens => s.sel = c.box /\ lines = <<Exists(Len(s.view))>>
    /\ c.op \notin Opens =>
         /\ s.sel = srv.sel /\ s.rw = srv.rw
         /\ \A count \in Nat : Bounded(count, wire, Len(srv.view), 0) =>
                               Bounded(count, wire \o lines, Len(s.view), 0)

\* The lines behind those unread.
LEMMA LinesMore ==
    ASSUME IInv, NEW lines, IsSeq(lines), wire' = wire \o lines,
           \A i \in DOMAIN lines : /\ lines[i].k \notin {"done", "continue"}
                                   /\ lines[i].k = "exists" => lines[i].n \in Nat
    PROVE  /\ IsSeq(wire') /\ \A p \in DOMAIN wire' : wire'[p].k = "exists" => wire'[p].n \in Nat
           /\ \A p \in DOMAIN wire : p \in DOMAIN wire' /\ wire'[p] = wire[p]
           /\ \A p \in DOMAIN wire' : \/ p \in DOMAIN wire /\ wire'[p] = wire[p]
                                      \/ wire'[p].k \notin {"done", "continue"}
<1>1. /\ IsSeq(wire) /\ DOMAIN wire = 1..Len(wire) /\ Len(wire) \in Nat
      /\ DOMAIN lines = 1..Len(lines) /\ Len(lines) \in Nat
      /\ \A i \in DOMAIN wire : wire[i].k = "exists" => wire[i].n \in Nat
  BY SeqBasics DEF IInv, Types
<1>2. /\ IsSeq(wire') /\ DOMAIN wire' = 1..(Len(wire) + Len(lines))
      /\ \A i \in 1..Len(wire) : wire'[i] = wire[i]
      /\ \A i \in 1..(Len(wire) + Len(lines)) : i > Len(wire) => wire'[i] = lines[i - Len(wire)]
  BY <1>1, SeqConcat
<1>3. ASSUME NEW p \in DOMAIN wire'
      PROVE  \/ p \in DOMAIN wire /\ wire'[p] = wire[p]
             \/ /\ wire'[p].k \notin {"done", "continue"}
                /\ wire'[p].k = "exists" => wire'[p].n \in Nat
  <2>1. CASE p \in DOMAIN wire
    BY <1>1, <1>2, <2>1
  <2>2. CASE p \notin DOMAIN wire
    <3>1. p > Len(wire) /\ p - Len(wire) \in DOMAIN lines
      BY <1>1, <1>2, <2>2
    <3>2. wire'[p] = lines[p - Len(wire)]
      BY <1>2, <3>1
    <3> QED
      BY <3>1, <3>2
  <2> QED
    BY <2>1, <2>2
<1>4. \A p \in DOMAIN wire : p \in DOMAIN wire' /\ wire'[p] = wire[p]
  BY <1>1, <1>2
<1> QED
  BY <1>1, <1>2, <1>3, <1>4

\* A command done keeps the invariant.
LEMMA PerformedHolds ==
    ASSUME IInv, NEW c, Takes(c), c.op \notin Ways, out' = Tail(out), UNCHANGED <<cl, cur, turn>>,
           NEW s, NEW lines, Result(c, s, lines), Effect(c, s, lines)
    PROVE  IInv'
<1>1. /\ IsServer(srv') /\ srv'.mail = s.mail /\ srv'.sel = s.sel /\ srv'.rw = s.rw
      /\ srv'.view = s.view /\ srv'.mode = "idle" /\ srv'.held = NoCmd /\ srv'.busy = c
      /\ srv'.tls = srv.tls /\ srv'.offers = srv.offers /\ srv'.torn = srv.torn
      /\ srv'.literals = srv.literals
  BY DEF Effect, Result, IsServer
<1>2. wire' = wire \o lines
  BY DEF Effect
<1>3. /\ IsSeq(wire') /\ \A p \in DOMAIN wire' : wire'[p].k = "exists" => wire'[p].n \in Nat
      /\ \A p \in DOMAIN wire : p \in DOMAIN wire' /\ wire'[p] = wire[p]
      /\ \A p \in DOMAIN wire' : \/ p \in DOMAIN wire /\ wire'[p] = wire[p]
                                 \/ wire'[p].k \notin {"done", "continue"}
  BY <1>2, LinesMore DEF Result
<1>4. ServerTypes'
  BY <1>1, <1>3 DEF Result, ServerTypes
<1>5. /\ Types' /\ Leading' /\ Rest' /\ Stages' /\ Trailing' /\ Works'
      /\ SignsInSafely' /\ CountHolds' /\ WritesLand'
  BY <1>1, <1>4, TakeKeeps
<1>6. Modes'
  BY <1>1 DEF Modes
<1>7. \A p \in DOMAIN wire' : wire'[p].k # "continue"
  BY <1>3, TakesSays
<1>8. Literals'
  BY <1>1, <1>7, TakeLiterals
<1>9. ASSUME NEW tag \in Nat, Tagged(tag) PROVE Tagged(tag)'
  <2>1. c.tag = tag
    BY <1>9, TakesSays
  <2>2. \A i \in DOMAIN out' : out'[i].tag = tag
    BY <1>9, OutSays DEF Takes, Tagged
  <2>3. \A p \in DOMAIN wire' : wire'[p].k = "done" => wire'[p].tag = tag
    BY <1>3, <1>9 DEF Tagged
  <2> QED
    BY <1>1, <2>1, <2>2, <2>3, NoCurSays DEF Tagged
<1>10. Tags'
  <2>1. Idle => \E tag \in Nat : Tagged(tag)'
    BY <1>9 DEF IInv, Tags
  <2>2. ~Idle /\ cur.cmd.op # "check" => Tagged(cur.cmd.tag)'
    BY <1>9, AskedSays DEF IInv, Tags
  <2> QED
    BY <2>1, <2>2 DEF Tags, Idle
<1>11. ~Idle => \A p \in DOMAIN wire' : ~Tells(wire'[p], cur.cmd.tag)
  BY <1>3, TakesSays DEF Tells
<1>12. OwnLast'
  <2> SUFFICES ASSUME ~Idle PROVE OwnLast'
    BY DEF OwnLast, Idle
  <2>0. cur.cmd.tag # 0
    BY AskedSays
  <2>1. c.tag = cur.cmd.tag => c = cur.cmd /\ out' = <<>>
    BY TakesSays
  <2>2. \A i \in DOMAIN out' : out'[i].tag = cur.cmd.tag /\ out'[i].op # "literal" =>
           /\ out'[i] = cur.cmd \/ (cur.cmd.op = "sign_in" /\ out'[i].op \in Ways)
           /\ \A j \in DOMAIN out' : j > i => j = i + 1 /\ out'[j].op = "literal"
    BY OwnTail DEF Takes
  <2> QED
    BY <1>1, <1>11, <2>0, <2>1, <2>2, NoCurSays DEF OwnLast
<1>13. Offered'
  <2>1. Answered(cur.cmd.tag) => Answered(cur.cmd.tag)'
    BY <1>3 DEF Answered
  <2> QED
    BY <1>1, <2>1 DEF IInv, Offered
<1>14. Selected'
  <2> SUFFICES ASSUME turn.box # None PROVE Selected'
    BY DEF Selected
  <2>1. /\ srv.sel = turn.box /\ cl.count \in Nat /\ Counts(0) /\ (cl.writable => srv.rw)
        /\ cur.cmd.op \notin Opens
    BY DEF IInv, Selected
  <2>2. c.op \notin Opens
    BY <2>1, TakesOwn
  <2>3. Bounded(cl.count, wire \o lines, Len(s.view), 0) /\ s.sel = srv.sel /\ s.rw = srv.rw
    BY <2>1, <2>2 DEF Result, Counts
  <2>4. Counts(0)'
    BY <1>1, <1>2, <2>3 DEF Counts
  <2> QED
    BY <1>1, <2>1, <2>3, <2>4 DEF Selected
<1>15. Opened'
  <2> SUFFICES ASSUME cur.cmd.op \in Opens PROVE Opened'
    BY DEF Opened
  <2>1. ~Idle /\ cl.count \in Nat
    BY DEF IInv, Opened, Opens, Idle
  <2>2. ASSUME c.tag = cur.cmd.tag
        PROVE  srv'.sel = cur.cmd.box /\ Bounded(cl.count, wire', Len(srv'.view), Len(wire'))
    <3>1. c = cur.cmd
      BY <2>1, <2>2, TakesSays
    <3>2. s.sel = c.box /\ lines = <<Exists(Len(s.view))>>
      BY <3>1 DEF Result
    <3> DEFINE x == Exists(Len(s.view))
               n == Len(s.view)
    <3>3. x.k = "exists" /\ x.n = n /\ n \in Nat
      BY SeqBasics DEF Exists, Result
    <3> HIDE DEF x, n
    <3>4. IsSeq(wire)
      BY DEF IInv, Types
    <3>5. wire' = Append(wire, x) /\ Len(wire') = Len(wire) + 1
      BY <1>2, <3>2, <3>4, ConcatOne, SeqAppend DEF x
    <3>6. Bounded(cl.count, Append(wire, x), n, Len(wire) + 1)
      BY <3>3, <3>4, BoundedReset
    <3> QED
      BY <1>1, <3>1, <3>2, <3>5, <3>6 DEF n
  <2>3. srv'.busy.tag = cur.cmd.tag => srv'.sel = cur.cmd.box /\ Counts(Len(wire))'
    BY <1>1, <2>2 DEF Counts
  <2> QED
    BY <1>11, <2>1, <2>3 DEF Opened
<1> QED
  BY <1>5, <1>6, <1>8, <1>10, <1>12, <1>13, <1>14, <1>15 DEF IInv

\* The mailboxes with another content of one.
LEMMA MailSet ==
    ASSUME NEW mail, mail = [b \in Boxes |-> mail[b]], \A b \in Boxes : IsSeq(mail[b]),
           NEW box \in Boxes, NEW content, IsSeq(content)
    PROVE  LET m == [mail EXCEPT ![box] = content]
           IN m = [b \in Boxes |-> m[b]] /\ \A b \in Boxes : IsSeq(m[b])
<1> DEFINE m == [mail EXCEPT ![box] = content]
<1>1. m = [b \in Boxes |-> m[b]]
  OBVIOUS
<1>2. \A b \in Boxes : m[b] = IF b = box THEN content ELSE mail[b]
  OBVIOUS
<1> HIDE DEF m
<1>3. \A b \in Boxes : IsSeq(m[b])
  BY <1>2
<1> QED
  BY <1>1, <1>3 DEF m

\* Lines that tell nothing of the count, where the mailbox selected stays as it
\* was shown.
LEMMA SameResult ==
    ASSUME IInv, NEW c, c.op \notin Opens, NEW s, NEW lines, IsServer(s),
           s.tls = srv.tls, s.offers = srv.offers, s.torn = srv.torn,
           s.literals = srv.literals, s.sel = srv.sel, s.rw = srv.rw, s.view = srv.view,
           s.mail = [b \in Boxes |-> s.mail[b]], \A b \in Boxes : IsSeq(s.mail[b]),
           IsSeq(lines),
           \A i \in DOMAIN lines : lines[i].k \notin {"done", "continue", "exists", "expunge"}
    PROVE  Result(c, s, lines)
<1>1. IsSeq(wire) /\ IsSeq(srv.view) /\ Len(srv.view) \in Nat /\ srv.sel \in Boxes \cup {None}
  BY SeqBasics DEF IInv, Types
<1>2. \A i \in 1..Len(lines) : lines[i].k \notin {"expunge", "exists"}
  BY SeqBasics
<1>3. ASSUME NEW count \in Nat, Bounded(count, wire, Len(srv.view), 0)
      PROVE  Bounded(count, wire \o lines, Len(srv.view), 0)
  BY <1>1, <1>2, <1>3, BoundedConcat
<1> QED
  BY <1>1, <1>3 DEF Result

\* The same of the server as it is.
LEMMA StillResult ==
    ASSUME IInv, NEW c, c.op \notin Opens, NEW lines, IsSeq(lines),
           \A i \in DOMAIN lines : lines[i].k \notin {"done", "continue", "exists", "expunge"}
    PROVE  Result(c, srv, lines)
<1>1. /\ IsServer(srv) /\ srv.mail = [b \in Boxes |-> srv.mail[b]]
      /\ \A b \in Boxes : IsSeq(srv.mail[b])
  BY DEF IInv, Types
<1> QED
  BY <1>1, SameResult

\* One line, or two.
LEMMA SeqOne ==
    ASSUME NEW x
    PROVE  IsSeq(<<x>>) /\ DOMAIN <<x>> = {1} /\ <<x>>[1] = x /\ Len(<<x>>) = 1
<1>1. <<x>> \in Seq({x}) /\ Len(<<x>>) = 1 /\ <<x>>[1] = x
  OBVIOUS
<1>2. DOMAIN <<x>> = {1}
  BY <1>1
<1>3. SeqSet(<<x>>) = {x}
  BY <1>1, <1>2 DEF SeqSet
<1> QED
  BY <1>1, <1>2, <1>3 DEF IsSeq

\* What an open that the server does comes to.
LEMMA OpenResult ==
    ASSUME IInv, NEW c, c.op \in Opens, c.box \in Boxes, NEW rw
    PROVE  Result(c, [srv EXCEPT !.sel = c.box, !.rw = rw, !.owed = {}, !.view = srv.mail[c.box]],
                  <<Exists(Len(srv.mail[c.box]))>>)
<1> DEFINE s == [srv EXCEPT !.sel = c.box, !.rw = rw, !.owed = {}, !.view = srv.mail[c.box]]
           x == Exists(Len(srv.mail[c.box]))
<1>1. /\ IsServer(srv) /\ srv.mail = [b \in Boxes |-> srv.mail[b]]
      /\ \A b \in Boxes : IsSeq(srv.mail[b])
  BY DEF IInv, Types
<1>2. /\ IsServer(s) /\ s.tls = srv.tls /\ s.offers = srv.offers /\ s.torn = srv.torn
      /\ s.literals = srv.literals /\ s.mail = srv.mail /\ s.sel = c.box
      /\ s.view = srv.mail[c.box]
  <2> DEFINE box == c.box
             view == srv.mail[c.box]
  <2>0. IsServer(srv)
    BY <1>1
  <2> HIDE DEF box, view
  <2>1. s = [srv EXCEPT !.sel = box, !.rw = rw, !.owed = {}, !.view = view]
    BY DEF box, view
  <2> HIDE DEF s
  <2>2. /\ IsServer(s) /\ s.tls = srv.tls /\ s.offers = srv.offers /\ s.torn = srv.torn
        /\ s.literals = srv.literals /\ s.mail = srv.mail /\ s.sel = box /\ s.view = view
    BY <2>0, <2>1 DEF IsServer
  <2> QED
    BY <2>2 DEF box, view
<1>3. x.k = "exists" /\ x.n \in Nat /\ x = Exists(Len(s.view))
  BY <1>1, <1>2, SeqBasics DEF Exists
<1> HIDE DEF s, x
<1>4. IsSeq(<<x>>) /\ DOMAIN <<x>> = {1} /\ <<x>>[1] = x
  BY SeqOne
<1>5. \A i \in DOMAIN <<x>> : /\ <<x>>[i].k \notin {"done", "continue"}
                              /\ <<x>>[i].k = "exists" => <<x>>[i].n \in Nat
  BY <1>3, <1>4
<1>6. Result(c, s, <<x>>)
  BY <1>1, <1>2, <1>3, <1>4, <1>5 DEF Result
<1> QED
  BY <1>6 DEF s, x

\* Lines in a row, one after another.
LEMMA SeqTwo ==
    ASSUME NEW x, NEW y
    PROVE  IsSeq(<<x, y>>) /\ \A i \in DOMAIN <<x, y>> : <<x, y>>[i] \in {x, y}
<1>1. <<x, y>> \in Seq({x, y}) /\ Len(<<x, y>>) = 2 /\ <<x, y>>[1] = x /\ <<x, y>>[2] = y
  OBVIOUS
<1>2. DOMAIN <<x, y>> = 1..2
  BY <1>1
<1>3. \A i \in 1..2 : <<x, y>>[i] = x \/ <<x, y>>[i] = y
  OBVIOUS
<1>4. <<x, y>> \in [1..2 -> {x, y}]
  BY <1>2, <1>3
<1>5. IsSeq(<<x, y>>)
  BY <1>4, SeqFunction
<1> QED
  BY <1>2, <1>3, <1>5

\* Three of them.
LEMMA SeqThree ==
    ASSUME NEW x, NEW y, NEW z
    PROVE  IsSeq(<<x, y, z>>) /\ \A i \in DOMAIN <<x, y, z>> : <<x, y, z>>[i] \in {x, y, z}
<1>1. DOMAIN <<x, y, z>> = 1..3
  OBVIOUS
<1>2. \A i \in 1..3 : <<x, y, z>>[i] \in {x, y, z}
  OBVIOUS
<1>3. <<x, y, z>> \in [1..3 -> {x, y, z}]
  BY <1>1, <1>2
<1>4. IsSeq(<<x, y, z>>)
  BY <1>3, SeqFunction
<1> QED
  BY <1>1, <1>2, <1>4

\* A message that leaves is told by an EXPUNGE, behind the UIDs of a move.
LEMMA WentResult ==
    ASSUME IInv, NEW c, c.op \notin Opens, NEW s, NEW lines, NEW x, IsServer(s),
           s.tls = srv.tls, s.offers = srv.offers, s.torn = srv.torn,
           s.literals = srv.literals, s.sel = srv.sel, s.rw = srv.rw,
           IsSeq(s.view), Len(s.view) = Len(srv.view) - 1,
           s.mail = [b \in Boxes |-> s.mail[b]], \A b \in Boxes : IsSeq(s.mail[b]),
           x.k = "uids", lines = <<Expunged>> \/ lines = <<x, Expunged>>
    PROVE  Result(c, s, lines)
<1> DEFINE e == Expunged
<1>1. e.k = "expunge"
  BY DEF Expunged
<1>2. lines = <<e>> \/ lines = <<x, e>>
  OBVIOUS
<1> HIDE DEF e
<1>3. /\ IsSeq(wire) /\ IsSeq(srv.view) /\ srv.sel \in Boxes \cup {None}
      /\ Len(srv.view) \in Nat /\ Len(s.view) \in Nat /\ Len(srv.view) <= Len(s.view) + 1
  BY SeqBasics DEF IInv, Types
<1>4. IsSeq(lines) /\ \A i \in DOMAIN lines : lines[i].k \in {"uids", "expunge"}
  <2>1. CASE lines = <<e>>
    BY <1>1, <2>1, SeqOne
  <2>2. CASE lines = <<x, e>>
    <3>1. IsSeq(lines) /\ \A i \in DOMAIN lines : lines[i] \in {x, e}
      BY <2>2, SeqTwo
    <3> QED
      BY <1>1, <3>1
  <2> QED
    BY <1>2, <2>1, <2>2
<1>5. ASSUME NEW count \in Nat, Bounded(count, wire, Len(srv.view), 0)
      PROVE  Bounded(count, wire \o lines, Len(s.view), 0)
  <2>1. CASE lines = <<e>>
    <3>1. Bounded(count, Append(wire, e), Len(s.view), 0)
      BY <1>1, <1>3, <1>5, BoundedAppend
    <3> QED
      BY <1>3, <2>1, <3>1, ConcatOne
  <2>2. CASE lines = <<x, e>>
    <3>1. Bounded(count, Append(wire, x), Len(srv.view), 0)
      BY <1>3, <1>5, BoundedAppend
    <3>2. IsSeq(Append(wire, x))
      BY <1>3, SeqAppend
    <3>3. Bounded(count, Append(Append(wire, x), e), Len(s.view), 0)
      BY <1>1, <1>3, <3>1, <3>2, BoundedAppend
    <3>4. wire \o <<x, e>> = Append(Append(wire, x), e)
      BY <1>3, ConcatTwo
    <3> QED
      BY <2>2, <3>3, <3>4
  <2> QED
    BY <1>2, <2>1, <2>2
<1> QED
  BY <1>3, <1>4, <1>5 DEF Result

\* A replacement shows the new message before the old one leaves.
LEMMA ReplacedResult ==
    ASSUME IInv, NEW c, c.op \notin Opens, NEW s, NEW x, IsServer(s),
           s.tls = srv.tls, s.offers = srv.offers, s.torn = srv.torn,
           s.literals = srv.literals, s.sel = srv.sel, s.rw = srv.rw,
           IsSeq(s.view), Len(srv.view) <= Len(s.view),
           s.mail = [b \in Boxes |-> s.mail[b]], \A b \in Boxes : IsSeq(s.mail[b]),
           x.k = "uids"
    PROVE  Result(c, s, <<x, Exists(Len(s.view) + 1), Expunged>>)
<1> DEFINE e == Expunged
           n == Len(s.view)
           y == Exists(n + 1)
           lines == <<x, y, e>>
<1>1. e.k = "expunge" /\ y.k = "exists" /\ y.n = n + 1
  BY DEF Expunged, Exists
<1>2. /\ IsSeq(wire) /\ IsSeq(srv.view) /\ srv.sel \in Boxes \cup {None}
      /\ Len(srv.view) \in Nat /\ n \in Nat /\ Len(srv.view) <= n
  BY SeqBasics DEF IInv, Types
<1> HIDE DEF e, y, n
<1>3. IsSeq(lines) /\ \A i \in DOMAIN lines : lines[i] \in {x, y, e}
  BY SeqThree
<1>4. wire \o lines = Append(Append(Append(wire, x), y), e)
  BY <1>2, ConcatThree
<1> HIDE DEF lines
<1>5. \A i \in DOMAIN lines : /\ lines[i].k \notin {"done", "continue"}
                              /\ lines[i].k = "exists" => lines[i].n \in Nat
  BY <1>1, <1>2, <1>3
<1>6. ASSUME NEW count \in Nat, Bounded(count, wire, Len(srv.view), 0)
      PROVE  Bounded(count, wire \o lines, n, 0)
  <2>1. Bounded(count, Append(wire, x), n + 1, 0)
    BY <1>2, <1>6, BoundedAppend
  <2>2. IsSeq(Append(wire, x)) /\ n + 1 \in Nat
    BY <1>2, SeqAppend
  <2>3. Bounded(count, Append(Append(wire, x), y), n + 1, 0)
    BY <1>1, <2>1, <2>2, BoundedAppend
  <2>4. IsSeq(Append(Append(wire, x), y))
    BY <2>2, SeqAppend
  <2>5. Bounded(count, Append(Append(Append(wire, x), y), e), n, 0)
    BY <1>1, <1>2, <2>2, <2>3, <2>4, BoundedAppend
  <2> QED
    BY <1>4, <2>5
<1>7. Result(c, s, lines)
  BY <1>2, <1>3, <1>5, <1>6 DEF Result, n
<1> QED
  BY <1>7 DEF lines, e, y, n

\* The message a command names stands in the mailbox and was shown.
LEMMA ThereSays ==
    ASSUME IInv, srv.sel # None, NEW u \in Shown
    PROVE  /\ srv.sel \in Boxes
           /\ IsSeq(Without(srv.view, u)) /\ Len(Without(srv.view, u)) = Len(srv.view) - 1
           /\ IsSeq(Without(srv.mail[srv.sel], u))
<1>1. /\ srv.sel \in Boxes /\ IsSeq(srv.view) /\ IsSeq(srv.mail[srv.sel])
  BY DEF IInv, Types
<1>2. u \in SeqSet(srv.view) /\ u \in SeqSet(srv.mail[srv.sel])
  BY DEF Shown, Standing
<1> QED
  BY <1>1, <1>2, WithoutOne

\* What the server has not told of comes behind what it has.
LEMMA ToldSays ==
    ASSUME IInv, srv.sel \in Boxes
    PROVE  LET told == srv.view \o Untold
           IN /\ IsSeq(told) /\ Len(told) \in Nat /\ Len(srv.view) <= Len(told)
              /\ Len(told) = Len(srv.view) + Len(Untold) /\ Len(Untold) \in Nat
              /\ \A u \in SeqSet(srv.view) : u \in SeqSet(told)
<1>1. IsSeq(srv.view) /\ IsSeq(srv.mail[srv.sel])
  BY DEF IInv, Types
<1>2. Standing(srv.sel) \ SeqSet(srv.view) \in SUBSET SeqSet(srv.mail[srv.sel])
  BY DEF Standing
<1>3. IsSeq(Untold)
  BY <1>1, <1>2, SeqSetFinite, InOrderSeq DEF Untold
<1> DEFINE told == srv.view \o Untold
<1>4. /\ IsSeq(told) /\ Len(told) = Len(srv.view) + Len(Untold)
      /\ DOMAIN told = 1..(Len(srv.view) + Len(Untold))
      /\ \A i \in 1..Len(srv.view) : told[i] = srv.view[i]
  BY <1>1, <1>3, SeqConcat
<1>5. /\ Len(srv.view) \in Nat /\ Len(Untold) \in Nat /\ DOMAIN srv.view = 1..Len(srv.view)
  BY <1>1, <1>3, SeqBasics
<1> HIDE DEF told
<1>6. \A i \in 1..Len(srv.view) : i \in DOMAIN told
  BY <1>4, <1>5
<1>7. \A u \in SeqSet(srv.view) : u \in SeqSet(told)
  BY <1>4, <1>5, <1>6 DEF SeqSet
<1>8. Len(told) \in Nat /\ Len(srv.view) <= Len(told)
  BY <1>4, <1>5
<1> QED
  BY <1>4, <1>5, <1>7, <1>8 DEF told

\* What a command done comes to.
LEMMA PerformHolds ==
    ASSUME IInv, NEW c, Takes(c), c.op \notin Ways, out' = Tail(out), UNCHANGED <<cl, cur, turn>>,
           Perform(c)
    PROVE  IInv'
<1> SUFFICES \E s, lines : Result(c, s, lines) /\ Effect(c, s, lines)
  BY PerformedHolds
<1>0. /\ Sound(c, srv.literals) /\ IsServer(srv) /\ srv.mail = [b \in Boxes |-> srv.mail[b]]
      /\ \A b \in Boxes : IsSeq(srv.mail[b])
      /\ srv.sel \in Boxes \cup {None} /\ IsSeq(srv.view)
  BY DEF IInv, Types, Takes
<1> DEFINE there == srv.sel # None /\ c.uid \in Shown
           pair == [k |-> "uids", uid |-> c.uid, to |-> Fresh]
           to == 3 - srv.sel
           seen == Without(srv.view, c.uid)
           left == Without(srv.mail[srv.sel], c.uid)
           gone == [srv EXCEPT !.mail[srv.sel] = left, !.view = seen]
           taken(box) == [srv EXCEPT !.mail[box] = Append(@, Fresh), !.fresh = Fresh,
                                     !.home[Fresh] = box]
           told == srv.view \o Untold
           moved == [gone EXCEPT !.mail[to] = Append(@, Fresh), !.fresh = Fresh,
                                 !.home[Fresh] = to]
           replaced == [gone EXCEPT !.mail[srv.sel] = Append(@, Fresh),
                                    !.fresh = Fresh, !.home[Fresh] = srv.sel,
                                    !.view = Append(Without(told, c.uid), Fresh)]
<1>p. pair.k = "uids"
  OBVIOUS
<1>1. CASE c.op \in Opens
  <2>1. PICK rw : Effect(c, [srv EXCEPT !.sel = c.box, !.rw = rw, !.owed = {},
                                        !.view = srv.mail[c.box]],
                         <<Exists(Len(srv.mail[c.box]))>>)
    BY <1>1 DEF Perform, Opens, Walks, Fetches
  <2>2. c.box \in Boxes
    BY <1>0, <1>1 DEF Sound
  <2> QED
    BY <1>1, <2>1, <2>2, OpenResult
<1>2. CASE c.op \in Walks
  <2> DEFINE x == [k |-> "search", found |-> Search(c)]
  <2>1. Effect(c, srv, <<x>>) /\ c.op \notin Opens
    BY <1>2 DEF Perform, Opens, Walks, Fetches
  <2>2. x.k = "search"
    OBVIOUS
  <2> HIDE DEF x
  <2>3. Result(c, srv, <<x>>)
    BY <2>1, <2>2, StillResult, SeqOne
  <2> QED
    BY <2>1, <2>3
<1>3. CASE c.op \in Fetches
  <2> DEFINE line(i) == [k |-> "fetch", uid |-> InOrder(Shown)[i], ver |-> srv.ver[InOrder(Shown)[i]],
                         full |-> TRUE]
             lines == [i \in 1..Cardinality(Shown) |-> line(i)]
  <2>1. Effect(c, srv, lines) /\ c.op \notin Opens
    BY <1>3 DEF Perform, Fetches, Walks, Opens
  <2>2. \A i : line(i).k = "fetch"
    OBVIOUS
  <2>3. Cardinality(Shown) \in Nat
    BY <1>0, SeqSetFinite DEF Shown
  <2> HIDE DEF line
  <2>4. lines \in [1..Cardinality(Shown) -> {line(i) : i \in 1..Cardinality(Shown)}]
    OBVIOUS
  <2>5. \A i \in 1..Cardinality(Shown) : lines[i].k = "fetch"
    BY <2>2
  <2> HIDE DEF lines
  <2>6. IsSeq(lines) /\ DOMAIN lines = 1..Cardinality(Shown)
    BY <2>3, <2>4, SeqFunction
  <2>7. Result(c, srv, lines)
    BY <2>1, <2>5, <2>6, StillResult
  <2> QED
    BY <2>1, <2>7
<1>4. CASE c.op = "uid_part"
  <2> DEFINE x(origin) == [k |-> "part", uid |-> c.uid, origin |-> origin,
                           at |-> IF origin = -1 THEN 0 ELSE c.low]
  <2>1. c.op \notin Opens /\ \E origin : Effect(c, srv, IF there THEN <<x(origin)>> ELSE <<>>)
    BY <1>4 DEF Perform, Fetches, Walks, Opens
  <2>2. PICK origin : Effect(c, srv, IF there THEN <<x(origin)>> ELSE <<>>)
    BY <2>1
  <2>3. x(origin).k = "part"
    OBVIOUS
  <2> HIDE DEF x, there
  <2>4. Result(c, srv, <<x(origin)>>)
    BY <2>1, <2>3, StillResult, SeqOne
  <2>5. Result(c, srv, <<>>)
    BY <2>1, StillResult, SeqEmpty
  <2> QED
    BY <2>2, <2>4, <2>5
<1>5. CASE c.op = "uid_store" /\ there
  <2> DEFINE s == [srv EXCEPT !.ver[c.uid] = @ + 1]
  <2>1. Effect(c, s, <<>>) /\ c.op \notin Opens
    BY <1>5 DEF Perform, Fetches, Walks, Opens
  <2>2. /\ IsServer(s) /\ s.tls = srv.tls /\ s.offers = srv.offers /\ s.torn = srv.torn
        /\ s.literals = srv.literals /\ s.sel = srv.sel /\ s.rw = srv.rw /\ s.view = srv.view
        /\ s.mail = srv.mail
    BY <1>0 DEF IsServer
  <2> HIDE DEF s
  <2>3. Result(c, s, <<>>)
    BY <1>0, <2>1, <2>2, SameResult, SeqEmpty
  <2> QED
    BY <2>1, <2>3
<1>6. CASE c.op = "uid_expunge" /\ c.low = 1 /\ there
  <2>1. Effect(c, gone, <<Expunged>>) /\ c.op \notin Opens
    BY <1>6 DEF Perform, Fetches, Walks, Opens
  <2>2. srv.sel \in Boxes /\ IsSeq(seen) /\ Len(seen) = Len(srv.view) - 1 /\ IsSeq(left)
    BY <1>6, ThereSays
  <2> HIDE DEF seen, left, pair
  <2> DEFINE mail == [srv.mail EXCEPT ![srv.sel] = left]
  <2>3. mail = [b \in Boxes |-> mail[b]] /\ \A b \in Boxes : IsSeq(mail[b])
    BY <1>0, <2>2, MailSet
  <2>4. gone = [srv EXCEPT !.mail = mail, !.view = seen]
    OBVIOUS
  <2> HIDE DEF gone, mail
  <2>5. /\ IsServer(gone) /\ gone.tls = srv.tls /\ gone.offers = srv.offers
        /\ gone.torn = srv.torn /\ gone.literals = srv.literals /\ gone.sel = srv.sel
        /\ gone.rw = srv.rw /\ gone.view = seen /\ gone.mail = mail
    BY <1>0, <2>4 DEF IsServer
  <2>6. Result(c, gone, <<Expunged>>)
    BY <1>p, <2>1, <2>2, <2>3, <2>5, WentResult
  <2> QED
    BY <2>1, <2>6
<1>7. CASE c.op = "uid_move" /\ there
  <2>1. Effect(c, moved, <<pair, Expunged>>) /\ c.op \notin Opens
    BY <1>7 DEF Perform, Fetches, Walks, Opens
  <2>2. srv.sel \in Boxes /\ IsSeq(seen) /\ Len(seen) = Len(srv.view) - 1 /\ IsSeq(left)
    BY <1>7, ThereSays
  <2>t. to \in Boxes
    BY <2>2 DEF Boxes
  <2> HIDE DEF seen, left, pair, to
  <2> DEFINE mid == [srv.mail EXCEPT ![srv.sel] = left]
             end == Append(mid[to], Fresh)
             mail == [mid EXCEPT ![to] = end]
             home == [srv.home EXCEPT ![Fresh] = to]
             next == Fresh
  <2>3. mid = [b \in Boxes |-> mid[b]] /\ \A b \in Boxes : IsSeq(mid[b])
    BY <1>0, <2>2, MailSet
  <2>g. gone.mail = mid /\ gone.view = seen /\ gone = [srv EXCEPT !.mail = mid, !.view = seen]
    BY <1>0 DEF IsServer
  <2> HIDE DEF gone
  <2>4. moved = [srv EXCEPT !.mail = mail, !.view = seen, !.fresh = next, !.home = home]
    <3>1. moved = [gone EXCEPT !.mail = mail, !.fresh = next, !.home = [@ EXCEPT ![Fresh] = to]]
      BY <2>g
    <3> HIDE DEF moved, mail, next, mid
    <3>2. gone.home = srv.home
      BY <1>0, <2>g DEF IsServer
    <3>3. moved = [gone EXCEPT !.mail = mail, !.fresh = next, !.home = home]
      BY <3>1, <3>2
    <3> HIDE DEF home
    <3> QED
      BY <1>0, <2>g, <3>3 DEF IsServer
  <2> HIDE DEF moved, mid
  <2>5. IsSeq(end)
    BY <2>t, <2>3, SeqAppend
  <2> HIDE DEF end
  <2>6. mail = [b \in Boxes |-> mail[b]] /\ \A b \in Boxes : IsSeq(mail[b])
    BY <2>t, <2>3, <2>5, MailSet
  <2> HIDE DEF mail, home, next
  <2>7. /\ IsServer(moved) /\ moved.tls = srv.tls /\ moved.offers = srv.offers
        /\ moved.torn = srv.torn /\ moved.literals = srv.literals /\ moved.sel = srv.sel
        /\ moved.rw = srv.rw /\ moved.view = seen /\ moved.mail = mail
    BY <1>0, <2>4 DEF IsServer
  <2>8. Result(c, moved, <<pair, Expunged>>)
    BY <1>p, <2>1, <2>2, <2>6, <2>7, WentResult
  <2> QED
    BY <2>1, <2>8
<1>8. ASSUME NEW box \in Boxes, Effect(c, taken(box), <<pair>>), c.op \notin Opens
      PROVE  \E s, lines : Result(c, s, lines) /\ Effect(c, s, lines)
  <2> HIDE DEF pair
  <2> DEFINE end == Append(srv.mail[box], Fresh)
             mail == [srv.mail EXCEPT ![box] = end]
             home == [srv.home EXCEPT ![Fresh] = box]
             next == Fresh
             s == taken(box)
  <2>1. s = [srv EXCEPT !.mail = mail, !.fresh = next, !.home = home]
    OBVIOUS
  <2>2. IsSeq(end)
    BY <1>0, SeqAppend
  <2> HIDE DEF end, s
  <2>3. mail = [b \in Boxes |-> mail[b]] /\ \A b \in Boxes : IsSeq(mail[b])
    BY <1>0, <2>2, MailSet
  <2> HIDE DEF mail, home, next
  <2>4. /\ IsServer(s) /\ s.tls = srv.tls /\ s.offers = srv.offers /\ s.torn = srv.torn
        /\ s.literals = srv.literals /\ s.sel = srv.sel /\ s.rw = srv.rw /\ s.view = srv.view
        /\ s.mail = mail
    BY <1>0, <2>1 DEF IsServer
  <2>5. \A i \in DOMAIN <<pair>> : <<pair>>[i].k = "uids"
    BY <1>p, SeqOne
  <2>6. Result(c, s, <<pair>>)
    BY <1>8, <2>3, <2>4, <2>5, SameResult, SeqOne
  <2> QED
    BY <1>8, <2>6 DEF s
<1>9. CASE c.op = "uid_copy" /\ there
  <2>1. Effect(c, taken(to), <<pair>>) /\ c.op \notin Opens
    BY <1>9 DEF Perform, Fetches, Walks, Opens
  <2>2. to \in Boxes
    BY <1>0, <1>9 DEF Boxes, None
  <2> QED
    BY <1>8, <2>1, <2>2
<1>10. CASE c.op = "append"
  <2>1. Effect(c, taken(c.box), <<pair>>) /\ c.op \notin Opens
    BY <1>10 DEF Perform, Fetches, Walks, Opens
  <2>2. c.box \in Boxes
    BY <1>0, <1>10 DEF Sound
  <2> QED
    BY <1>8, <2>1, <2>2
<1>11. CASE c.op = "replace" /\ there
  <2>1. Effect(c, replaced, <<pair, Exists(Len(told) + 1), Expunged>>) /\ c.op \notin Opens
    BY <1>11 DEF Perform, Fetches, Walks, Opens
  <2>2. srv.sel \in Boxes /\ IsSeq(left)
    BY <1>11, ThereSays
  <2>3. /\ IsSeq(told) /\ Len(told) \in Nat /\ Len(srv.view) <= Len(told)
        /\ c.uid \in SeqSet(told)
    BY <1>11, <2>2, ToldSays DEF Shown
  <2> HIDE DEF seen, left, pair, told
  <2> DEFINE mid == [srv.mail EXCEPT ![srv.sel] = left]
             end == Append(mid[srv.sel], Fresh)
             mail == [mid EXCEPT ![srv.sel] = end]
             home == [srv.home EXCEPT ![Fresh] = srv.sel]
             next == Fresh
             view == Append(Without(told, c.uid), Fresh)
  <2>4. mid = [b \in Boxes |-> mid[b]] /\ \A b \in Boxes : IsSeq(mid[b])
    BY <1>0, <2>2, MailSet
  <2>5. IsSeq(view) /\ Len(view) = Len(told)
    <3>1. IsSeq(Without(told, c.uid)) /\ Len(Without(told, c.uid)) = Len(told) - 1
      BY <2>3, WithoutOne
    <3>2. IsSeq(view) /\ Len(view) = Len(Without(told, c.uid)) + 1
      BY <3>1, SeqAppend
    <3> QED
      BY <2>3, <3>1, <3>2
  <2> HIDE DEF view
  <2>g. gone.mail = mid /\ gone.view = seen /\ gone = [srv EXCEPT !.mail = mid, !.view = seen]
    BY <1>0 DEF IsServer
  <2> HIDE DEF gone
  <2>6. replaced = [srv EXCEPT !.mail = mail, !.view = view, !.fresh = next, !.home = home]
    <3>1. replaced = [gone EXCEPT !.mail = mail, !.view = view, !.fresh = next, !.home = [@ EXCEPT ![Fresh] = srv.sel]]
      BY <2>g DEF view
    <3> HIDE DEF replaced, mail, next, mid
    <3>2. gone.home = srv.home
      BY <1>0, <2>g DEF IsServer
    <3>3. replaced = [gone EXCEPT !.mail = mail, !.view = view, !.fresh = next, !.home = home]
      BY <3>1, <3>2
    <3> HIDE DEF home
    <3> QED
      BY <1>0, <2>g, <3>3 DEF IsServer
  <2> HIDE DEF replaced, mid
  <2>7. IsSeq(end)
    BY <2>2, <2>4, SeqAppend
  <2> HIDE DEF end
  <2>8. mail = [b \in Boxes |-> mail[b]] /\ \A b \in Boxes : IsSeq(mail[b])
    BY <2>2, <2>4, <2>7, MailSet
  <2> HIDE DEF mail, home, next
  <2>9. /\ IsServer(replaced) /\ replaced.tls = srv.tls /\ replaced.offers = srv.offers
        /\ replaced.torn = srv.torn /\ replaced.literals = srv.literals
        /\ replaced.sel = srv.sel /\ replaced.rw = srv.rw /\ replaced.view = view
        /\ replaced.mail = mail
    BY <1>0, <2>6 DEF IsServer
  <2>10. Result(c, replaced, <<pair, Exists(Len(replaced.view) + 1), Expunged>>)
    BY <1>p, <2>1, <2>3, <2>5, <2>8, <2>9, ReplacedResult
  <2> QED
    BY <2>1, <2>5, <2>9, <2>10
<1>12. CASE c.op = "list"
  <2> DEFINE line(b) == [k |-> "list", box |-> b]
             lines == [b \in 1..2 |-> line(b)]
  <2>1. Effect(c, srv, lines) /\ c.op \notin Opens
    BY <1>12 DEF Perform, Fetches, Walks, Opens
  <2>2. \A b : line(b).k = "list"
    OBVIOUS
  <2> HIDE DEF line
  <2>3. lines \in [1..2 -> {line(b) : b \in 1..2}]
    OBVIOUS
  <2>4. \A b \in 1..2 : lines[b].k = "list"
    BY <2>2
  <2> HIDE DEF lines
  <2>5. IsSeq(lines) /\ DOMAIN lines = 1..2
    BY <2>3, SeqFunction
  <2>6. Result(c, srv, lines)
    BY <2>1, <2>4, <2>5, StillResult
  <2> QED
    BY <2>1, <2>6
<1>13. CASE c.op = "status"
  <2> DEFINE x == [k |-> "status", box |-> c.box]
  <2>1. c.op \notin Opens /\ (Effect(c, srv, <<>>) \/ Effect(c, srv, <<x>>))
    BY <1>13 DEF Perform, Fetches, Walks, Opens
  <2>2. x.k = "status"
    OBVIOUS
  <2> HIDE DEF x
  <2>3. Result(c, srv, <<x>>)
    BY <2>1, <2>2, StillResult, SeqOne
  <2>4. Result(c, srv, <<>>)
    BY <2>1, StillResult, SeqEmpty
  <2> QED
    BY <2>1, <2>3, <2>4
<1>14. CASE /\ c.op \notin Opens \cup Walks \cup Fetches \cup {"uid_part", "append", "list", "status"}
            /\ ~(c.op = "uid_store" /\ there) /\ ~(c.op = "uid_expunge" /\ c.low = 1 /\ there)
            /\ ~(c.op \in {"uid_move", "uid_copy", "replace"} /\ there)
  <2>1. Effect(c, srv, <<>>)
    BY <1>14 DEF Perform
  <2>2. Result(c, srv, <<>>)
    BY <1>14, StillResult, SeqEmpty
  <2> QED
    BY <2>1, <2>2
<1> HIDE DEF there
<1> QED
  BY <1>1, <1>2, <1>3, <1>4, <1>5, <1>6, <1>7, <1>9, <1>10, <1>11, <1>12, <1>13, <1>14

\* A command refused keeps the invariant.
LEMMA RefuseHolds ==
    ASSUME IInv, NEW c, Takes(c), out' = Tail(out), UNCHANGED <<cl, cur, turn>>, Refuse(c)
    PROVE  IInv'
<1>1. PICK status \in {"no", "badcharset"} : wire' = Append(wire, Done(c, status, FALSE))
  BY DEF Refuse
<1>2. IsServer(srv) /\ srv.busy = NoCmd
  BY DEF IInv, Types, Takes
<1>3. CASE c.op \in Opens
  <2>1. srv' = [srv EXCEPT !.sel = None, !.rw = FALSE, !.view = <<>>, !.owed = {},
                           !.mode = "idle", !.held = NoCmd]
    BY <1>3 DEF Refuse
  <2>2. /\ IsServer(srv') /\ srv'.mode = "idle" /\ srv'.held = NoCmd /\ srv'.busy = NoCmd
        /\ srv'.mail = srv.mail /\ srv'.tls = srv.tls /\ srv'.torn = srv.torn
        /\ srv'.literals = srv.literals /\ srv'.offers = srv.offers
        /\ srv'.sel = None /\ srv'.view = <<>>
    BY <1>2, <2>1 DEF IsServer
  <2> QED
    BY <1>1, <1>3, <2>2, AnsweredHolds, SeqEmpty
<1>4. CASE c.op \notin Opens
  <2>1. srv' = [srv EXCEPT !.mode = "idle", !.held = NoCmd]
    BY <1>4 DEF Refuse
  <2>2. /\ IsServer(srv') /\ srv'.mode = "idle" /\ srv'.held = NoCmd /\ srv'.busy = NoCmd
        /\ srv'.mail = srv.mail /\ srv'.tls = srv.tls /\ srv'.torn = srv.torn
        /\ srv'.literals = srv.literals /\ srv'.offers = srv.offers
        /\ srv'.sel = srv.sel /\ srv'.rw = srv.rw /\ srv'.view = srv.view
    BY <1>2, <2>1 DEF IsServer
  <2> QED
    BY <1>1, <1>4, <2>2, AnsweredHolds
<1> QED
  BY <1>3, <1>4

\* Whatever the server reads next keeps the invariant.
LEMMA ServeHolds == ASSUME IInv, Serve PROVE IInv'
<1> DEFINE m == out[1]
<1>1. /\ out # <<>> /\ srv.busy = NoCmd /\ out' = Tail(out) /\ UNCHANGED <<cl, cur, turn>>
      /\ Head(out) = m
  BY OutSays DEF Serve
<1>2. Sound(m, srv.literals) /\ IsServer(srv)
  BY <1>1, OutSays DEF IInv, Types
<1>3. srv.mode \in {"idle", "literal"} /\ (srv.mode = "idle" => srv.held = NoCmd)
  BY DEF IInv, Modes
<1>4. ASSUME m.op = "literal", srv.mode = "literal", Perform(srv.held) \/ Refuse(srv.held)
      PROVE  IInv'
  <2>1. Sound(srv.held, srv.literals) /\ Apart(srv.held)
    BY <1>4 DEF IInv, Modes, Types
  <2>2. srv.held.op \in Appends \cup {"uid_search"}
    BY <2>1 DEF Sound, Apart
  <2>3. Takes(srv.held) /\ srv.held.op \notin Ways
    BY <1>1, <1>4, <2>1, <2>2 DEF Takes, Appends, Ways
  <2> QED
    BY <1>1, <1>4, <2>3, PerformHolds, RefuseHolds
<1>5. ASSUME (m.op = "literal") # (srv.mode = "literal"), UNCHANGED <<srv, wire>> PROVE IInv'
  BY <1>1, <1>5, DropsHolds
<1>6. ASSUME srv.mode = "idle", m.op \in Ways,
             NEW status \in {"ok", "no"}, wire' = Append(wire, Done(m, status, FALSE)),
             srv' = [srv EXCEPT !.offers = IF wire'[Len(wire')].status = "ok" THEN {} ELSE @]
      PROVE  IInv'
  <2>1. Takes(m)
    BY <1>1, <1>2, <1>6 DEF Takes, Ways, Appends
  <2>2. Len(wire') = Len(wire) + 1 /\ wire'[Len(wire) + 1] = Done(m, status, FALSE)
    BY <1>6, LineMore
  <2>3. wire'[Len(wire')].status = status
    BY <2>2 DEF Done
  <2>4. srv' = [srv EXCEPT !.offers = IF status = "ok" THEN {} ELSE srv.offers]
    BY <1>6, <2>3
  <2> DEFINE offers == IF status = "ok" THEN {} ELSE srv.offers
  <2>5. offers = srv.offers \/ status = "ok"
    OBVIOUS
  <2> HIDE DEF offers
  <2>6. srv' = [srv EXCEPT !.offers = offers]
    BY <2>4 DEF offers
  <2>7. /\ IsServer(srv') /\ srv'.mode = "idle" /\ srv'.held = NoCmd /\ srv'.busy = NoCmd
        /\ srv'.mail = srv.mail /\ srv'.tls = srv.tls /\ srv'.torn = srv.torn
        /\ srv'.literals = srv.literals /\ srv'.offers = offers
        /\ srv'.sel = srv.sel /\ srv'.rw = srv.rw /\ srv'.view = srv.view
    BY <1>1, <1>2, <1>3, <1>6, <2>6 DEF IsServer
  <2>8. m.op \notin Opens
    BY <1>6 DEF Ways, Opens
  <2> HIDE DEF m
  <2> QED
    BY <1>1, <1>6, <2>1, <2>5, <2>7, <2>8, AnsweredHolds
<1>7. ASSUME srv.mode = "idle", m.lit = "sync",
             \/ /\ wire' = Append(wire, [k |-> "continue"])
                /\ srv' = [srv EXCEPT !.mode = "literal", !.held = m]
             \/ Refuse(m)
      PROVE  IInv'
  <2>1. Takes(m)
    <3>1. m.op # "literal"
      BY <1>2, <1>7 DEF Sound, Appends
    <3> QED
      BY <1>1, <1>2, <1>7, <3>1 DEF Takes
  <2> QED
    BY <1>1, <1>7, <2>1, ContinueHolds, RefuseHolds
<1>8. ASSUME srv.mode = "idle", m.lit = "plus", m.op \in Appends,
             srv' = [srv EXCEPT !.mode = "literal", !.held = m], UNCHANGED wire
      PROVE  IInv'
  BY <1>1, <1>8, OpeningHolds
<1>9. ASSUME srv.mode = "idle", m.op \notin Ways \cup {"literal"}, ~Apart(m),
             Perform(m) \/ Refuse(m)
      PROVE  IInv'
  <2>1. Takes(m)
    BY <1>1, <1>2, <1>9 DEF Takes, Apart
  <2> HIDE DEF m
  <2> QED
    BY <1>1, <1>9, <2>1, PerformHolds, RefuseHolds
<1>10. \/ m.op = "literal" /\ srv.mode = "literal" /\ (Perform(srv.held) \/ Refuse(srv.held))
       \/ (m.op = "literal") # (srv.mode = "literal") /\ UNCHANGED <<srv, wire>>
       \/ /\ srv.mode = "idle" /\ m.op \in Ways
          /\ \E status \in {"ok", "no"} : wire' = Append(wire, Done(m, status, FALSE))
          /\ srv' = [srv EXCEPT !.offers = IF wire'[Len(wire')].status = "ok" THEN {} ELSE @]
       \/ /\ srv.mode = "idle" /\ m.lit = "sync"
          /\ \/ /\ wire' = Append(wire, [k |-> "continue"])
                /\ srv' = [srv EXCEPT !.mode = "literal", !.held = m]
             \/ Refuse(m)
       \/ /\ srv.mode = "idle" /\ m.lit = "plus" /\ m.op \in Appends
          /\ srv' = [srv EXCEPT !.mode = "literal", !.held = m]
          /\ UNCHANGED wire
       \/ /\ srv.mode = "idle" /\ m.op \notin Ways \cup {"literal"}
          /\ ~Apart(m)
          /\ Perform(m) \/ Refuse(m)
  <2> HIDE DEF m
  <2> QED
    BY <1>1 DEF Serve
<1> HIDE DEF m
<1> QED
  BY <1>4, <1>5, <1>6, <1>7, <1>8, <1>9, <1>10

-----------------------------------------------------------------------------
(* What the server says *)

\* The tagged OK of the command performed.
LEMMA CompleteHolds == ASSUME IInv, Complete PROVE IInv'
<1> DEFINE c == srv.busy
           x == Done(srv.busy, "ok", ~srv.rw)
           n == Len(wire) + 1
<1>1. /\ c # NoCmd /\ srv' = [srv EXCEPT !.busy = NoCmd] /\ UNCHANGED <<out, cl, cur, turn>>
      /\ wire' = Append(wire, x)
  BY DEF Complete
<1>2. x.k = "done" /\ x.tag = c.tag /\ x.status = "ok" /\ x.ro = ~srv.rw
  BY DEF Done
<1>3. Sound(c, srv.literals) /\ c.tag \in Nat \ {0} /\ srv.mode = "idle" /\ srv.held = NoCmd
  BY <1>1 DEF IInv, Types, Modes, Sound
<1> HIDE DEF x, c
<1>4. /\ IsSeq(wire') /\ DOMAIN wire' = 1..n /\ n \in Nat /\ wire'[n] = x
      /\ \A p \in DOMAIN wire : wire'[p] = wire[p] /\ p \in DOMAIN wire'
      /\ \A p \in DOMAIN wire' : p # n => p \in DOMAIN wire
      /\ \A p \in DOMAIN wire' : wire'[p].k = "exists" => wire'[p].n \in Nat
      /\ n \in DOMAIN wire' /\ n - 1 = Len(wire)
  <2>1. Len(wire) \in Nat /\ DOMAIN wire = 1..Len(wire)
    BY <1>1, LineMore
  <2> QED
    BY <1>1, <1>2, <2>1, LineMore
<1>5. /\ IsServer(srv') /\ srv'.mode = srv.mode /\ srv'.held = srv.held /\ srv'.busy = NoCmd
      /\ srv'.mail = srv.mail /\ srv'.sel = srv.sel /\ srv'.rw = srv.rw /\ srv'.view = srv.view
      /\ srv'.tls = srv.tls /\ srv'.offers = srv.offers /\ srv'.torn = srv.torn
      /\ srv'.literals = srv.literals
  BY <1>1 DEF IInv, Types, IsServer
<1>6. Types'
  BY <1>1, <1>4, <1>5 DEF IInv, Types, Idle
<1>7. Modes' /\ Leading' /\ SignsInSafely' /\ CountHolds' /\ WritesLand'
  BY <1>1, <1>3, <1>5 DEF IInv, Modes, Leading, SignsInSafely, CountHolds, WritesLand
<1>8. ASSUME NEW tag \in Nat, Tagged(tag) PROVE Tagged(tag)'
  <2>1. c.tag = tag
    BY <1>3, <1>8 DEF Tagged, c
  <2>2. \A p \in DOMAIN wire' : wire'[p].k = "done" => wire'[p].tag = tag
    BY <1>2, <1>4, <1>8, <2>1 DEF Tagged
  <2> QED
    BY <1>1, <1>5, <1>8, <2>2, NoCurSays DEF Tagged
<1>9. Tags'
  <2>1. Idle => \E tag \in Nat : Tagged(tag)'
    BY <1>8 DEF IInv, Tags
  <2>2. ~Idle /\ cur.cmd.op # "check" => Tagged(cur.cmd.tag)'
    BY <1>1, <1>8, AskedSays DEF IInv, Tags
  <2> QED
    BY <1>1, <2>1, <2>2 DEF Tags, Idle
<1>10. Rest' /\ Stages' /\ Works' /\ Trailing'
  <2>1. Rest'
    BY <1>1 DEF IInv, Rest, Quiet, Idle, c
  <2>2. Stages' /\ Works' /\ Trailing'
    BY <1>1 DEF IInv, Stages, Works, Idle, Trailing
  <2> QED
    BY <2>1, <2>2
<1>11. ~Idle => \A p \in DOMAIN wire : ~Tells(wire[p], cur.cmd.tag)
  BY <1>1 DEF IInv, OwnLast, c
<1>12. OwnLast'
  <2> SUFFICES ASSUME ~Idle PROVE OwnLast'
    BY <1>1 DEF OwnLast, Idle
  <2>0. cur.cmd.tag # 0
    BY AskedSays
  <2>1. \A p \in DOMAIN wire' : Tells(wire'[p], cur.cmd.tag) =>
           /\ out' = <<>>
           /\ \A q \in DOMAIN wire' : q > p => wire'[q].k \notin {"done", "expunge"}
    <3> SUFFICES ASSUME NEW p \in DOMAIN wire', Tells(wire'[p], cur.cmd.tag)
                 PROVE  /\ out' = <<>>
                        /\ \A q \in DOMAIN wire' : q > p => wire'[q].k \notin {"done", "expunge"}
      OBVIOUS
    <3>1. p = n
      BY <1>4, <1>11
    <3>2. c.tag = cur.cmd.tag
      BY <1>2, <1>4, <3>1 DEF Tells
    <3>3. \A q \in DOMAIN wire' : ~(q > p)
      BY <1>4, <3>1
    <3> QED
      BY <1>1, <3>2, <3>3 DEF IInv, OwnLast, c
  <2>2. srv'.busy.tag # cur.cmd.tag
    BY <1>5, <2>0, NoCurSays
  <2> QED
    BY <1>1, <1>3, <1>5, <2>1, <2>2 DEF IInv, OwnLast
<1>13. Offered'
  <2>1. Answered(cur.cmd.tag) => Answered(cur.cmd.tag)'
    BY <1>1, <1>4 DEF Answered
  <2> QED
    BY <1>1, <1>5, <2>1 DEF IInv, Offered
<1>14. Literals'
  <2>1. \A p \in DOMAIN wire' : wire'[p].k # "continue"
    BY <1>2, <1>3, <1>4 DEF IInv, Literals
  <2> QED
    BY <1>1, <1>3, <1>5, <2>1 DEF IInv, Literals
<1>15. \A most \in Nat : cl.count \in Nat /\ Counts(most) => Counts(most)'
  BY <1>1, <1>2, <1>5, CountsMore DEF Counts
<1>16. Selected'
  BY <1>1, <1>5, <1>15 DEF IInv, Selected
<1>17. Opened'
  <2> SUFFICES ASSUME cur.cmd.op \in Opens PROVE Opened'
    BY <1>1 DEF Opened
  <2>1. ~Idle /\ cl.count \in Nat
    BY DEF IInv, Opened, Opens, Idle
  <2>2. srv'.busy.tag # cur.cmd.tag
    BY <1>5, <2>1, AskedSays, NoCurSays
  <2>3. ASSUME NEW p \in DOMAIN wire', Tells(wire'[p], cur.cmd.tag)
        PROVE  srv'.sel = cur.cmd.box /\ Counts(p - 1)' /\ wire'[p].ro = ~srv'.rw
    <3>1. p = n
      BY <1>4, <1>11, <2>1, <2>3
    <3>2. c.tag = cur.cmd.tag
      BY <1>2, <1>4, <2>3, <3>1 DEF Tells
    <3>3. srv.sel = cur.cmd.box /\ Counts(Len(wire))
      BY <3>2 DEF IInv, Opened, c
    <3>4. Len(wire) \in Nat /\ p - 1 = Len(wire)
      BY <1>1, <1>4, <3>1, LineMore
    <3>5. Counts(Len(wire)) => Counts(p - 1)'
      <4> DEFINE r == Len(wire)
      <4>1. r \in Nat /\ p - 1 = r
        BY <3>4
      <4> HIDE DEF r
      <4>2. Counts(r) => Counts(p - 1)'
        BY <1>1, <1>2, <1>5, <2>1, <4>1, CountsMore DEF Counts
      <4> QED
        BY <4>2 DEF r
    <3> QED
      BY <1>2, <1>4, <1>5, <3>1, <3>3, <3>5
  <2> QED
    BY <1>1, <2>1, <2>2, <2>3 DEF Opened
<1> QED
  BY <1>6, <1>7, <1>9, <1>10, <1>12, <1>13, <1>14, <1>16, <1>17 DEF IInv

\* News: a line that answers nothing, an EXPUNGE only while a command is done.
LEMMA NewsHolds ==
    ASSUME IInv, NEW l, wire' = Append(wire, l), UNCHANGED <<out, cl, cur, turn>>,
           IsServer(srv'), srv'.mail = srv.mail, srv'.sel = srv.sel, srv'.rw = srv.rw,
           srv'.mode = srv.mode, srv'.held = srv.held, srv'.busy = srv.busy,
           srv'.tls = srv.tls, srv'.offers = srv.offers, srv'.torn = srv.torn,
           srv'.literals = srv.literals, IsSeq(srv'.view),
           l.k \notin {"done", "continue"},
           l.k = "expunge" => srv.busy # NoCmd /\ Len(srv.view) <= Len(srv'.view) + 1,
           l.k # "expunge" => Len(srv.view) <= Len(srv'.view),
           l.k = "exists" => l.n \in Nat /\ l.n <= Len(srv'.view)
    PROVE  IInv'
<1> DEFINE n == Len(wire) + 1
<1>1. /\ IsSeq(wire) /\ IsSeq(wire') /\ DOMAIN wire' = 1..n /\ n \in Nat /\ wire'[n] = l
      /\ \A p \in DOMAIN wire : wire'[p] = wire[p] /\ p \in DOMAIN wire'
      /\ \A p \in DOMAIN wire' : p # n => p \in DOMAIN wire
      /\ \A p \in DOMAIN wire' : wire'[p].k = "exists" => wire'[p].n \in Nat
  <2>1. Len(wire) \in Nat /\ DOMAIN wire = 1..Len(wire)
    BY LineMore
  <2> QED
    BY <2>1, LineMore
<1>2. Len(srv.view) \in Nat /\ Len(srv'.view) \in Nat
  BY SeqBasics DEF IInv, Types
<1>3. Types'
  BY <1>1 DEF IInv, Types, Idle
<1>4. Modes' /\ Leading' /\ SignsInSafely' /\ WritesLand'
  BY DEF IInv, Modes, Leading, SignsInSafely, WritesLand
<1>5. CountHolds'
  <2> SUFFICES ASSUME NEW i \in DOMAIN out, out[i].op \in Walks
               PROVE  out[i].low >= 1 /\ out[i].high <= Len(srv'.view) /\ out[i].low <= out[i].high
    BY DEF CountHolds
  <2>1. srv.busy = NoCmd
    BY DEF IInv, Leading, Walks
  <2>2. Len(srv.view) <= Len(srv'.view)
    BY <2>1
  <2>3. out[i].low >= 1 /\ out[i].high <= Len(srv.view) /\ out[i].low <= out[i].high
    BY DEF IInv, CountHolds
  <2>4. out[i].high \in Nat
    BY DEF IInv, Types, Sound
  <2> QED
    BY <1>2, <2>2, <2>3, <2>4
<1>6. ASSUME NEW tag \in Nat, Tagged(tag) PROVE Tagged(tag)'
  <2>1. \A p \in DOMAIN wire' : wire'[p].k = "done" => wire'[p].tag = tag
    BY <1>1, <1>6 DEF Tagged
  <2> QED
    BY <1>6, <2>1 DEF Tagged
<1>7. Tags'
  <2>1. Idle => \E tag \in Nat : Tagged(tag)'
    BY <1>6 DEF IInv, Tags
  <2>2. ~Idle /\ cur.cmd.op # "check" => Tagged(cur.cmd.tag)'
    BY <1>6, AskedSays DEF IInv, Tags
  <2> QED
    BY <2>1, <2>2 DEF Tags, Idle
<1>8. Rest' /\ Stages' /\ Works' /\ Trailing'
  <2>1. Quiet => Quiet'
    BY <1>1 DEF Quiet
  <2>2. Rest'
    BY <2>1 DEF IInv, Rest, Idle
  <2>3. Stages' /\ Works' /\ Trailing'
    BY DEF IInv, Stages, Works, Idle, Trailing
  <2> QED
    BY <2>2, <2>3
<1>9. \A p \in DOMAIN wire' : Tells(wire'[p], cur.cmd.tag) =>
        p \in DOMAIN wire /\ wire'[p] = wire[p] /\ Tells(wire[p], cur.cmd.tag)
  BY <1>1 DEF Tells
<1>10. OwnLast'
  <2> SUFFICES ASSUME ~Idle PROVE OwnLast'
    BY DEF OwnLast, Idle
  <2>1. ASSUME NEW p \in DOMAIN wire', Tells(wire'[p], cur.cmd.tag)
        PROVE  /\ out' = <<>> /\ srv'.busy = NoCmd /\ srv'.mode = "idle"
               /\ \A q \in DOMAIN wire' : q > p => wire'[q].k \notin {"done", "expunge"}
    <3>1. p \in DOMAIN wire /\ Tells(wire[p], cur.cmd.tag)
      BY <1>9, <2>1
    <3>2. /\ out = <<>> /\ srv.busy = NoCmd /\ srv.mode = "idle"
          /\ \A q \in DOMAIN wire : q > p => wire[q].k \notin {"done", "expunge"}
      BY <3>1 DEF IInv, OwnLast
    <3> QED
      BY <1>1, <3>2
  <2> QED
    BY <2>1 DEF IInv, OwnLast
<1>11. Offered'
  <2>1. Answered(cur.cmd.tag) => Answered(cur.cmd.tag)'
    BY <1>1 DEF Answered
  <2> QED
    BY <2>1 DEF IInv, Offered
<1>12. Literals'
  <2>1. \A p \in DOMAIN wire' : wire'[p].k = "continue" => p \in DOMAIN wire /\ wire'[p] = wire[p]
    BY <1>1
  <2>2. \A p \in DOMAIN wire : wire[p].k = "continue" =>
         /\ srv.mode = "literal" /\ srv.held.lit = "sync"
         /\ \A i \in DOMAIN out : out[i].op # "literal"
         /\ \A q \in DOMAIN wire : wire[q].k = "continue" => q = p
    BY DEF IInv, Literals
  <2>3. \A p \in DOMAIN wire' : wire'[p].k = "continue" =>
         /\ srv'.mode = "literal" /\ srv'.held.lit = "sync"
         /\ \A i \in DOMAIN out' : out'[i].op # "literal"
         /\ \A q \in DOMAIN wire' : wire'[q].k = "continue" => q = p
    BY <2>1, <2>2
  <2> QED
    BY <2>3 DEF IInv, Literals
<1>13. ASSUME cl.count \in Nat, NEW most \in Nat, Counts(most) PROVE Counts(most)'
  <2> DEFINE v == Len(srv.view)
             w == Len(srv'.view)
  <2>1. v \in Nat /\ w \in Nat
    BY <1>2
  <2>2. /\ l.k = "expunge" => v <= w + 1
        /\ l.k # "expunge" => v <= w
        /\ l.k = "exists" => l.n <= w
    OBVIOUS
  <2>3. Bounded(cl.count, wire, v, most)
    BY <1>13 DEF Counts
  <2> HIDE DEF v, w
  <2>4. Bounded(cl.count, Append(wire, l), w, most)
    BY <1>1, <1>13, <2>1, <2>2, <2>3, BoundedAppend
  <2> QED
    BY <2>4 DEF Counts, w
<1>14. Selected'
  BY <1>13 DEF IInv, Selected
<1>15. Opened'
  <2> SUFFICES ASSUME cur.cmd.op \in Opens PROVE Opened'
    BY DEF Opened
  <2>1. cl.count \in Nat
    BY DEF IInv, Opened
  <2>2. ASSUME srv.busy.tag = cur.cmd.tag PROVE srv.sel = cur.cmd.box /\ Counts(Len(wire))'
    <3>1. srv.sel = cur.cmd.box /\ Counts(Len(wire)) /\ Len(wire) \in Nat
      BY <1>1, <2>2, SeqBasics DEF IInv, Opened
    <3>2. Bounded(cl.count, wire', Len(srv'.view), Len(wire))
      <4> DEFINE r == Len(wire)
      <4>1. r \in Nat /\ Counts(r)
        BY <3>1
      <4> HIDE DEF r
      <4> DEFINE v == Len(srv.view)
                 w == Len(srv'.view)
      <4>2. v \in Nat /\ w \in Nat
        BY <1>2
      <4>3. /\ l.k = "expunge" => v <= w + 1
            /\ l.k # "expunge" => v <= w
            /\ l.k = "exists" => l.n <= w
        OBVIOUS
      <4>4. Bounded(cl.count, wire, v, r)
        BY <4>1 DEF Counts
      <4> HIDE DEF v, w
      <4>5. Bounded(cl.count, Append(wire, l), w, r)
        BY <1>1, <2>1, <4>1, <4>2, <4>3, <4>4, BoundedAppend
      <4> QED
        BY <4>5 DEF w, r
    <3>3. Len(wire) <= Len(wire') /\ Len(wire') \in Nat
      BY <1>1, LineMore
    <3>4. Bounded(cl.count, wire', Len(srv'.view), Len(wire'))
      <4> DEFINE r == Len(wire)
                 t == Len(wire')
                 v == Len(srv'.view)
      <4>1. r \in Nat /\ t \in Nat /\ r <= t /\ v \in Nat /\ Bounded(cl.count, wire', v, r)
        BY <1>2, <3>1, <3>2, <3>3
      <4> HIDE DEF r, t, v
      <4>2. v <= v
        BY <4>1
      <4>3. Bounded(cl.count, wire', v, t)
        BY <1>1, <4>1, <4>2, BoundedMore
      <4> QED
        BY <4>3 DEF v, t
    <3> QED
      BY <3>1, <3>4 DEF Counts
  <2>3. ASSUME NEW p \in DOMAIN wire', Tells(wire'[p], cur.cmd.tag), wire'[p].status = "ok"
        PROVE  srv.sel = cur.cmd.box /\ Counts(p - 1)' /\ wire'[p].ro = ~srv.rw
    <3>1. p \in DOMAIN wire /\ wire'[p] = wire[p] /\ Tells(wire[p], cur.cmd.tag)
      BY <1>9, <2>3
    <3>2. srv.sel = cur.cmd.box /\ Counts(p - 1) /\ wire[p].ro = ~srv.rw
      BY <2>3, <3>1 DEF IInv, Opened
    <3>3. p - 1 \in Nat
      BY <1>1
    <3>4. Counts(p - 1)'
      BY <1>13, <2>1, <3>2, <3>3
    <3> QED
      BY <3>1, <3>2, <3>4
  <2> QED
    BY <2>1, <2>2, <2>3 DEF Opened
<1> QED
  BY <1>3, <1>4, <1>5, <1>7, <1>8, <1>10, <1>11, <1>12, <1>14, <1>15 DEF IInv

\* Lines nobody asked for keep the invariant.
LEMMA TellHolds == ASSUME IInv, Tell PROVE IInv'
<1>1. UNCHANGED <<out, cl, cur, turn>> /\ srv.sel # None
  BY DEF Tell
<1>2. IsServer(srv) /\ srv.sel \in Boxes /\ IsSeq(srv.view) /\ Len(srv.view) \in Nat
  BY <1>1, SeqBasics DEF IInv, Types
<1>3. ASSUME NEW view, IsSeq(view), srv' = [srv EXCEPT !.view = view], NEW l,
             wire' = Append(wire, l), l.k \notin {"done", "continue"},
             l.k = "expunge" => srv.busy # NoCmd /\ Len(srv.view) <= Len(view) + 1,
             l.k # "expunge" => Len(srv.view) <= Len(view),
             l.k = "exists" => l.n \in Nat /\ l.n <= Len(view)
      PROVE  IInv'
  <2>1. /\ IsServer(srv') /\ srv'.mail = srv.mail /\ srv'.sel = srv.sel /\ srv'.rw = srv.rw
        /\ srv'.mode = srv.mode /\ srv'.held = srv.held /\ srv'.busy = srv.busy
        /\ srv'.tls = srv.tls /\ srv'.offers = srv.offers /\ srv'.torn = srv.torn
        /\ srv'.literals = srv.literals /\ srv'.view = view
    BY <1>2, <1>3 DEF IsServer
  <2> QED
    BY <1>1, <1>3, <2>1, NewsHolds
<1>4. CASE /\ srv' = [srv EXCEPT !.view = @ \o Untold]
           /\ wire' = Append(wire, Exists(Len(srv.view) + Len(Untold)))
  <2> DEFINE view == srv.view \o Untold
             l == Exists(Len(srv.view) + Len(Untold))
  <2>1. /\ IsSeq(view) /\ Len(view) \in Nat /\ Len(srv.view) <= Len(view)
        /\ Len(view) = Len(srv.view) + Len(Untold)
    BY <1>2, ToldSays
  <2>2. l.k = "exists" /\ l.n = Len(view)
    BY <2>1 DEF Exists
  <2>3. srv' = [srv EXCEPT !.view = view] /\ wire' = Append(wire, l)
    BY <1>4
  <2> HIDE DEF view, l
  <2>4. l.n \in Nat /\ l.n <= Len(view)
    BY <2>1, <2>2
  <2> QED
    BY <1>3, <2>1, <2>2, <2>3, <2>4
<1>5. ASSUME NEW u \in SeqSet(srv.view), srv.busy # NoCmd,
             srv' = [srv EXCEPT !.view = Without(@, u)], wire' = Append(wire, Expunged)
      PROVE  IInv'
  <2> DEFINE view == Without(srv.view, u)
             l == Expunged
  <2>1. IsSeq(view) /\ Len(view) = Len(srv.view) - 1
    BY <1>2, WithoutOne
  <2>2. l.k = "expunge" /\ srv' = [srv EXCEPT !.view = view] /\ wire' = Append(wire, l)
    BY <1>5 DEF Expunged
  <2> HIDE DEF view, l
  <2>3. Len(srv.view) <= Len(view) + 1
    BY <1>2, <2>1
  <2> QED
    BY <1>3, <1>5, <2>1, <2>2, <2>3
<1>6. ASSUME NEW u, srv' = [srv EXCEPT !.owed = @ \ {u}],
             wire' = Append(wire, [k |-> "fetch", uid |-> u, ver |-> srv.ver[u], full |-> FALSE])
      PROVE  IInv'
  <2> DEFINE l == [k |-> "fetch", uid |-> u, ver |-> srv.ver[u], full |-> FALSE]
  <2>1. l.k = "fetch" /\ wire' = Append(wire, l)
    BY <1>6
  <2> HIDE DEF l
  <2>2. /\ IsServer(srv') /\ srv'.mail = srv.mail /\ srv'.sel = srv.sel /\ srv'.rw = srv.rw
        /\ srv'.mode = srv.mode /\ srv'.held = srv.held /\ srv'.busy = srv.busy
        /\ srv'.tls = srv.tls /\ srv'.offers = srv.offers /\ srv'.torn = srv.torn
        /\ srv'.literals = srv.literals /\ srv'.view = srv.view
    BY <1>2, <1>6 DEF IsServer
  <2>3. Len(srv.view) <= Len(srv'.view)
    BY <1>2, <2>2
  <2> QED
    BY <1>1, <1>2, <2>1, <2>2, <2>3, NewsHolds
<1> QED
  BY <1>4, <1>5, <1>6 DEF Tell

\* So do an alert and a response past a bound.
LEMMA ChatterHolds == ASSUME IInv, Chatter PROVE IInv'
<1>1. UNCHANGED <<srv, out, cl, cur, turn>>
  BY DEF Chatter
<1>2. PICK k \in {"alert", "oversized"} : wire' = Append(wire, [k |-> k])
  BY DEF Chatter
<1> DEFINE l == [k |-> k]
<1>3. l.k \in {"alert", "oversized"} /\ wire' = Append(wire, l)
  BY <1>2
<1> HIDE DEF l
<1>4. IsServer(srv) /\ IsSeq(srv.view) /\ Len(srv.view) <= Len(srv'.view)
  BY <1>1, SeqBasics DEF IInv, Types
<1> QED
  BY <1>1, <1>3, <1>4, NewsHolds

\* Other clients change mailboxes, of which the session is told later.
LEMMA OthersHolds == ASSUME IInv, Others PROVE IInv'
<1>1. UNCHANGED <<out, wire, cl, cur, turn>> /\ srv.sel # None
  BY DEF Others
<1>2. /\ IsServer(srv) /\ srv.sel \in Boxes /\ srv.mail = [b \in Boxes |-> srv.mail[b]]
      /\ \A b \in Boxes : IsSeq(srv.mail[b])
  BY <1>1 DEF IInv, Types
<1>3. ASSUME IsServer(srv'), srv'.sel = srv.sel, srv'.rw = srv.rw, srv'.view = srv.view,
             srv'.mode = srv.mode, srv'.held = srv.held, srv'.busy = srv.busy,
             srv'.tls = srv.tls, srv'.offers = srv.offers, srv'.torn = srv.torn,
             srv'.literals = srv.literals,
             srv'.mail = [b \in Boxes |-> srv'.mail[b]], \A b \in Boxes : IsSeq(srv'.mail[b])
      PROVE  IInv'
  <2>1. Types' /\ Modes' /\ Leading'
    BY <1>1, <1>3 DEF IInv, Types, Modes, Leading, Idle
  <2>2. Tags' /\ Rest' /\ Stages' /\ Works'
    BY <1>1, <1>3 DEF IInv, Tags, Tagged, Rest, Quiet, Stages, Works, Idle
  <2>3. OwnLast' /\ Offered' /\ Trailing'
    BY <1>1, <1>3 DEF IInv, OwnLast, Offered, Answered, Trailing, Idle
  <2>4. Literals' /\ SignsInSafely' /\ CountHolds' /\ WritesLand'
    BY <1>1, <1>3 DEF IInv, Literals, SignsInSafely, CountHolds, WritesLand
  <2>5. Selected' /\ Opened'
    BY <1>1, <1>3 DEF IInv, Selected, Opened, Counts
  <2> QED
    BY <2>1, <2>2, <2>3, <2>4, <2>5 DEF IInv
<1>4. ASSUME NEW content, IsSeq(content), NEW fresh, NEW home, NEW changes,
             srv' = [srv EXCEPT !.mail[srv.sel] = content, !.fresh = fresh, !.home = home,
                                !.changes = changes]
      PROVE  IInv'
  <2> DEFINE mail == [srv.mail EXCEPT ![srv.sel] = content]
  <2>1. mail = [b \in Boxes |-> mail[b]] /\ \A b \in Boxes : IsSeq(mail[b])
    BY <1>2, <1>4, MailSet
  <2>2. srv' = [srv EXCEPT !.mail = mail, !.fresh = fresh, !.home = home, !.changes = changes]
    BY <1>4
  <2> HIDE DEF mail
  <2>3. /\ IsServer(srv') /\ srv'.sel = srv.sel /\ srv'.rw = srv.rw /\ srv'.view = srv.view
        /\ srv'.mode = srv.mode /\ srv'.held = srv.held /\ srv'.busy = srv.busy
        /\ srv'.tls = srv.tls /\ srv'.offers = srv.offers /\ srv'.torn = srv.torn
        /\ srv'.literals = srv.literals /\ srv'.mail = mail
    BY <1>2, <2>2 DEF IsServer
  <2> QED
    BY <1>3, <2>1, <2>3
<1>5. CASE srv' = [srv EXCEPT !.mail[srv.sel] = Append(@, Fresh), !.fresh = Fresh,
                              !.home[Fresh] = srv.sel, !.changes = @ + 1]
  <2> DEFINE content == Append(srv.mail[srv.sel], Fresh)
             fresh == Fresh
             home == [srv.home EXCEPT ![Fresh] = srv.sel]
             changes == srv.changes + 1
  <2>1. IsSeq(content)
    BY <1>2, SeqAppend
  <2>2. srv' = [srv EXCEPT !.mail[srv.sel] = content, !.fresh = fresh, !.home = home,
                           !.changes = changes]
    BY <1>5
  <2> HIDE DEF content, fresh, home, changes
  <2> QED
    BY <1>4, <2>1, <2>2
<1>6. ASSUME NEW u \in Standing(srv.sel),
             srv' = [srv EXCEPT !.mail[srv.sel] = Without(@, u), !.changes = @ + 1]
      PROVE  IInv'
  <2> DEFINE content == Without(srv.mail[srv.sel], u)
             changes == srv.changes + 1
  <2>1. IsSeq(content)
    BY <1>2, WithoutOne DEF Standing
  <2>2. srv' = [srv EXCEPT !.mail[srv.sel] = content, !.changes = changes]
    BY <1>6
  <2> HIDE DEF content, changes
  <2>3. srv' = [srv EXCEPT !.mail[srv.sel] = content, !.fresh = srv.fresh, !.home = srv.home,
                           !.changes = changes]
    BY <1>2, <2>2 DEF IsServer
  <2> QED
    BY <1>4, <2>1, <2>3
<1>7. ASSUME NEW u,
             srv' = [srv EXCEPT !.ver[u] = @ + 1, !.changes = @ + 1, !.owed = @ \cup {u}]
      PROVE  IInv'
  <2>1. /\ IsServer(srv') /\ srv'.sel = srv.sel /\ srv'.rw = srv.rw /\ srv'.view = srv.view
        /\ srv'.mode = srv.mode /\ srv'.held = srv.held /\ srv'.busy = srv.busy
        /\ srv'.tls = srv.tls /\ srv'.offers = srv.offers /\ srv'.torn = srv.torn
        /\ srv'.literals = srv.literals /\ srv'.mail = srv.mail
    BY <1>2, <1>7 DEF IsServer
  <2> QED
    BY <1>2, <1>3, <2>1
<1> QED
  BY <1>5, <1>6, <1>7 DEF Others

-----------------------------------------------------------------------------
(* The theorem *)

\* Every step keeps the invariant.
LEMMA NextKeeps == IInv /\ [Next]_vars => IInv'
<1> SUFFICES ASSUME IInv, [Next]_vars PROVE IInv'
  OBVIOUS
<1>1. CASE Connect \/ Starttls \/ Offers
  BY <1>1, ConnectHolds
<1>2. CASE SignIn
  BY <1>2, SignInHolds
<1>3. CASE LogOut
  BY <1>3, LogOutHolds
<1>4. CASE UseKept
  BY <1>4, UseKeptHolds
<1>5. CASE \E op \in Ops : Begin(op)
  BY <1>5, BeginHolds
<1>6. CASE WriteLiteral
  BY <1>6, WriteLiteralHolds
<1>7. CASE Read
  BY <1>7, ReadHolds
<1>8. CASE Timeout
  BY <1>8, TimeoutHolds
<1>9. CASE Abandon
  BY <1>9, AbandonHolds
<1>10. CASE EndTurn
  BY <1>10, EndTurnHolds
<1>11. CASE Serve
  BY <1>11, ServeHolds
<1>12. CASE Complete
  BY <1>12, CompleteHolds
<1>13. CASE Tell
  BY <1>13, TellHolds
<1>14. CASE Chatter
  BY <1>14, ChatterHolds
<1>15. CASE Others
  BY <1>15, OthersHolds
<1>16. CASE UNCHANGED vars
  BY <1>16, UnchangedHolds DEF vars
<1> QED
  BY <1>1, <1>2, <1>3, <1>4, <1>5, <1>6, <1>7, <1>8, <1>9, <1>10, <1>11, <1>12, <1>13,
     <1>14, <1>15, <1>16 DEF Next

\* What the invariant says of the literals in flight.
LEMMA LiteralsFit == IInv => LiteralsLand
<1> SUFFICES ASSUME IInv, NEW i \in DOMAIN out
             PROVE  IF out[i].op = "literal"
                      THEN \/ i = 1 /\ srv.mode = "literal"
                           \/ i > 1 /\ out[i - 1].lit = "plus" /\ out[i - 1].tag = out[i].tag
                                    /\ Unsynchronized(srv.literals, out[i - 1].size)
                           \/ srv.torn
                      ELSE i = 1 /\ srv.mode = "literal" => srv.torn
  BY DEF LiteralsLand
<1>1. IsSeq(out) /\ out # <<>> /\ DOMAIN out = 1..Len(out) /\ Len(out) \in Nat
  BY SeqBasics, SeqEmpty DEF IInv, Types
<1>2. CASE out[i].op = "literal" /\ i = 1
  BY <1>1, <1>2 DEF IInv, Literals
<1>3. CASE out[i].op = "literal" /\ i # 1
  <2>1. i > 1 /\ i - 1 \in DOMAIN out
    BY <1>1, <1>3
  <2>2. out[i - 1].lit = "plus" /\ out[i - 1].tag = out[i].tag
    BY <1>3, <2>1 DEF IInv, Trailing
  <2>3. Sound(out[i - 1], srv.literals)
    BY <2>1 DEF IInv, Types
  <2> QED
    BY <1>3, <2>1, <2>2, <2>3 DEF Sound
<1>4. CASE out[i].op # "literal"
  BY <1>1, <1>4 DEF IInv, Literals
<1> QED
  BY <1>2, <1>3, <1>4

\* Whatever the session writes fits where the server stands when it reads it:
\* the credentials go over TLS in a way offered there (login,
\* authenticate_xoauth2), the bytes of a literal reach a server that reads one
\* (append.rs), no SEARCH names a sequence number the server does not have
\* (read/search.rs, walk) and a write reaches the mailbox its turn opened for
\* writing (write.rs), whatever requests are dropped in the middle of a command.
THEOREM SendsAlwaysFit == Spec => []SendsFit
<1>1. Init => IInv
  BY InitHolds
<1>2. IInv /\ [Next]_vars => IInv'
  BY NextKeeps
<1>3. IInv => SendsFit
  BY LiteralsFit DEF IInv, SendsFit
<1> QED
  BY <1>1, <1>2, <1>3, PTL DEF Spec

=============================================================================
