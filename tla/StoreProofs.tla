---------------------------- MODULE StoreProofs ----------------------------
(***************************************************************************)
(* What the tables keep whatever transactions interleave: the log is the   *)
(* history of the row (EventLog), the chains of the vocabulary run         *)
(* through, in the order asked for (Vocabulary), and the tail that follows *)
(* the log passes over nothing (Watch).  And what is listed of them: a     *)
(* filter lists what CEL says it lists, however it is split between SQL    *)
(* and Go (Filter).  For any number of writers, kinds of event, verbs,     *)
(* pipelines, builds, columns and terms of any comparisons.                *)
(***************************************************************************)
EXTENDS EventLog, Watch, Vocabulary, Filter, OrderFacts, FiniteSetTheorems,
        SequenceTheorems, TLAPS

----------------------------------------------------------------------------
(* The log: the inductive invariant *)

Texts      == {"", "text", "open", "sha"}
EventKinds == {"changed", "created", "note", "standing"}
Events     == [actor : Actors, at : Nat, correlation : Nat, kind : EventKinds,
               field : Fields \union {""}, old : Texts, new : Texts]
Records    == [title : {NoText, "", "text"}, state : {"", "open"}, head : {"", "sha"},
               updated : Nat, there : BOOLEAN]
Txs        == [pc : {"none", "begun", "reading", "writing"}, actor : Actors, at : Nat,
               snapshot : Nat, row : Records, copies : SUBSET Records, said : Seq(Events)]

\* What the log l tells of the row r.
Tells(l, r) ==
    /\ ChainsAcross(l) /\ StartsWithin(l) /\ EndsAt(l, r)
    /\ FactsAndJudgements(l)
    /\ OnceAnInterval(l)

\* Nothing is logged of a record that is not there, or with a time that is yet to come,
\* and a transaction's id is the length of the log before it.
Plain(l, r) ==
    /\ ~r.there => r = Absent /\ l = <<>>
    /\ r.updated <= time
    /\ \A i \in DOMAIN l : l[i].at <= time /\ l[i].correlation < i

\* The events of transaction id are the last ones of l.
OwnAreLast(l, id) == \A i \in DOMAIN l : l[i].correlation = id <=> i > id

\* Each column of a copy has a value that row r had since transaction id began.
HadIn(l, r, id, copy) ==
    copy.there =>
        \A c \in Fields :
            \/ /\ \A k \in LoggedIn(l, c) : l[k].correlation # id
               /\ Render(copy[c]) = Render(r[c])
            \/ \E k \in LoggedIn(l, c) : /\ l[k].correlation = id
                                         /\ Render(copy[c]) \in {l[k].old, l[k].new}

\* What a transaction that may write, or does, sees.
Sees(w) ==
    /\ Tells(Seen(w), tx[w].row)
    /\ Plain(Seen(w), tx[w].row)
    /\ OwnAreLast(Seen(w), tx[w].snapshot)
    /\ \A copy \in tx[w].copies : /\ HadIn(Seen(w), tx[w].row, tx[w].snapshot, copy)
                                  /\ copy.there => tx[w].row.there

TxOK(w) ==
    /\ tx[w].snapshot <= Len(log)
    /\ tx[w].at <= time
    /\ tx[w].pc # "writing" => tx[w].said = <<>>
    /\ tx[w].pc = "writing" => tx[w].snapshot = Len(log) /\ tx[w].row.there
                               /\ tx[w].said # <<>>
    /\ tx[w].pc \in {"reading", "writing"} /\ tx[w].snapshot = Len(log) => Sees(w)

OneWrites == \A v, w \in Writers : tx[v].pc = "writing" /\ tx[w].pc = "writing" => v = w

LogTypes ==
    /\ record \in Records
    /\ log \in Seq(Events)
    /\ time \in Nat
    /\ tx \in [Writers -> Txs]

LogInv ==
    /\ LogTypes
    /\ time <= MaxTime
    /\ Tells(log, record) /\ Plain(log, record)
    /\ OneWrites
    /\ \A w \in Writers : TxOK(w)

----------------------------------------------------------------------------
(* What a write appends *)

\* A log with a tail: what was there stays, at its place.
LEMMA TailAppended ==
    ASSUME NEW l \in Seq(Events), NEW new \in Seq(Events)
    PROVE  /\ l \o new \in Seq(Events)
           /\ DOMAIN l = 1 .. Len(l) /\ Len(l) \in Nat /\ Len(new) \in Nat
           /\ DOMAIN (l \o new) = 1 .. (Len(l) + Len(new))
           /\ Len(l \o new) = Len(l) + Len(new)
           /\ \A i \in DOMAIN l : i \in Nat /\ i <= Len(l) /\ (l \o new)[i] = l[i]
           /\ \A k \in 1 .. Len(new) : Len(l) + k \in DOMAIN (l \o new) /\ (l \o new)[Len(l) + k] = new[k]
           /\ \A i \in DOMAIN (l \o new) : i \in Nat /\
                 (i \notin DOMAIN l => i > Len(l) /\ i - Len(l) \in 1 .. Len(new)
                                       /\ (l \o new)[i] = new[i - Len(l)])
OBVIOUS

\* The changes of an update: one event a column that differs, from the copy.
LEMMA ChangesTellTheDiff ==
    ASSUME NEW t \in Txs, NEW before \in Records, NEW after \in Values
    PROVE  LET new == ChangesOf(t, before, after)
               changed == Diff(before, after)
           IN /\ new \in Seq(Events)
              /\ changed # {} => new # <<>>
              /\ \A k \in 1 .. Len(new) :
                    /\ new[k].kind = "changed" /\ new[k].actor = t.actor /\ new[k].at = t.at
                    /\ new[k].correlation = t.snapshot
                    /\ new[k].field \in changed
                    /\ new[k].old = Render(before[new[k].field])
                    /\ new[k].new = Render(after[new[k].field])
              /\ \A k, l \in 1 .. Len(new) : new[k].field = new[l].field => k = l
              /\ \A c \in changed : \E k \in 1 .. Len(new) : new[k].field = c
<1> DEFINE E(c) == Event(t, "changed", c, Render(before[c]), Render(after[c]))
<1> DEFINE changed == Diff(before, after)
<1>0. changed \in SUBSET Fields
  BY DEF Diff
<1>1. \A c \in Fields : E(c) \in Events
  BY DEF Event, Events, Records, Txs, Values, Fields, Render, NoText, Texts, EventKinds
<1>2. \A c \in Fields : /\ E(c).kind = "changed" /\ E(c).actor = t.actor /\ E(c).at = t.at
                        /\ E(c).correlation = t.snapshot /\ E(c).field = c
                        /\ E(c).old = Render(before[c]) /\ E(c).new = Render(after[c])
  BY DEF Event
<1>3. ChangesOf(t, before, after) =
          (IF "title" \in changed THEN <<E("title")>> ELSE <<>>)
          \o (IF "state" \in changed THEN <<E("state")>> ELSE <<>>)
          \o (IF "head" \in changed THEN <<E("head")>> ELSE <<>>)
  BY DEF ChangesOf
<1>4. \A c \in changed : c \in {"title", "state", "head"}
  BY <1>0 DEF Fields
<1> HIDE DEF E, changed
<1> SUFFICES LET new == ChangesOf(t, before, after)
             IN /\ new \in Seq(Events)
                /\ changed # {} => new # <<>>
                /\ \A k \in 1 .. Len(new) :
                      /\ new[k].kind = "changed" /\ new[k].actor = t.actor /\ new[k].at = t.at
                      /\ new[k].correlation = t.snapshot
                      /\ new[k].field \in changed
                      /\ new[k].old = Render(before[new[k].field])
                      /\ new[k].new = Render(after[new[k].field])
                /\ \A k, l \in 1 .. Len(new) : new[k].field = new[l].field => k = l
                /\ \A c \in changed : \E k \in 1 .. Len(new) : new[k].field = c
  BY DEF changed
<1>5. CASE "title" \in changed
  <2>1. CASE "state" \in changed
    BY <1>1, <1>2, <1>3, <1>4, <1>5, <2>1 DEF Fields
  <2>2. CASE "state" \notin changed
    BY <1>1, <1>2, <1>3, <1>4, <1>5, <2>2 DEF Fields
  <2> QED BY <2>1, <2>2
<1>6. CASE "title" \notin changed
  <2>1. CASE "state" \in changed
    BY <1>1, <1>2, <1>3, <1>4, <1>6, <2>1 DEF Fields
  <2>2. CASE "state" \notin changed
    <3>1. CASE "head" \in changed
      BY <1>1, <1>2, <1>3, <1>4, <1>6, <2>2, <3>1 DEF Fields
    <3>2. CASE "head" \notin changed
      <4>1. changed = {} /\ ChangesOf(t, before, after) = <<>>
        BY <1>3, <1>4, <1>6, <2>2, <3>2
      <4>2. <<>> \in Seq(Events) /\ 1 .. Len(<<>>) = {}
        OBVIOUS
      <4> QED BY <4>1, <4>2, Zenon
    <3> QED BY <3>1, <3>2
  <2> QED BY <2>1, <2>2
<1> QED BY <1>5, <1>6

\* A tail with no change of a column, of a row that is as it was or had none: what the
\* log tells stays, but for the interval, which is up to the caller.
LEMMA OtherEventTells ==
    ASSUME NEW l \in Seq(Events), NEW r \in Records, NEW s \in Records, Tells(l, r),
           NEW e \in Events, e.kind # "changed", s = r \/ l = <<>>, OnceAnInterval(l \o <<e>>)
    PROVE  /\ Tells(l \o <<e>>, s)
           /\ \A c \in Fields : LoggedIn(l \o <<e>>, c) = LoggedIn(l, c)
<1> DEFINE m == l \o <<e>>
<1>1. /\ m \in Seq(Events) /\ DOMAIN l = 1 .. Len(l) /\ Len(l) \in Nat
      /\ DOMAIN m = DOMAIN l \union {Len(l) + 1} /\ m[Len(l) + 1] = e
      /\ \A i \in DOMAIN l : m[i] = l[i]
  OBVIOUS
<1> HIDE DEF m
<1>2. \A i \in DOMAIN m : m[i].kind = "changed" => i \in DOMAIN l /\ m[i] = l[i]
  BY <1>1
<1>3. ASSUME NEW c \in Fields
      PROVE  LoggedIn(m, c) = LoggedIn(l, c)
  BY <1>1, <1>2 DEF LoggedIn
<1>4. \A c \in Fields : \A i \in LoggedIn(l, c) : i \in DOMAIN l /\ m[i] = l[i]
  BY <1>1 DEF LoggedIn
<1>5. \A c \in Fields : \A i, j : FollowsIn(m, c, i, j) => FollowsIn(l, c, i, j) /\ i \in DOMAIN l /\ j \in DOMAIN l
  BY <1>3, <1>4 DEF FollowsIn
<1>6. ChainsAcross(m)
  BY <1>1, <1>5 DEF Tells, ChainsAcross
<1>7. StartsWithin(m)
  <2> SUFFICES ASSUME NEW c \in Fields, NEW i \in DOMAIN m, NEW j \in DOMAIN m,
                      FollowsIn(m, c, i, j), m[i].correlation = m[j].correlation
               PROVE  \E k \in LoggedIn(m, c) : /\ k <= i /\ m[k].correlation = m[j].correlation
                                                /\ m[j].old \in {m[k].old, m[k].new}
    BY DEF StartsWithin
  <2>1. FollowsIn(l, c, i, j) /\ i \in DOMAIN l /\ j \in DOMAIN l /\ m[i] = l[i] /\ m[j] = l[j]
    BY <1>1, <1>5
  <2>2. PICK k \in LoggedIn(l, c) : /\ k <= i /\ l[k].correlation = l[j].correlation
                                    /\ l[j].old \in {l[k].old, l[k].new}
    BY <2>1 DEF Tells, StartsWithin
  <2> QED BY <1>3, <1>4, <2>1, <2>2
<1>8. EndsAt(m, s)
  <2>1. CASE l = <<>>
    <3>1. DOMAIN l = {}
      BY <2>1
    <3> QED BY <1>3, <1>4, <3>1 DEF EndsAt
  <2>2. CASE s = r
    BY <1>3, <1>4, <2>2 DEF Tells, EndsAt
  <2> QED BY <2>1, <2>2
<1>9. FactsAndJudgements(m)
  BY <1>2 DEF Tells, FactsAndJudgements
<1> QED BY <1>3, <1>6, <1>7, <1>8, <1>9 DEF Tells, m

\* The changes of an update, logged after what its transaction saw: each starts from
\* what the row said before the transaction, or from a value it had within it.
LEMMA UpdateTells ==
    ASSUME NEW l \in Seq(Events), NEW r \in Records, NEW t \in Txs,
           NEW before \in Records, NEW after \in Values, NEW s \in Records,
           Tells(l, r), OwnAreLast(l, t.snapshot), t.snapshot <= Len(l),
           before.there, HadIn(l, r, t.snapshot, before),
           MayWrite(t.actor, Diff(before, after)), Diff(before, after) # {},
           \A c \in Fields : s[c] = IF c \in Diff(before, after) THEN after[c] ELSE r[c],
           s.updated = t.at
    PROVE  LET m == l \o ChangesOf(t, before, after)
           IN /\ Tells(m, s)
              /\ OwnAreLast(m, t.snapshot)
              /\ \A copy \in Records : HadIn(l, r, t.snapshot, copy) => HadIn(m, s, t.snapshot, copy)
              /\ \A copy \in Records :
                    (\A c \in Fields : copy[c] = after[c]) => HadIn(m, s, t.snapshot, copy)
<1> DEFINE new == ChangesOf(t, before, after)
           m == l \o new
           changed == Diff(before, after)
           id == t.snapshot
           Added == DOMAIN m \ DOMAIN l
<1>0. changed \in SUBSET Fields /\ id \in Nat
  BY DEF Diff, Txs
<1>1. /\ new \in Seq(Events) /\ new # <<>>
      /\ \A k \in 1 .. Len(new) :
            /\ new[k].kind = "changed" /\ new[k].actor = t.actor /\ new[k].at = t.at
            /\ new[k].correlation = id
            /\ new[k].field \in changed
            /\ new[k].old = Render(before[new[k].field])
            /\ new[k].new = Render(after[new[k].field])
      /\ \A k, j \in 1 .. Len(new) : new[k].field = new[j].field => k = j
      /\ \A c \in changed : \E k \in 1 .. Len(new) : new[k].field = c
  BY ChangesTellTheDiff
<1> HIDE DEF new
<1>2. /\ m \in Seq(Events) /\ DOMAIN l = 1 .. Len(l) /\ Len(l) \in Nat /\ Len(new) \in Nat
      /\ DOMAIN m = 1 .. (Len(l) + Len(new))
      /\ \A i \in DOMAIN l : i \in Nat /\ i <= Len(l) /\ m[i] = l[i] /\ i \in DOMAIN m
      /\ \A k \in 1 .. Len(new) : Len(l) + k \in DOMAIN m /\ m[Len(l) + k] = new[k]
      /\ \A i \in Added : i \in Nat /\ i > Len(l) /\ i - Len(l) \in 1 .. Len(new) /\ m[i] = new[i - Len(l)]
      /\ DOMAIN m = DOMAIN l \union Added
  BY <1>1, TailAppended
<1> HIDE DEF m
<1>3. /\ \A i \in Added : /\ m[i].kind = "changed" /\ m[i].actor = t.actor /\ m[i].at = t.at
                          /\ m[i].correlation = id /\ m[i].field \in changed
                          /\ m[i].old = Render(before[m[i].field])
                          /\ m[i].new = Render(after[m[i].field])
      /\ \A i, j \in Added : m[i].field = m[j].field => i = j
      /\ \A i \in Added : i \in Nat /\ i > Len(l)
      /\ \A i \in DOMAIN l : i \in Nat /\ i <= Len(l)
  <2>1. \A i, j \in Added : m[i].field = m[j].field => i = j
    <3> SUFFICES ASSUME NEW i \in Added, NEW j \in Added, m[i].field = m[j].field
                 PROVE  i = j
      OBVIOUS
    <3> DEFINE p == i - Len(l)
               q == j - Len(l)
    <3>0. p \in 1 .. Len(new) /\ q \in 1 .. Len(new) /\ m[i] = new[p] /\ m[j] = new[q]
      BY <1>2
    <3> HIDE DEF p, q
    <3>3. p = q
      BY <1>1, <3>0
    <3>1. i - Len(l) = j - Len(l)
      BY <3>3 DEF p, q
    <3>2. i \in Nat /\ j \in Nat /\ Len(l) \in Nat
      BY <1>2
    <3> QED BY <3>1, <3>2
  <2>2. ASSUME NEW i \in Added
        PROVE  /\ m[i].kind = "changed" /\ m[i].actor = t.actor /\ m[i].at = t.at
               /\ m[i].correlation = id /\ m[i].field \in changed
               /\ m[i].old = Render(before[m[i].field])
               /\ m[i].new = Render(after[m[i].field])
    <3>1. i - Len(l) \in 1 .. Len(new) /\ m[i] = new[i - Len(l)]
      BY <1>2
    <3> QED BY <1>1, <3>1
  <2> QED BY <1>2, <2>1, <2>2
<1>4. \A c \in changed : \E i \in Added : m[i].field = c
  <2> SUFFICES ASSUME NEW c \in changed
               PROVE  \E i \in Added : m[i].field = c
    OBVIOUS
  <2>1. PICK k \in 1 .. Len(new) : new[k].field = c
    BY <1>1
  <2>2. Len(l) + k \in Added
    BY <1>2
  <2> QED BY <1>2, <2>1, <2>2
<1>5. Added # {}
  BY <1>4
<1>6. DOMAIN m = DOMAIN l \union Added /\ \A i \in DOMAIN l : m[i] = l[i]
  BY <1>2
<1> HIDE DEF Added, id, changed
<1>7. ASSUME NEW c \in Fields
      PROVE  /\ LoggedIn(m, c) = LoggedIn(l, c) \union {i \in Added : m[i].field = c}
             /\ \A i \in LoggedIn(l, c) : i \in DOMAIN l /\ m[i] = l[i] /\ i \in Nat /\ i <= Len(l)
             /\ \A i \in Added : m[i].field = c => c \in changed /\ i \in Nat /\ i > Len(l)
             /\ c \in changed => \E i \in Added : m[i].field = c
  BY <1>3, <1>4, <1>6 DEF LoggedIn
\* What comes before a new change of a column is its last change so far.
<1>8. ASSUME NEW c \in Fields, NEW i \in DOMAIN m, NEW j \in DOMAIN m, FollowsIn(m, c, i, j)
      PROVE  \/ FollowsIn(l, c, i, j) /\ {i, j} \subseteq DOMAIN l
             \/ /\ j \in Added /\ m[j].field = c /\ c \in changed
                /\ i \in LoggedIn(l, c) /\ \A k \in LoggedIn(l, c) : k <= i
  <2>1. /\ i \in LoggedIn(m, c) /\ j \in LoggedIn(m, c) /\ i < j
        /\ \A k \in LoggedIn(m, c) : k <= i \/ j <= k
    BY <1>8 DEF FollowsIn
  <2>2. CASE j \in LoggedIn(l, c)
    <3>1. i \in LoggedIn(l, c)
      BY <1>2, <1>7, <2>1, <2>2
    <3>2. \A k \in LoggedIn(l, c) : k <= i \/ j <= k
      BY <1>7, <2>1
    <3> QED BY <1>7, <2>1, <2>2, <3>1, <3>2 DEF FollowsIn
  <2>3. CASE j \in Added /\ m[j].field = c
    <3>1. i \in LoggedIn(l, c)
      BY <1>3, <1>7, <2>1, <2>3
    <3>2. ASSUME NEW k \in LoggedIn(l, c)
          PROVE  k <= i
      <4>1. k \in LoggedIn(m, c) /\ k \in Nat /\ j \in Nat /\ k <= Len(l) /\ j > Len(l) /\ Len(l) \in Nat
        BY <1>2, <1>7, <2>3
      <4> QED BY <2>1, <4>1
    <3> QED BY <1>7, <2>3, <3>1, <3>2
  <2> QED BY <1>7, <2>1, <2>2, <2>3
\* The last change so far of a column the copy has from before the transaction.
<1>9. ASSUME NEW c \in Fields, NEW i \in LoggedIn(l, c), \A k \in LoggedIn(l, c) : k <= i
      PROVE  /\ l[i].correlation # id => l[i].new = Render(before[c])
             /\ l[i].correlation = id => \E k \in LoggedIn(l, c) :
                   /\ l[k].correlation = id /\ k <= i
                   /\ Render(before[c]) \in {l[k].old, l[k].new}
  <2>1. \/ /\ \A k \in LoggedIn(l, c) : l[k].correlation # id
           /\ Render(before[c]) = Render(r[c])
        \/ \E k \in LoggedIn(l, c) : /\ l[k].correlation = id
                                     /\ Render(before[c]) \in {l[k].old, l[k].new}
    BY DEF HadIn, id
  <2>2. Render(r[c]) = l[i].new
    BY <1>9 DEF Tells, EndsAt
  <2>3. ASSUME NEW k \in LoggedIn(l, c), l[k].correlation = id
        PROVE  l[i].correlation = id /\ k <= i
    <3>1. k <= i /\ k \in DOMAIN l /\ i \in DOMAIN l /\ k \in Nat /\ i \in Nat /\ id \in Nat
      BY <1>0, <1>7, <1>9 DEF id
    <3>2. k > id
      BY <2>3, <3>1 DEF OwnAreLast, id
    <3>3. i > id
      BY <3>1, <3>2
    <3> QED BY <3>1, <3>3 DEF OwnAreLast, id
  <2> QED BY <2>1, <2>2, <2>3
<1>10. ChainsAcross(m)
  <2> SUFFICES ASSUME NEW c \in Fields, NEW i \in DOMAIN m, NEW j \in DOMAIN m,
                      FollowsIn(m, c, i, j), m[i].correlation # m[j].correlation
               PROVE  m[j].old = m[i].new
    BY DEF ChainsAcross
  <2>1. CASE FollowsIn(l, c, i, j) /\ {i, j} \subseteq DOMAIN l
    BY <1>6, <2>1 DEF Tells, ChainsAcross
  <2>2. CASE /\ j \in Added /\ m[j].field = c
             /\ i \in LoggedIn(l, c) /\ \A k \in LoggedIn(l, c) : k <= i
    BY <1>3, <1>7, <1>9, <2>2
  <2> QED BY <1>8, <2>1, <2>2
<1>11. StartsWithin(m)
  <2> SUFFICES ASSUME NEW c \in Fields, NEW i \in DOMAIN m, NEW j \in DOMAIN m,
                      FollowsIn(m, c, i, j), m[i].correlation = m[j].correlation
               PROVE  \E k \in LoggedIn(m, c) : /\ k <= i /\ m[k].correlation = m[j].correlation
                                                /\ m[j].old \in {m[k].old, m[k].new}
    BY DEF StartsWithin
  <2>1. CASE FollowsIn(l, c, i, j) /\ {i, j} \subseteq DOMAIN l
    <3>1. m[i] = l[i] /\ m[j] = l[j]
      BY <1>6, <2>1
    <3>2. PICK k \in LoggedIn(l, c) : /\ k <= i /\ l[k].correlation = l[j].correlation
                                      /\ l[j].old \in {l[k].old, l[k].new}
      BY <2>1, <3>1 DEF Tells, StartsWithin
    <3> QED BY <1>7, <3>1, <3>2
  <2>2. CASE /\ j \in Added /\ m[j].field = c
             /\ i \in LoggedIn(l, c) /\ \A k \in LoggedIn(l, c) : k <= i
    <3>1. m[j].correlation = id /\ m[j].old = Render(before[c]) /\ l[i].correlation = id
      BY <1>3, <1>7, <2>2
    <3>2. PICK k \in LoggedIn(l, c) : /\ l[k].correlation = id /\ k <= i
                                      /\ Render(before[c]) \in {l[k].old, l[k].new}
      BY <1>9, <2>2, <3>1
    <3> QED BY <1>7, <3>1, <3>2
  <2> QED BY <1>8, <2>1, <2>2
<1>12. EndsAt(m, s)
  <2> SUFFICES ASSUME NEW c \in Fields, NEW j \in LoggedIn(m, c)
               PROVE  /\ (\A k \in LoggedIn(m, c) : k <= j) => Render(s[c]) = m[j].new
                      /\ (\A d \in Fields : \A k \in LoggedIn(m, d) : k <= j) => s.updated = m[j].at
    BY DEF EndsAt
  <2>1. CASE j \in Added /\ m[j].field = c
    BY <1>3, <1>7, <2>1 DEF changed
  <2>2. CASE j \in LoggedIn(l, c)
    <3>1. ~(\A d \in Fields : \A k \in LoggedIn(m, d) : k <= j)
      <4>1. PICK k \in Added : TRUE
        BY <1>5
      <4>2. m[k].field \in Fields /\ m[k].field \in changed
        BY <1>0, <1>3 DEF changed
      <4>3. k \in LoggedIn(m, m[k].field)
        BY <1>7, <4>2
      <4>4. j \in Nat /\ k \in Nat /\ j <= Len(l) /\ k > Len(l) /\ Len(l) \in Nat
        BY <1>2, <1>3, <1>7, <2>2
      <4> QED BY <4>2, <4>3, <4>4
    <3>2. ASSUME \A k \in LoggedIn(m, c) : k <= j
          PROVE  Render(s[c]) = m[j].new
      <4>1. c \notin changed
        <5> SUFFICES ASSUME c \in changed PROVE FALSE
          OBVIOUS
        <5>1. PICK k \in Added : m[k].field = c
          BY <1>7
        <5>2. k \in LoggedIn(m, c) /\ k \in Nat /\ k > Len(l) /\ j <= Len(l) /\ j \in Nat /\ Len(l) \in Nat
          BY <1>2, <1>7, <2>2, <5>1
        <5> QED BY <3>2, <5>2
      <4>2. s[c] = r[c]
        BY <4>1 DEF changed
      <4>3. \A k \in LoggedIn(l, c) : k <= j
        BY <1>7, <3>2
      <4> QED BY <1>7, <2>2, <4>2, <4>3 DEF Tells, EndsAt
    <3> QED BY <3>1, <3>2
  <2> QED BY <1>7, <2>1, <2>2
<1>13. FactsAndJudgements(m)
  <2>1. \A c \in changed : c \in Fields /\ KindOf(c) = WritesOf(t.actor)
    BY <1>0 DEF MayWrite, changed
  <2>2. \A i \in Added : m[i].actor = "sync:github" <=> m[i].field # "title"
    BY <1>3, <2>1 DEF KindOf, WritesOf, Txs, Actors, Fields
  <2> QED BY <1>6, <2>2 DEF Tells, FactsAndJudgements
<1>14. OnceAnInterval(m)
  <2>1. \A i \in DOMAIN m : m[i].kind = "standing" => i \in DOMAIN l
    BY <1>3, <1>6
  <2> QED BY <1>6, <2>1 DEF Tells, OnceAnInterval
<1>15. OwnAreLast(m, id)
  <2>1. \A i \in Added : m[i].correlation = id /\ i > id
    BY <1>0, <1>2, <1>3 DEF id
  <2> QED BY <1>6, <2>1 DEF OwnAreLast, id
<1>16. ASSUME NEW c \in Fields, c \in changed
       PROVE  \E k \in LoggedIn(m, c) : /\ m[k].correlation = id /\ m[k].old = Render(before[c])
                                        /\ m[k].new = Render(after[c])
  BY <1>3, <1>7, <1>16
<1>17. ASSUME NEW copy \in Records, HadIn(l, r, id, copy)
       PROVE  HadIn(m, s, id, copy)
  <2> SUFFICES ASSUME copy.there, NEW c \in Fields
               PROVE  \/ /\ \A k \in LoggedIn(m, c) : m[k].correlation # id
                         /\ Render(copy[c]) = Render(s[c])
                      \/ \E k \in LoggedIn(m, c) : /\ m[k].correlation = id
                                                   /\ Render(copy[c]) \in {m[k].old, m[k].new}
    BY DEF HadIn
  <2>1. CASE \E k \in LoggedIn(l, c) : /\ l[k].correlation = id
                                       /\ Render(copy[c]) \in {l[k].old, l[k].new}
    BY <1>7, <2>1
  <2>2. CASE /\ \A k \in LoggedIn(l, c) : l[k].correlation # id
             /\ Render(copy[c]) = Render(r[c])
    <3>1. CASE c \in changed
      <4>1. Render(before[c]) = Render(r[c])
        BY <2>2 DEF HadIn, id
      <4> QED BY <1>16, <2>2, <3>1, <4>1
    <3>2. CASE c \notin changed
      BY <1>7, <2>2, <3>2 DEF changed
    <3> QED BY <3>1, <3>2
  <2> QED BY <1>17, <2>1, <2>2 DEF HadIn
<1>18. ASSUME NEW copy \in Records, \A c \in Fields : copy[c] = after[c]
       PROVE  HadIn(m, s, id, copy)
  <2> SUFFICES ASSUME NEW c \in Fields
               PROVE  \/ /\ \A k \in LoggedIn(m, c) : m[k].correlation # id
                         /\ Render(copy[c]) = Render(s[c])
                      \/ \E k \in LoggedIn(m, c) : /\ m[k].correlation = id
                                                   /\ Render(copy[c]) \in {m[k].old, m[k].new}
    BY DEF HadIn
  <2>1. CASE c \in changed
    BY <1>16, <1>18, <2>1
  <2>2. CASE c \notin changed
    <3>1. Render(copy[c]) = Render(before[c])
      BY <1>18, <2>2 DEF changed, Diff
    <3>2. HadIn(m, s, id, before)
      BY <1>17 DEF id
    <3> QED BY <3>1, <3>2 DEF HadIn
  <2> QED BY <2>1, <2>2
<1> QED BY <1>10, <1>11, <1>12, <1>13, <1>14, <1>15, <1>17, <1>18 DEF Tells, m, id, new

----------------------------------------------------------------------------
(* The steps *)

\* A tail of a tail.
LEMMA ThreeParts ==
    ASSUME NEW a \in Seq(Events), NEW b \in Seq(Events), NEW c \in Seq(Events)
    PROVE  a \o (b \o c) = (a \o b) \o c
<1>1. b \o c \in Seq(Events) /\ a \o b \in Seq(Events) /\ a \o (b \o c) \in Seq(Events) /\ (a \o b) \o c \in Seq(Events)
  OBVIOUS
<1>2. Len(a \o (b \o c)) = Len((a \o b) \o c)
  BY <1>1
<1>3. \A i \in 1 .. Len((a \o b) \o c) : (a \o (b \o c))[i] = ((a \o b) \o c)[i]
  BY <1>1
<1> QED BY <1>1, <1>2, <1>3, SeqEqual

\* Events of transaction id, after what it saw.
LEMMA OwnEventsFollow ==
    ASSUME NEW l \in Seq(Events), NEW new \in Seq(Events), NEW id \in Nat, id <= Len(l),
           NEW r, NEW s, Plain(l, r), OwnAreLast(l, id), s.there, s.updated <= time,
           \A k \in 1 .. Len(new) : new[k].at <= time /\ new[k].correlation = id
    PROVE  Plain(l \o new, s) /\ OwnAreLast(l \o new, id)
<1> DEFINE m == l \o new
<1>1. /\ Len(l) \in Nat
      /\ \A i \in DOMAIN l : i \in Nat /\ m[i] = l[i]
      /\ \A i \in DOMAIN m : i \in Nat /\
            (i \notin DOMAIN l => i > Len(l) /\ i - Len(l) \in 1 .. Len(new) /\ m[i] = new[i - Len(l)])
  BY TailAppended
<1> HIDE DEF m
<1>2. ASSUME NEW i \in DOMAIN m
      PROVE  /\ m[i].at <= time /\ m[i].correlation < i
             /\ m[i].correlation = id <=> i > id
  <2>1. CASE i \in DOMAIN l
    BY <1>1, <2>1 DEF Plain, OwnAreLast
  <2>2. CASE i \notin DOMAIN l
    <3>1. i > Len(l) /\ i \in Nat /\ m[i].at <= time /\ m[i].correlation = id
      BY <1>1, <2>2
    <3> QED BY <1>1, <3>1
  <2> QED BY <2>1, <2>2
<1> QED BY <1>2 DEF Plain, OwnAreLast, m

\* One that may write sees the newest log, and is the only one that writes.
LEMMA WriterSees ==
    ASSUME LogInv, NEW w \in Writers, MayBegin(w) \/ tx[w].pc = "writing"
    PROVE  /\ tx[w] \in Txs /\ tx[w].snapshot = Len(log) /\ Sees(w)
           /\ Seen(w) \in Seq(Events) /\ Len(log) <= Len(Seen(w))
           /\ \A v \in Writers : tx[v].pc = "writing" => v = w
           /\ tx[w].at <= time
<1>1. tx[w] \in Txs /\ log \in Seq(Events) /\ TxOK(w)
  BY DEF LogInv, LogTypes
<1>2. tx[w].said \in Seq(Events)
  BY <1>1 DEF Txs
<1>3. Seen(w) \in Seq(Events) /\ Len(log) <= Len(Seen(w))
  <2>1. /\ log \o tx[w].said \in Seq(Events)
        /\ Len(log \o tx[w].said) = Len(log) + Len(tx[w].said)
        /\ Len(log) \in Nat /\ Len(tx[w].said) \in Nat
    BY <1>1, <1>2, TailAppended
  <2> QED BY <2>1 DEF Seen
<1> QED BY <1>1, <1>3 DEF TxOK, MayBegin, LogInv, OneWrites

\* A write whose events tell the row it leaves, and whose copies the transaction had.
LEMMA WriteKeeps ==
    ASSUME LogInv, NEW w \in Writers, NEW saved \in Records, NEW copies \in SUBSET Records,
           NEW added \in Seq(Events), added # <<>>, saved.there, Write(w, saved, copies, added),
           Tells(Seen(w) \o added, saved), saved.updated <= time,
           \A k \in 1 .. Len(added) :
               added[k].at <= time /\ added[k].correlation = tx[w].snapshot,
           \A copy \in tx[w].copies \union copies :
               HadIn(Seen(w) \o added, saved, tx[w].snapshot, copy)
    PROVE  LogInv'
<1> DEFINE t == [tx[w] EXCEPT !.pc = "writing", !.row = saved,
                              !.copies = @ \union copies, !.said = @ \o added]
<1>1. /\ tx[w] \in Txs /\ tx[w].snapshot = Len(log) /\ Sees(w)
      /\ Seen(w) \in Seq(Events) /\ Len(log) <= Len(Seen(w))
      /\ \A v \in Writers : tx[v].pc = "writing" => v = w
      /\ tx[w].at <= time
  <2>1. MayBegin(w) \/ tx[w].pc = "writing"
    BY DEF Write
  <2> QED BY <2>1, WriterSees, Zenon
<1>2. /\ tx' = [tx EXCEPT ![w] = t] /\ UNCHANGED <<record, log, time>>
      /\ tx \in [Writers -> Txs] /\ log \in Seq(Events)
  BY DEF Write, LogInv, LogTypes
<1>3. tx[w].said \o added \in Seq(Events) /\ tx[w].said \o added # <<>>
  <2>1. tx[w].said \in Seq(Events)
    BY <1>1 DEF Txs
  <2>2. /\ tx[w].said \o added \in Seq(Events)
        /\ Len(tx[w].said \o added) = Len(tx[w].said) + Len(added)
        /\ Len(tx[w].said) \in Nat /\ Len(added) \in Nat
    BY <2>1, TailAppended
  <2>3. Len(added) > 0
    OBVIOUS
  <2>4. Len(tx[w].said \o added) # 0 /\ Len(<<>>) = 0
    BY <2>2, <2>3
  <2> QED BY <2>2, <2>4, Zenon
<1>4. /\ t \in Txs /\ t.pc = "writing" /\ t.row = saved /\ t.copies = tx[w].copies \union copies
      /\ t.said = tx[w].said \o added /\ t.snapshot = Len(log) /\ t.at = tx[w].at
  BY <1>1, <1>3 DEF Txs
<1> HIDE DEF t
<1>5. tx'[w] = t /\ \A v \in Writers : v # w => tx'[v] = tx[v]
  BY <1>2
<1>6. Seen(w)' = Seen(w) \o added
  <2>1. tx[w].said \in Seq(Events)
    BY <1>1 DEF Txs
  <2>2. log \o (tx[w].said \o added) = (log \o tx[w].said) \o added
    BY <1>1, <1>2, <2>1, ThreeParts
  <2> QED BY <1>2, <1>4, <1>5, <2>2 DEF Seen
<1>7. Plain(Seen(w) \o added, saved) /\ OwnAreLast(Seen(w) \o added, tx[w].snapshot)
  <2> DEFINE l == Seen(w)
             r == tx[w].row
             id == tx[w].snapshot
  <2>1. /\ id \in Nat /\ id <= Len(l) /\ l \in Seq(Events)
        /\ Plain(l, r) /\ OwnAreLast(l, id)
        /\ \A k \in 1 .. Len(added) : added[k].at <= time /\ added[k].correlation = id
    BY <1>1 DEF Txs, Sees
  <2> HIDE DEF l, r, id
  <2>2. Plain(l \o added, saved) /\ OwnAreLast(l \o added, id)
    BY <2>1, OwnEventsFollow
  <2> QED BY <2>2 DEF l, id
<1>8. Sees(w)'
  <2>2. \A copy \in tx'[w].copies : HadIn(Seen(w)', tx'[w].row, tx'[w].snapshot, copy)
    BY <1>1, <1>4, <1>5, <1>6
  <2>3. Tells(Seen(w)', tx'[w].row) /\ OwnAreLast(Seen(w)', tx'[w].snapshot)
    BY <1>1, <1>4, <1>5, <1>6, <1>7
  <2>4. Plain(Seen(w), tx[w].row)'
    BY <1>2, <1>4, <1>5, <1>6, <1>7 DEF Plain
  <2> QED BY <1>4, <1>5, <2>2, <2>3, <2>4 DEF Sees, Tells, OnceAnInterval, HadIn
<1>9. ASSUME NEW v \in Writers
      PROVE  TxOK(v)'
  <2>1. CASE v = w
    BY <1>1, <1>2, <1>3, <1>4, <1>5, <1>8, <2>1 DEF TxOK
  <2>2. CASE v # w
    <3>1. tx'[v] = tx[v] /\ log' = log /\ time' = time /\ Seen(v)' = Seen(v)
      BY <1>2, <1>5, <2>2 DEF Seen
    <3>2. TxOK(v)
      BY DEF LogInv
    <3> QED BY <3>1, <3>2 DEF TxOK, Sees, Plain, Tells, OnceAnInterval, HadIn
  <2> QED BY <2>1, <2>2
<1>10. OneWrites'
  BY <1>1, <1>5 DEF OneWrites
<1>11. LogTypes' /\ time' <= MaxTime /\ Plain(log, record)' /\ Tells(log, record)'
  BY <1>2, <1>4 DEF LogInv, LogTypes, Plain, Tells, OnceAnInterval
<1> QED BY <1>9, <1>10, <1>11 DEF LogInv

LEMMA UpdateKeeps ==
    ASSUME LogInv, NEW w \in Writers, NEW before \in tx[w].copies, NEW after \in Values,
           Update(w, before, after)
    PROVE  LogInv'
<1> DEFINE t == tx[w]
           l == Seen(w)
           r == tx[w].row
           s == [c \in DOMAIN Absent |->
                    CASE c \in Assigned(before, after) -> after[c]
                      [] c = "updated" -> tx[w].at
                      [] OTHER -> tx[w].row[c]]
           copy == Stamped(w, after)
           added == ChangesOf(tx[w], before, after)
<1>1. /\ before.there /\ Diff(before, after) # {} /\ MayWrite(t.actor, Diff(before, after))
      /\ Write(w, s, {copy}, added)
  BY Zenon DEF Update
<1>2. /\ t \in Txs /\ t.snapshot = Len(log) /\ Sees(w) /\ l \in Seq(Events) /\ Len(log) <= Len(l)
      /\ t.at <= time
  <2>1. MayBegin(w) \/ tx[w].pc = "writing"
    BY <1>1 DEF Write
  <2> QED BY <2>1, WriterSees
<1>3. /\ before \in Records /\ r \in Records /\ t.copies \subseteq Records /\ t.at \in Nat
      /\ HadIn(l, r, t.snapshot, before) /\ Tells(l, r) /\ OwnAreLast(l, t.snapshot)
      /\ \A c \in t.copies : HadIn(l, r, t.snapshot, c) /\ (c.there => r.there)
  BY <1>2 DEF Txs, Sees
<1>4. copy \in Records /\ \A c \in Fields : copy[c] = after[c]
  <2>1. copy = [title |-> after.title, state |-> after.state, head |-> after.head,
                updated |-> t.at, there |-> TRUE]
    BY DEF Stamped
  <2> HIDE DEF copy, t
  <2>2. /\ after.title \in {NoText, "", "text"} /\ after.state \in {"", "open"}
        /\ after.head \in {"", "sha"} /\ t.at \in Nat
    BY <1>3 DEF Values
  <2>3. copy \in Records
    BY <2>1, <2>2 DEF Records
  <2>4. \A c \in Fields : copy[c] = after[c]
    BY <2>1 DEF Fields
  <2> QED BY <2>3, <2>4
<1>5. /\ s \in Records /\ s.there /\ s.updated = t.at
      /\ \A c \in Fields : s[c] = IF c \in Diff(before, after) THEN after[c] ELSE r[c]
  <2>1. Diff(before, after) \subseteq Fields /\ Assigned(before, after) = Diff(before, after)
    BY DEF Diff, Assigned
  <2> DEFINE changed == Diff(before, after)
  <2>2. DOMAIN Absent = {"title", "state", "head", "updated", "there"}
    BY DEF Absent
  <2> HIDE DEF changed
  <2>3. s = [c \in {"title", "state", "head", "updated", "there"} |->
                CASE c \in changed -> after[c]
                  [] c = "updated" -> tx[w].at
                  [] OTHER -> tx[w].row[c]]
    BY <2>1, <2>2 DEF changed
  <2>4. changed \subseteq Fields /\ tx[w].row \in Records /\ tx[w].at \in Nat /\ tx[w].row.there
    BY <1>1, <1>3, <2>1 DEF changed
  <2> HIDE DEF s
  <2>5. /\ s.title = IF "title" \in changed THEN after.title ELSE r.title
        /\ s.state = IF "state" \in changed THEN after.state ELSE r.state
        /\ s.head = IF "head" \in changed THEN after.head ELSE r.head
        /\ s.updated = t.at /\ s.there = r.there
        /\ s = [title |-> s.title, state |-> s.state, head |-> s.head,
                updated |-> s.updated, there |-> s.there]
    BY <2>3, <2>4 DEF Fields
  <2>6. s \in Records
    BY <2>4, <2>5 DEF Records, Values
  <2> QED BY <2>4, <2>5, <2>6 DEF Fields, changed
<1>6. t.snapshot <= Len(l)
  BY <1>2
<1> DEFINE m == l \o added
<1>7. /\ Tells(m, s)
      /\ \A c \in Records : HadIn(l, r, t.snapshot, c) => HadIn(m, s, t.snapshot, c)
      /\ \A c \in Records : (\A f \in Fields : c[f] = after[f]) => HadIn(m, s, t.snapshot, c)
  <2> HIDE DEF s, l, r, t, copy
  <2> QED BY <1>1, <1>2, <1>3, <1>5, <1>6, UpdateTells DEF t
<1>8. /\ added \in Seq(Events) /\ added # <<>>
      /\ \A k \in 1 .. Len(added) : added[k].at = t.at /\ added[k].correlation = t.snapshot
  BY <1>1, <1>2, <1>3, ChangesTellTheDiff
<1>9. \A c \in t.copies \union {copy} : HadIn(m, s, t.snapshot, c)
  BY <1>3, <1>4, <1>7
<1> HIDE DEF s, copy, added
<1>10. {copy} \in SUBSET Records /\ s.updated <= time
  BY <1>2, <1>4, <1>5
<1> QED BY <1>1, <1>2, <1>5, <1>7, <1>8, <1>9, <1>10, WriteKeeps

\* A row whose log is empty has had no other value.
LEMMA NoChangeNoOther ==
    ASSUME NEW l, NEW m, NEW r, NEW s, NEW id, NEW copy,
           \A c \in Fields : LoggedIn(m, c) = LoggedIn(l, c),
           \A c \in Fields : \A k \in LoggedIn(l, c) : m[k] = l[k],
           HadIn(l, r, id, copy), s = r \/ ~copy.there
    PROVE  HadIn(m, s, id, copy)
BY DEF HadIn

\* Any other write appends one event that is no change of a column, to a row that stays
\* or was not there.
LEMMA OneEventKeeps ==
    ASSUME LogInv, NEW w \in Writers, NEW saved \in Records, NEW copies \in SUBSET {saved}, saved.there,
           NEW e \in Events, e.kind # "changed", e.at = tx[w].at, e.correlation = tx[w].snapshot,
           Write(w, saved, copies, <<e>>), saved.updated <= time,
           \/ saved = tx[w].row /\ copies = {}
           \/ ~tx[w].row.there,
           OnceAnInterval(Seen(w) \o <<e>>)
    PROVE  LogInv'
<1> DEFINE l == Seen(w)
           r == tx[w].row
           m == l \o <<e>>
           id == tx[w].snapshot
<1>1. /\ tx[w] \in Txs /\ id = Len(log) /\ Sees(w) /\ l \in Seq(Events) /\ tx[w].at <= time
  <2>1. MayBegin(w) \/ tx[w].pc = "writing"
    BY DEF Write
  <2> QED BY <2>1, WriterSees
<1>2. r \in Records /\ Tells(l, r) /\ (saved = r \/ l = <<>>) /\ tx[w].copies \subseteq Records
  BY <1>1 DEF Txs, Sees, Plain
<1>3. Tells(m, saved) /\ \A c \in Fields : LoggedIn(m, c) = LoggedIn(l, c)
  <2> HIDE DEF l, r
  <2>1. OnceAnInterval(m)
    BY DEF l
  <2> QED BY <1>1, <1>2, <2>1, OtherEventTells
<1>4. \A i \in DOMAIN l : m[i] = l[i]
  <2> HIDE DEF l
  <2> QED BY <1>1
<1>5. \A c \in Fields : \A k \in LoggedIn(l, c) : m[k] = l[k]
  BY <1>4 DEF LoggedIn
<1>6. ASSUME NEW copy \in tx[w].copies
      PROVE  HadIn(m, saved, id, copy)
  <2>1. HadIn(l, r, id, copy) /\ (copy.there => r.there)
    BY <1>1 DEF Sees
  <2>2. saved = r \/ ~copy.there
    BY <2>1
  <2> HIDE DEF l, m, r, id
  <2> QED BY <1>3, <1>5, <2>1, <2>2, NoChangeNoOther
<1>7. ASSUME NEW copy \in copies
      PROVE  HadIn(m, saved, id, copy)
  <2>1. copy = saved /\ l = <<>>
    BY <1>1 DEF Sees, Plain
  <2>2. \A c \in Fields : LoggedIn(l, c) = {}
    <3>1. DOMAIN l = {}
      BY <2>1
    <3> QED BY <3>1 DEF LoggedIn
  <2> QED BY <1>3, <2>1, <2>2 DEF HadIn
<1>8. <<e>> \in Seq(Events) /\ <<e>> # <<>> /\ \A k \in 1 .. Len(<<e>>) : <<e>>[k] = e
  OBVIOUS
<1>9. \A k \in 1 .. Len(<<e>>) : <<e>>[k].at <= time /\ <<e>>[k].correlation = id
  BY <1>1, <1>8
<1>10. copies \in SUBSET Records /\ \A copy \in tx[w].copies \union copies : HadIn(m, saved, id, copy)
  BY <1>6, <1>7
<1> QED BY <1>3, <1>8, <1>9, <1>10, WriteKeeps

\* An event of another kind than a standing condition is nothing to the interval.
LEMMA NotStandingTells ==
    ASSUME NEW l \in Seq(Events), NEW e \in Events, e.kind # "standing", OnceAnInterval(l)
    PROVE  OnceAnInterval(l \o <<e>>)
BY DEF OnceAnInterval

LEMMA OtherWritesKeep ==
    ASSUME LogAssumption, LogInv, NEW w \in Writers,
           (\E after \in Values : Insert(w, after)) \/ Annotate(w) \/ ExceptionOnce(w)
    PROVE  LogInv'
<1>1. /\ tx[w] \in Txs /\ tx[w].snapshot = Len(log) /\ Sees(w) /\ Seen(w) \in Seq(Events)
      /\ tx[w].at <= time
  <2>1. MayBegin(w) \/ tx[w].pc = "writing"
    BY DEF Insert, Annotate, ExceptionOnce, Write
  <2> QED BY <2>1, WriterSees
<1>2. tx[w].row \in Records /\ tx[w].at \in Nat /\ OnceAnInterval(Seen(w)) /\ tx[w].row.updated <= time
  BY <1>1 DEF Txs, Sees, Tells, Plain
<1>3. \A kind \in EventKinds :
          LET e == Event(tx[w], kind, "", "", "")
          IN e \in Events /\ e.kind = kind /\ e.at = tx[w].at /\ e.correlation = tx[w].snapshot
  BY <1>1 DEF Event, Events, Txs, Texts
<1>4. ASSUME NEW after \in Values, Insert(w, after)
      PROVE  LogInv'
  <2> DEFINE saved == Stamped(w, after)
             e == Event(tx[w], "created", "", "", "")
  <2>1. saved \in Records /\ saved.there /\ saved.updated = tx[w].at
    BY <1>2 DEF Stamped, Records, Values
  <2>2. ~tx[w].row.there /\ Write(w, saved, {saved}, <<e>>)
    BY <1>4, Zenon DEF Insert
  <2>3. e \in Events /\ e.kind = "created" /\ e.at = tx[w].at /\ e.correlation = tx[w].snapshot
    BY <1>3 DEF EventKinds
  <2> HIDE DEF saved, e
  <2>4. OnceAnInterval(Seen(w) \o <<e>>)
    BY <1>1, <1>2, <2>3, NotStandingTells
  <2>5. {saved} \in SUBSET {saved} /\ saved.updated <= time
    BY <1>1, <2>1
  <2> QED BY <2>1, <2>2, <2>3, <2>4, <2>5, OneEventKeeps
<1>5. CASE Annotate(w)
  <2> DEFINE saved == tx[w].row
             e == Event(tx[w], "note", "", "", "")
  <2>1. saved.there /\ Write(w, saved, {}, <<e>>)
    BY <1>5, Zenon DEF Annotate
  <2>2. e \in Events /\ e.kind = "note" /\ e.at = tx[w].at /\ e.correlation = tx[w].snapshot
    BY <1>3 DEF EventKinds
  <2> HIDE DEF e
  <2>3. OnceAnInterval(Seen(w) \o <<e>>)
    BY <1>1, <1>2, <2>2, NotStandingTells
  <2>4. {} \in SUBSET {saved}
    OBVIOUS
  <2> QED BY <1>2, <2>1, <2>2, <2>3, <2>4, OneEventKeeps
<1>6. CASE ExceptionOnce(w)
  <2> DEFINE saved == tx[w].row
             e == Event(tx[w], "standing", "", "", "")
             l == Seen(w)
             m == l \o <<e>>
  <2>1. saved.there /\ ~SaidRecently(w) /\ Write(w, saved, {}, <<e>>)
    BY <1>6, Zenon DEF ExceptionOnce
  <2>2. e \in Events /\ e.kind = "standing" /\ e.at = tx[w].at /\ e.correlation = tx[w].snapshot
    BY <1>3 DEF EventKinds
  <2>3. \A i \in DOMAIN l : l[i].kind = "standing" => l[i].at + ExceptionInterval < tx[w].at
    <3> SUFFICES ASSUME NEW i \in DOMAIN l, l[i].kind = "standing"
                 PROVE  l[i].at + ExceptionInterval < tx[w].at
      OBVIOUS
    <3>1. l[i] \in Events
      BY <1>1
    <3>2. l[i].at \in Nat /\ ExceptionInterval \in Nat
      BY <3>1 DEF Events, LogAssumption
    <3>3. ~(l[i].at + ExceptionInterval >= tx[w].at)
      BY <2>1 DEF SaidRecently
    <3> QED BY <1>2, <3>2, <3>3
  <2> HIDE DEF e
  <2>4. OnceAnInterval(m)
    <3> HIDE DEF l
    <3>1. /\ DOMAIN m = DOMAIN l \union {Len(l) + 1} /\ m[Len(l) + 1] = e /\ Len(l) \in Nat
          /\ \A i \in DOMAIN l : m[i] = l[i] /\ i \in Nat /\ i <= Len(l)
      BY <1>1, <2>2 DEF l
    <3> HIDE DEF m
    <3> QED BY <1>2, <2>2, <2>3, <3>1 DEF OnceAnInterval, l
  <2>5. {} \in SUBSET {saved}
    OBVIOUS
  <2> QED BY <1>2, <2>1, <2>2, <2>4, <2>5, OneEventKeeps
<1> QED BY <1>4, <1>5, <1>6

\* Beginning, reading and giving up write nothing.
LEMMA TxKeeps ==
    ASSUME LogInv, NEW w \in Writers, NEW t \in Txs, tx' = [tx EXCEPT ![w] = t],
           UNCHANGED <<record, log, time>>, TxOK(w)', t.pc = "writing" => tx[w].pc = "writing"
    PROVE  LogInv'
<1>1. tx \in [Writers -> Txs] /\ tx'[w] = t /\ \A v \in Writers : v # w => tx'[v] = tx[v]
  BY DEF LogInv, LogTypes
<1>2. ASSUME NEW v \in Writers, v # w
      PROVE  TxOK(v)'
  <2>1. tx'[v] = tx[v] /\ log' = log /\ time' = time /\ Seen(v)' = Seen(v)
    BY <1>1, <1>2 DEF Seen
  <2>2. TxOK(v)
    BY DEF LogInv
  <2> QED BY <2>1, <2>2 DEF TxOK, Sees, Plain, Tells, OnceAnInterval, HadIn
<1>3. OneWrites'
  BY <1>1 DEF LogInv, OneWrites
<1>4. LogTypes' /\ time' <= MaxTime /\ Plain(log, record)' /\ Tells(log, record)'
  BY <1>1 DEF LogInv, LogTypes, Plain, Tells, OnceAnInterval
<1> QED BY <1>2, <1>3, <1>4 DEF LogInv

LEMMA UnreadIsTx ==
    ASSUME NEW actor \in Actors, NEW at \in Nat, NEW pc \in {"none", "begun"}
    PROVE  /\ Unread(pc, actor, at) \in Txs
           /\ Unread(pc, actor, at).pc = pc /\ Unread(pc, actor, at).said = <<>>
           /\ Unread(pc, actor, at).snapshot = 0 /\ Unread(pc, actor, at).at = at
<1>1. <<>> \in Seq(Events) /\ {} \in SUBSET Records
  OBVIOUS
<1>2. Absent \in Records
  BY DEF Absent, Records, NoText
<1> QED BY <1>1, <1>2 DEF Unread, Txs

\* A transaction that is not there, or has not read, sees nothing.
LEMMA BlankTx ==
    ASSUME LogInv, NEW w \in Writers, NEW actor \in Actors, NEW at \in {0, time},
           NEW pc \in {"none", "begun"},
           tx' = [tx EXCEPT ![w] = Unread(pc, actor, at)],
           UNCHANGED <<record, log, time>>
    PROVE  LogInv'
<1> DEFINE t == Unread(pc, actor, at)
<1>1. time \in Nat /\ tx \in [Writers -> Txs] /\ Len(log) \in Nat
  BY DEF LogInv, LogTypes
<1>4. t \in Txs /\ t.pc = pc /\ t.said = <<>> /\ t.snapshot = 0 /\ t.at = at
  BY <1>1, UnreadIsTx
<1> HIDE DEF t
<1>5. tx'[w] = t
  BY <1>1 DEF t
<1>6. TxOK(w)'
  BY <1>1, <1>4, <1>5 DEF TxOK
<1> QED BY <1>4, <1>6, TxKeeps DEF t

LEMMA LoadKeeps ==
    ASSUME LogInv, NEW w \in Writers, LoadRecord(w)
    PROVE  LogInv'
<1>1. /\ time \in Nat /\ tx \in [Writers -> Txs] /\ Len(log) \in Nat /\ tx[w] \in Txs /\ record \in Records
      /\ log \in Seq(Events) /\ TxOK(w) /\ UNCHANGED <<record, log, time>>
  BY DEF LogInv, LogTypes, LoadRecord
<1>2. CASE /\ tx[w].pc = "begun"
           /\ tx' = [tx EXCEPT ![w].pc = "reading", ![w].snapshot = Len(log),
                               ![w].row = record, ![w].copies = {record}]
  <2> DEFINE t == [tx[w] EXCEPT !.pc = "reading", !.snapshot = Len(log), !.row = record,
                                !.copies = {record}]
  <2>1. /\ t \in Txs /\ t.pc = "reading" /\ t.snapshot = Len(log) /\ t.row = record
        /\ t.copies = {record} /\ t.said = tx[w].said /\ t.at = tx[w].at
    BY <1>1 DEF Txs
  <2>2. tx' = [tx EXCEPT ![w] = t]
    BY <1>1, <1>2
  <2> HIDE DEF t
  <2>3. tx'[w] = t
    BY <1>1, <2>2
  <2>4. tx[w].said = <<>>
    BY <1>1, <1>2 DEF TxOK
  <2>5. Seen(w)' = log
    BY <1>1, <2>1, <2>3, <2>4 DEF Seen
  <2>6. OwnAreLast(log, Len(log))
    <3> SUFFICES ASSUME NEW i \in DOMAIN log
                 PROVE  log[i].correlation = Len(log) <=> i > Len(log)
      BY DEF OwnAreLast
    <3>1. log[i].correlation < i /\ i \in 1 .. Len(log) /\ log[i] \in Events
      BY <1>1 DEF LogInv, Plain
    <3>2. log[i].correlation \in Nat
      BY <3>1 DEF Events
    <3> QED BY <1>1, <3>1, <3>2
  <2>7. HadIn(log, record, Len(log), record)
    <3> SUFFICES ASSUME NEW c \in Fields, NEW k \in LoggedIn(log, c)
                 PROVE  log[k].correlation # Len(log)
      BY DEF HadIn
    <3>1. k \in 1 .. Len(log)
      BY <1>1 DEF LoggedIn
    <3> QED BY <1>1, <2>6, <3>1 DEF OwnAreLast
  <2>8. Tells(log, record) /\ Plain(log, record)
    BY DEF LogInv
  <2>9. Sees(w)'
    BY <1>1, <2>1, <2>3, <2>5, <2>6, <2>7, <2>8 DEF Sees, Tells, Plain, OnceAnInterval
  <2>10. TxOK(w)'
    BY <1>1, <2>1, <2>3, <2>4, <2>9 DEF TxOK
  <2> QED BY <1>1, <2>1, <2>2, <2>10, TxKeeps
<1>3. CASE /\ tx[w].pc \in {"reading", "writing"}
           /\ tx' = [tx EXCEPT ![w].copies = @ \union {tx[w].row}]
  <2> DEFINE t == [tx[w] EXCEPT !.copies = @ \union {tx[w].row}]
  <2>1. /\ t \in Txs /\ t.pc = tx[w].pc /\ t.snapshot = tx[w].snapshot /\ t.row = tx[w].row
        /\ t.copies = tx[w].copies \union {tx[w].row} /\ t.said = tx[w].said /\ t.at = tx[w].at
    BY <1>1 DEF Txs
  <2>2. tx' = [tx EXCEPT ![w] = t]
    BY <1>1, <1>3
  <2> HIDE DEF t
  <2>3. tx'[w] = t
    BY <1>1, <2>2
  <2>4. Seen(w)' = Seen(w)
    BY <1>1, <2>1, <2>3 DEF Seen
  <2>5. ASSUME tx[w].snapshot = Len(log)
        PROVE  Sees(w)'
    <3>1. Sees(w)
      BY <1>1, <1>3, <2>5 DEF TxOK
    <3> DEFINE l == Seen(w)
               r == tx[w].row
               id == tx[w].snapshot
    <3>2. HadIn(l, r, id, r)
      <4> SUFFICES ASSUME NEW c \in Fields
                   PROVE  \/ /\ \A k \in LoggedIn(l, c) : l[k].correlation # id
                             /\ Render(r[c]) = Render(r[c])
                          \/ \E k \in LoggedIn(l, c) : /\ l[k].correlation = id
                                                       /\ Render(r[c]) \in {l[k].old, l[k].new}
        BY DEF HadIn
      <4>1. ASSUME NEW k \in LoggedIn(l, c), l[k].correlation = id
            PROVE  \E j \in LoggedIn(l, c) : /\ l[j].correlation = id
                                             /\ Render(r[c]) \in {l[j].old, l[j].new}
        <5>1. l \in Seq(Events) /\ id \in Nat /\ Tells(l, r) /\ OwnAreLast(l, id)
          <6>1. tx[w].said \in Seq(Events)
            BY <1>1 DEF Txs
          <6>2. l \in Seq(Events)
            BY <1>1, <6>1, TailAppended DEF Seen
          <6> QED BY <1>1, <3>1, <6>2 DEF Sees, Txs
        <5> HIDE DEF l, r, id
        <5>2. LoggedIn(l, c) \subseteq 1 .. Len(l) /\ Len(l) \in Nat
          BY <5>1 DEF LoggedIn
        <5>3. LoggedIn(l, c) \subseteq -Len(l) .. Len(l) /\ LoggedIn(l, c) # {}
          BY <4>1, <5>2
        <5>4. PICK j \in LoggedIn(l, c) : \A i \in LoggedIn(l, c) : i <= j
          BY <5>2, <5>3, EndsOfASet
        <5>5. j \in DOMAIN l /\ k \in DOMAIN l /\ k <= j /\ k \in Nat /\ j \in Nat
          BY <4>1, <5>2, <5>4 DEF LoggedIn
        <5>6. k > id
          BY <4>1, <5>1, <5>5 DEF OwnAreLast
        <5>7. l[j].correlation = id
          BY <5>1, <5>5, <5>6 DEF OwnAreLast
        <5>8. Render(r[c]) = l[j].new
          BY <5>1, <5>4 DEF Tells, EndsAt
        <5> QED BY <5>4, <5>7, <5>8
      <4> QED BY <4>1
    <3> QED BY <1>1, <2>1, <2>3, <2>4, <3>1, <3>2 DEF Sees, Tells, Plain, OnceAnInterval, HadIn
  <2>6. TxOK(w)'
    BY <1>1, <2>1, <2>3, <2>5 DEF TxOK
  <2> QED BY <1>1, <2>1, <2>2, <2>6, TxKeeps
<1> QED BY <1>2, <1>3 DEF LoadRecord

\* A commit makes every other snapshot an old one.
LEMMA CommitKeeps ==
    ASSUME LogInv, NEW w \in Writers, Commit(w)
    PROVE  LogInv'
<1>1. /\ tx[w] \in Txs /\ tx \in [Writers -> Txs] /\ log \in Seq(Events) /\ time \in Nat
      /\ TxOK(w) /\ tx[w].pc = "writing"
      /\ record' = tx[w].row /\ log' = Seen(w) /\ tx' = [tx EXCEPT ![w] = NoTx] /\ time' = time
  BY DEF LogInv, LogTypes, Commit, Seen
<1>2. Sees(w) /\ tx[w].said # <<>> /\ tx[w].said \in Seq(Events) /\ tx[w].row \in Records
  BY <1>1 DEF TxOK, Txs
<1>3. log' \in Seq(Events) /\ Len(log') > Len(log) /\ Len(log) \in Nat /\ Len(log') \in Nat
  <2>1. /\ log \o tx[w].said \in Seq(Events)
        /\ Len(log \o tx[w].said) = Len(log) + Len(tx[w].said)
        /\ Len(log) \in Nat /\ Len(tx[w].said) \in Nat
    BY <1>1, <1>2, TailAppended
  <2>2. Len(tx[w].said) > 0
    BY <1>2
  <2> QED BY <1>1, <2>1, <2>2 DEF Seen
<1>4. Tells(log', record') /\ Plain(log', record')
  BY <1>1, <1>2 DEF Sees
<1>5. /\ <<>> \in Seq(Events) /\ NoTx \in Txs /\ NoTx.pc = "none" /\ NoTx.snapshot = 0
      /\ NoTx.at = 0 /\ NoTx.said = <<>>
  BY UnreadIsTx DEF NoTx, Actors
<1>6. ASSUME NEW v \in Writers
      PROVE  TxOK(v)'
  <2>1. CASE v = w
    <3>1. tx'[v] = NoTx
      BY <1>1, <2>1
    <3> QED BY <1>1, <1>3, <1>5, <3>1 DEF TxOK
  <2>2. CASE v # w
    <3>1. tx'[v] = tx[v] /\ TxOK(v) /\ tx[v] \in Txs
      BY <1>1, <2>2 DEF LogInv
    <3>2. tx[v].pc # "writing"
      BY <1>1, <2>2 DEF LogInv, OneWrites
    <3>3. tx[v].snapshot \in Nat /\ tx[v].snapshot <= Len(log)
      BY <3>1 DEF TxOK, Txs
    <3>4. tx[v].snapshot # Len(log') /\ tx[v].snapshot <= Len(log')
      BY <1>3, <3>3
    <3> QED BY <1>1, <3>1, <3>2, <3>4 DEF TxOK
  <2> QED BY <2>1, <2>2
<1>7. OneWrites'
  BY <1>1, <1>5 DEF LogInv, OneWrites
<1>8. LogTypes' /\ time' <= MaxTime
  BY <1>1, <1>2, <1>3, <1>5 DEF LogInv, LogTypes
<1>9. Tells(log, record)' /\ Plain(log, record)'
  BY <1>1, <1>4 DEF Tells, Plain, OnceAnInterval
<1> QED BY <1>6, <1>7, <1>8, <1>9 DEF LogInv

LEMMA TimeKeeps ==
    ASSUME LogAssumption, LogInv, TimePasses
    PROVE  LogInv'
<1>1. /\ time \in Nat /\ MaxTime \in Nat /\ tx \in [Writers -> Txs] /\ log \in Seq(Events)
      /\ record \in Records
  BY DEF LogInv, LogTypes, LogAssumption
<1>2. /\ time' = time + 1 /\ time' <= MaxTime /\ time' \in Nat
      /\ UNCHANGED <<record, log, tx>>
  BY <1>1 DEF TimePasses
<1>3. \A l, r : l \in Seq(Events) /\ r \in Records /\ Plain(l, r) => Plain(l, r)'
  <2> SUFFICES ASSUME NEW l \in Seq(Events), NEW r \in Records, Plain(l, r)
               PROVE  /\ ~r.there => r = Absent /\ l = <<>>
                      /\ r.updated <= time'
                      /\ \A i \in DOMAIN l : l[i].at <= time' /\ l[i].correlation < i
    BY DEF Plain
  <2>1. \A i \in DOMAIN l : l[i] \in Events
    OBVIOUS
  <2>2. r.updated \in Nat /\ \A i \in DOMAIN l : l[i].at \in Nat
    BY <2>1 DEF Records, Events
  <2> QED BY <1>1, <1>2, <2>2 DEF Plain
<1>4. ASSUME NEW w \in Writers
      PROVE  TxOK(w)'
  <2>1. TxOK(w) /\ tx[w] \in Txs /\ Seen(w)' = Seen(w)
    BY <1>1, <1>2 DEF LogInv, Seen
  <2>2. Seen(w) \in Seq(Events) /\ tx[w].row \in Records /\ tx[w].at \in Nat
    <3>1. tx[w].said \in Seq(Events)
      BY <2>1 DEF Txs
    <3> QED BY <1>1, <2>1, <3>1, TailAppended DEF Seen, Txs
  <2>3. Sees(w) => Sees(w)'
    <3> SUFFICES ASSUME Sees(w) PROVE Sees(w)'
      OBVIOUS
    <3>1. Plain(Seen(w), tx[w].row)'
      BY <1>2, <1>3, <2>1, <2>2 DEF Sees, Plain
    <3> QED BY <1>2, <2>1, <3>1 DEF Sees, Tells, OnceAnInterval, HadIn
  <2> QED BY <1>1, <1>2, <2>1, <2>2, <2>3 DEF TxOK
<1>5. Plain(log, record)' /\ Tells(log, record)'
  BY <1>1, <1>2, <1>3 DEF LogInv, Tells, Plain, OnceAnInterval
<1> QED BY <1>1, <1>2, <1>4, <1>5 DEF LogInv, LogTypes, OneWrites

LEMMA StutterKeeps ==
    ASSUME LogInv, UNCHANGED logVars
    PROVE  LogInv'
<1>1. record' = record /\ log' = log /\ time' = time /\ tx' = tx /\ \A w \in Writers : Seen(w)' = Seen(w)
  BY DEF logVars, Seen
<1> QED BY <1>1 DEF LogInv, LogTypes, OneWrites, TxOK, Sees, Tells, Plain, OnceAnInterval, HadIn

LEMMA LogInvHolds ==
    ASSUME LogAssumption
    PROVE  LogSpec => []LogInv
<1>1. LogInit => LogInv
  <2> SUFFICES ASSUME LogInit PROVE LogInv
    OBVIOUS
  <2>1. <<>> \in Seq(Events) /\ Absent \in Records /\ {} \in SUBSET Records
    BY DEF Absent, Records, NoText
  <2>2. NoTx \in Txs /\ NoTx.pc = "none" /\ NoTx.snapshot = 0 /\ NoTx.at = 0 /\ NoTx.said = <<>>
    BY UnreadIsTx DEF NoTx, Actors
  <2>3. record \in Records /\ record.updated = 0 /\ (~record.there => record = Absent)
    <3>1. CASE record = Absent
      BY <2>1, <3>1 DEF Absent
    <3>2. CASE record = [Absent EXCEPT !.there = TRUE]
      <4>1. record = [title |-> NoText, state |-> "", head |-> "", updated |-> 0, there |-> TRUE]
        BY <3>2 DEF Absent
      <4> QED BY <4>1 DEF Records, NoText
    <3> QED BY <3>1, <3>2 DEF LogInit
  <2>4. /\ log = <<>> /\ DOMAIN log = {} /\ Len(log) = 0 /\ time = 0 /\ 0 <= MaxTime
        /\ \A w \in Writers : tx[w] = NoTx
    BY DEF LogInit, LogAssumption
  <2>5. LogTypes
    BY <2>1, <2>2, <2>3, <2>4 DEF LogInit, LogTypes
  <2>6. Plain(log, record)
    BY <2>3, <2>4 DEF Plain
  <2>7. Tells(log, record)
    BY <2>4 DEF Tells, ChainsAcross, StartsWithin, EndsAt, FactsAndJudgements, OnceAnInterval, LoggedIn
  <2>8. OneWrites /\ \A w \in Writers : TxOK(w)
    BY <2>2, <2>4 DEF OneWrites, TxOK
  <2> QED BY <2>4, <2>5, <2>6, <2>7, <2>8 DEF LogInv
<1>2. LogInv /\ [LogNext]_logVars => LogInv'
  <2> SUFFICES ASSUME LogInv, [LogNext]_logVars
               PROVE  LogInv'
    OBVIOUS
  <2>1. ASSUME NEW w \in Writers, NEW actor \in Actors, BeginTx(w, actor)
        PROVE  LogInv'
    <3>1. time \in {0, time} /\ "begun" \in {"none", "begun"}
      OBVIOUS
    <3> QED BY <2>1, <3>1, BlankTx DEF BeginTx
  <2>2. ASSUME NEW w \in Writers, Rollback(w)
        PROVE  LogInv'
    BY <2>2, BlankTx DEF Rollback, Actors, NoTx
  <2> QED BY <2>1, <2>2, LoadKeeps, CommitKeeps, OtherWritesKeep, UpdateKeeps, TimeKeeps, StutterKeeps
          DEF LogNext
<1> QED BY <1>1, <1>2, PTL DEF LogSpec

\* Whatever transactions run side by side, and however old within its transaction the
\* copy a write starts from: the changes of a column chain from one transaction to the
\* next and end at the row, facts are sync's and judgements a person's, and a standing
\* condition is reported once in an interval (store/tx.go, store/record.go,
\* store/exception.go).
THEOREM LogIsTheHistory ==
    ASSUME LogAssumption
    PROVE  LogSpec => []LogTellsTheRow
<1>1. LogInv => LogTellsTheRow
  <2> SUFFICES ASSUME LogInv PROVE LogTypeOK
    BY DEF LogInv, Tells, LogTellsTheRow
  <2>1. record \in Records /\ record.updated \in 0 .. MaxTime
    <3>1. record \in Records /\ record.updated \in Nat /\ time \in Nat /\ MaxTime \in Nat
      BY DEF LogInv, LogTypes, LogAssumption, Records
    <3>2. record.updated <= time /\ time <= MaxTime
      BY DEF LogInv, Plain
    <3> QED BY <3>1, <3>2
  <2>2. \A i \in DOMAIN log : log[i].at \in 0 .. time
    <3>1. time \in Nat /\ \A i \in DOMAIN log : log[i] \in Events
      BY DEF LogInv, LogTypes
    <3>2. \A i \in DOMAIN log : log[i].at \in Nat /\ log[i].at <= time
      BY <3>1 DEF Events, LogInv, Plain
    <3> QED BY <3>1, <3>2
  <2>3. \A w \in Writers : tx[w].snapshot <= Len(log) /\ tx[w].at <= time
    BY DEF LogInv, TxOK
  <2> QED BY <2>1, <2>2, <2>3 DEF LogInv, Plain, LogTypeOK, Records
<1> QED BY <1>1, LogInvHolds, PTL

----------------------------------------------------------------------------
(* The vocabulary: the ends of a set of numbers *)

\* The ends of the numbers given out, which lie within bounds.
LEMMA EndsOfNumbers ==
    ASSUME NEW K \in Nat, NEW S, S \subseteq -K .. K, S # {}
    PROVE  /\ Lowest(S) \in S /\ \A n \in S : Lowest(S) <= n
           /\ Top(S) \in S /\ \A n \in S : n <= Top(S)
BY EndsOfASet DEF Lowest, Top

----------------------------------------------------------------------------
(* The vocabulary: the inductive invariant *)

Verbs    == [there : BOOLEAN, active : BOOLEAN, closes : {Human} \union {d.closes : d \in Definitions},
             takes : SUBSET {"owner", "ref", "issue"}]
Lines    == [there : BOOLEAN, active : BOOLEAN, n : Int, steps : SUBSET Step]
Arrivals == [at : Nat, order : {"first", "last"}]

VocabularyTypes ==
    /\ verbs \in [VerbNames -> Verbs]
    /\ lines \in [Pipelines -> Lines]
    /\ arrivals \in [Pipelines -> Arrivals]

\* A verb that was never added is not offered.
OfferedIsThere == \A v \in VerbNames : verbs[v].active => verbs[v].there

\* The k-th pipeline to arrive is the k-th in all, and lies within k of the first.
ArrivedInTurn ==
    \A p \in There :
        /\ arrivals[p].at <= Cardinality(There)
        /\ lines[p].n <= Cardinality(There)
        /\ -lines[p].n < Cardinality(There)

\* The order of all there are, those in use or not.
OrderOfAll ==
    \A p, q \in There : arrivals[p].at < arrivals[q].at =>
        /\ arrivals[q].order = "first" => lines[q].n < lines[p].n
        /\ arrivals[q].order = "last" => lines[p].n < lines[q].n

\* No two arrived at once.
OneAtATime == \A p, q \in There : arrivals[p].at = arrivals[q].at => p = q

\* One that was never added has the number none has been given yet.
NoneIsNothing == \A p \in Pipelines \ There : lines[p].n = 0

OrderInv == ArrivedInTurn /\ OrderOfAll /\ OneAtATime /\ NoneIsNothing

\* A repository follows what is there.
FollowsWhatIsThere == repos \in [Repos -> {Untracked, Unstated} \union There]

VocabularyInv ==
    /\ VocabularyTypes
    /\ OfferedIsThere
    /\ StepsHoldWhatIsAsked
    /\ OrderInv
    /\ FollowsWhatIsThere

----------------------------------------------------------------------------
(* Verbs *)

\* What a verb means never changes once it is there: so what a pipeline was checked
\* against is still so, offered or not.
LEMMA MeaningStays ==
    ASSUME VocabularyInv, verbs' \in [VerbNames -> Verbs], UNCHANGED <<lines, repos, arrivals>>,
           \A v \in VerbNames : verbs'[v].active => verbs'[v].there,
           \A v \in VerbNames : verbs[v].there =>
               /\ verbs'[v].there
               /\ verbs'[v].closes = verbs[v].closes /\ verbs'[v].takes = verbs[v].takes
    PROVE  VocabularyInv'
<1>1. There' = There
  BY DEF There
<1>2. OfferedIsThere'
  BY DEF OfferedIsThere
<1>3. \A p \in There : \A s \in lines[p].steps : s.verb \in VerbNames
  BY DEF VocabularyInv, VocabularyTypes, Lines, Step, There
<1>4. StepsHoldWhatIsAsked'
  BY <1>1, <1>3 DEF VocabularyInv, StepsHoldWhatIsAsked
<1>5. OrderInv'
  BY <1>1 DEF VocabularyInv, OrderInv, ArrivedInTurn, OrderOfAll, OneAtATime, NoneIsNothing
<1>6. FollowsWhatIsThere'
  BY <1>1 DEF VocabularyInv, FollowsWhatIsThere
<1> QED BY <1>2, <1>4, <1>5, <1>6 DEF VocabularyInv, VocabularyTypes

LEMMA VerbsKeep ==
    ASSUME VocabularyAssumption, VocabularyInv, NEW build \in VerbBuilds, NEW v \in VerbNames,
           \/ \E d \in Definitions : VerbAdd(build, v, d)
           \/ \E active \in BOOLEAN : VerbSet(build, v, active)
    PROVE  VocabularyInv'
<1>1. verbs \in [VerbNames -> Verbs] /\ \A u \in VerbNames : verbs[u].active => verbs[u].there
  BY DEF VocabularyInv, VocabularyTypes, OfferedIsThere
<1>2. ASSUME NEW d \in Definitions, VerbAdd(build, v, d)
      PROVE  VocabularyInv'
  <2> DEFINE new == [there |-> TRUE, active |-> TRUE, closes |-> d.closes, takes |-> d.takes]
  <2>1. new \in Verbs /\ new.there
    BY DEF Verbs, VocabularyAssumption
  <2>2. verbs' = [verbs EXCEPT ![v] = new] /\ ~verbs[v].there /\ UNCHANGED <<lines, repos, arrivals>>
    BY <1>2 DEF VerbAdd
  <2> HIDE DEF new
  <2>3. \A u \in VerbNames : verbs'[u] = IF u = v THEN new ELSE verbs[u]
    BY <1>1, <2>2
  <2> QED BY <1>1, <2>1, <2>2, <2>3, MeaningStays
<1>3. ASSUME NEW active \in BOOLEAN, VerbSet(build, v, active)
      PROVE  VocabularyInv'
  <2> DEFINE new == [verbs[v] EXCEPT !.active = active]
  <2>1. /\ new \in Verbs /\ new.there = verbs[v].there
        /\ new.closes = verbs[v].closes /\ new.takes = verbs[v].takes
    BY <1>1 DEF Verbs
  <2>2. verbs' = [verbs EXCEPT ![v] = new] /\ verbs[v].there /\ UNCHANGED <<lines, repos, arrivals>>
    BY <1>3 DEF VerbSet
  <2> HIDE DEF new
  <2>3. \A u \in VerbNames : verbs'[u] = IF u = v THEN new ELSE verbs[u]
    BY <1>1, <2>2
  <2> QED BY <1>1, <2>1, <2>2, <2>3, MeaningStays
<1> QED BY <1>2, <1>3

----------------------------------------------------------------------------
(* Pipelines *)

\* Steps that pass the check close on a predicate and hold what their verb takes.
LEMMA CheckedSteps ==
    ASSUME VocabularyInv, NEW steps \in SUBSET Step, CheckPipelineSteps(steps)
    PROVE  \A s \in steps : /\ verbs[s.verb].there
                             /\ verbs[s.verb].closes # Human
                             /\ Held(s.spec, verbs[s.verb].takes)
<1>1. SUFFICES ASSUME NEW s \in steps
               PROVE  Held(s.spec, verbs[s.verb].takes)
  BY DEF VocabularyInv, OfferedIsThere, CheckPipelineSteps, Step
<1>2. verbs[s.verb].takes \subseteq {"owner", "ref", "issue"} /\ s.spec = SpecFor(verbs[s.verb].takes)
  BY DEF VocabularyInv, VocabularyTypes, Verbs, CheckPipelineSteps, Step
<1> QED BY <1>2 DEF SpecFor, Held

\* A pipeline that stays where it is: its steps, or whether it is in use, are rewritten.
LEMMA LineRewritten ==
    ASSUME VocabularyInv, NEW p \in There, NEW new \in Lines,
           new.there, new.n = lines[p].n,
           \A s \in new.steps : /\ verbs[s.verb].there
                                 /\ verbs[s.verb].closes # Human
                                 /\ Held(s.spec, verbs[s.verb].takes),
           lines' = [lines EXCEPT ![p] = new], UNCHANGED <<verbs, repos, arrivals>>
    PROVE  VocabularyInv'
<1>1. /\ p \in Pipelines /\ lines[p].there /\ lines \in [Pipelines -> Lines]
      /\ verbs \in [VerbNames -> Verbs] /\ arrivals \in [Pipelines -> Arrivals]
  BY DEF VocabularyInv, VocabularyTypes, There
<1>2. lines' \in [Pipelines -> Lines]
  BY <1>1
<1>3. \A q \in Pipelines : lines'[q] = IF q = p THEN new ELSE lines[q]
  BY <1>1
<1>4. There' = There
  BY <1>1, <1>3 DEF There
<1>5. \A q \in Pipelines : lines'[q].n = lines[q].n
  BY <1>3
<1>6. There \subseteq Pipelines
  BY DEF There
<1>7. OrderInv'
  BY <1>4, <1>5, <1>6
     DEF VocabularyInv, OrderInv, ArrivedInTurn, OrderOfAll, OneAtATime, NoneIsNothing
<1>8. StepsHoldWhatIsAsked'
  <2> SUFFICES ASSUME NEW q \in There, NEW s \in lines'[q].steps
               PROVE  verbs[s.verb].there /\ verbs[s.verb].closes # Human /\ Held(s.spec, verbs[s.verb].takes)
    BY <1>4 DEF StepsHoldWhatIsAsked
  <2>1. CASE q = p
    BY <1>1, <1>3, <2>1
  <2>2. CASE q # p
    BY <1>3, <1>6, <2>2 DEF VocabularyInv, StepsHoldWhatIsAsked
  <2> QED BY <2>1, <2>2
<1>9. OfferedIsThere' /\ FollowsWhatIsThere'
  BY <1>4 DEF VocabularyInv, OfferedIsThere, FollowsWhatIsThere
<1> QED BY <1>1, <1>2, <1>7, <1>8, <1>9 DEF VocabularyInv, VocabularyTypes

LEMMA PipelineSetKeeps ==
    ASSUME VocabularyInv, NEW p \in Pipelines, NEW steps \in SUBSET Step, PipelineSet(p, steps)
    PROVE  VocabularyInv'
<1> DEFINE new == [lines[p] EXCEPT !.steps = steps]
<1>1. lines \in [Pipelines -> Lines] /\ p \in There
  BY DEF VocabularyInv, VocabularyTypes, PipelineSet
<1>2. new \in Lines /\ new.there /\ new.n = lines[p].n /\ new.steps = steps
  BY <1>1 DEF Lines, There
<1>3. lines' = [lines EXCEPT ![p] = new] /\ UNCHANGED <<verbs, repos, arrivals>>
  BY DEF PipelineSet
<1>4. \A s \in steps : /\ verbs[s.verb].there
                        /\ verbs[s.verb].closes # Human
                        /\ Held(s.spec, verbs[s.verb].takes)
  BY CheckedSteps DEF PipelineSet
<1> HIDE DEF new
<1> QED BY <1>1, <1>2, <1>3, <1>4, LineRewritten

LEMMA PipelineRetireKeeps ==
    ASSUME VocabularyInv, NEW p \in Pipelines, NEW active \in BOOLEAN, PipelineRetire(p, active)
    PROVE  VocabularyInv'
<1> DEFINE new == [lines[p] EXCEPT !.active = active]
<1>1. lines \in [Pipelines -> Lines] /\ p \in There
  BY DEF VocabularyInv, VocabularyTypes, PipelineRetire
<1>2. new \in Lines /\ new.there /\ new.n = lines[p].n /\ new.steps = lines[p].steps
  BY <1>1 DEF Lines, There
<1>3. lines' = [lines EXCEPT ![p] = new] /\ UNCHANGED <<verbs, repos, arrivals>>
  BY DEF PipelineRetire
<1>4. \A s \in new.steps : /\ verbs[s.verb].there
                            /\ verbs[s.verb].closes # Human
                            /\ Held(s.spec, verbs[s.verb].takes)
  BY <1>1, <1>2 DEF VocabularyInv, StepsHoldWhatIsAsked
<1> HIDE DEF new
<1> QED BY <1>1, <1>2, <1>3, <1>4, LineRewritten

\* A new pipeline's number is beyond those of all there are, at the end asked for.
LEMMA PlaceIsBeyond ==
    ASSUME VocabularyAssumption, VocabularyInv, NEW order \in {"last", "first"}
    PROVE  /\ Cardinality(There) \in Nat
           /\ Place(order) \in Int
           /\ Place(order) <= Cardinality(There) + 1
           /\ -Place(order) < Cardinality(There) + 1
           /\ \A q \in There : order = "first" => Place(order) < lines[q].n
           /\ \A q \in There : order = "last" => lines[q].n < Place(order)
<1> DEFINE K == Cardinality(There)
<1>1. IsFiniteSet(There)
  BY FS_Subset DEF VocabularyAssumption, There
<1>2. K \in Nat
  BY <1>1, FS_CardinalityType
<1> HIDE DEF K
<1>3. \A q \in There : lines[q].n \in Int /\ lines[q].n <= K /\ -lines[q].n < K
  BY DEF K, VocabularyInv, VocabularyTypes, Lines, OrderInv, ArrivedInTurn, There
<1>4. CASE There = {}
  <2>1. Numbers = {}
    BY <1>4 DEF Numbers
  <2> QED BY <1>2, <1>4, <2>1 DEF Place, K
<1>5. CASE There # {}
  <2>1. Numbers \subseteq -K .. K /\ Numbers # {}
    BY <1>2, <1>3, <1>5 DEF Numbers
  <2>2. \A q \in There : lines[q].n \in Numbers
    BY DEF Numbers
  <2>3. /\ Lowest(Numbers) \in Numbers /\ \A m \in Numbers : Lowest(Numbers) <= m
        /\ Top(Numbers) \in Numbers /\ \A m \in Numbers : m <= Top(Numbers)
    BY <1>2, <2>1, EndsOfNumbers
  <2>4. PICK l \in There : Lowest(Numbers) = lines[l].n
    BY <2>3 DEF Numbers
  <2>5. PICK u \in There : Top(Numbers) = lines[u].n
    BY <2>3 DEF Numbers
  <2>6. Place(order) = IF order = "first" THEN lines[l].n - 1 ELSE lines[u].n + 1
    BY <2>1, <2>4, <2>5 DEF Place
  <2>7. \A q \in There : lines[l].n <= lines[q].n /\ lines[q].n <= lines[u].n
    BY <2>2, <2>3, <2>4, <2>5, Zenon
  <2>8. /\ lines[l].n \in Int /\ lines[l].n <= K /\ -lines[l].n < K
        /\ lines[u].n \in Int /\ lines[u].n <= K /\ -lines[u].n < K
    BY <1>3
  <2>9. CASE order = "first"
    BY <1>2, <1>3, <2>6, <2>7, <2>8, <2>9 DEF K
  <2>10. CASE order = "last"
    BY <1>2, <1>3, <2>6, <2>7, <2>8, <2>10 DEF K
  <2> QED BY <2>9, <2>10
<1> QED BY <1>4, <1>5

LEMMA PipelineAddKeeps ==
    ASSUME VocabularyAssumption, VocabularyInv, NEW p \in Pipelines, NEW steps \in SUBSET Step,
           NEW order \in {"last", "first"}, PipelineAdd(p, steps, order)
    PROVE  VocabularyInv'
<1> DEFINE K == Cardinality(There)
           new == [there |-> TRUE, active |-> TRUE, n |-> Place(order), steps |-> steps]
           here == [at |-> K + 1, order |-> order]
<1>1. /\ lines \in [Pipelines -> Lines] /\ arrivals \in [Pipelines -> Arrivals]
      /\ verbs \in [VerbNames -> Verbs] /\ p \notin There /\ There \subseteq Pipelines
  BY DEF VocabularyInv, VocabularyTypes, PipelineAdd, There
<1>2. /\ lines' = [lines EXCEPT ![p] = new] /\ arrivals' = [arrivals EXCEPT ![p] = here]
      /\ UNCHANGED <<verbs, repos>> /\ CheckPipelineSteps(steps)
  BY DEF PipelineAdd
<1>3. /\ K \in Nat /\ Place(order) \in Int /\ Place(order) <= K + 1 /\ -Place(order) < K + 1
      /\ \A q \in There : order = "first" => Place(order) < lines[q].n
      /\ \A q \in There : order = "last" => lines[q].n < Place(order)
  BY PlaceIsBeyond
<1>4. /\ new \in Lines /\ new.there /\ new.n = Place(order) /\ new.steps = steps
      /\ here \in Arrivals /\ here.at = K + 1 /\ here.order = order
  BY <1>3 DEF Lines, Arrivals
<1>5. \A s \in steps : /\ verbs[s.verb].there
                        /\ verbs[s.verb].closes # Human
                        /\ Held(s.spec, verbs[s.verb].takes)
  BY <1>2, CheckedSteps
<1> HIDE DEF new, here
<1>6. lines' \in [Pipelines -> Lines] /\ arrivals' \in [Pipelines -> Arrivals]
  BY <1>1, <1>2, <1>4
<1>7. \A q \in Pipelines : lines'[q] = (IF q = p THEN new ELSE lines[q])
                            /\ arrivals'[q] = (IF q = p THEN here ELSE arrivals[q])
  <2>1. \A q \in Pipelines : lines'[q] = IF q = p THEN new ELSE lines[q]
    BY <1>1, <1>2
  <2>2. \A q \in Pipelines : arrivals'[q] = IF q = p THEN here ELSE arrivals[q]
    BY <1>1, <1>2
  <2> QED BY <2>1, <2>2
<1>8. There' = There \union {p}
  <2>1. \A q \in Pipelines : lines'[q].there <=> (q = p \/ lines[q].there)
    BY <1>4, <1>7
  <2> QED BY <2>1 DEF There
<1>9. Cardinality(There') = K + 1
  <2>1. IsFiniteSet(There)
    BY FS_Subset DEF VocabularyAssumption, There
  <2> QED BY <1>1, <1>8, <2>1, FS_AddElement
<1>10. \A q \in There : /\ lines'[q] = lines[q] /\ arrivals'[q] = arrivals[q]
                          /\ lines[q].n \in Int /\ lines[q].n <= K /\ -lines[q].n < K
                          /\ arrivals[q].at \in Nat /\ arrivals[q].at <= K
  <2>1. \A q \in There : q \in Pipelines /\ q # p
    BY <1>1
  <2>2. \A q \in There : lines'[q] = lines[q] /\ arrivals'[q] = arrivals[q]
    BY <1>7, <2>1
  <2>3. \A q \in There : lines[q].n \in Int /\ arrivals[q].at \in Nat
    BY <1>1, <2>1 DEF Lines, Arrivals
  <2> QED BY <2>2, <2>3 DEF VocabularyInv, OrderInv, ArrivedInTurn
<1>11. /\ lines'[p].n = Place(order) /\ arrivals'[p].at = K + 1 /\ arrivals'[p].order = order
  <2>1. lines'[p] = new /\ arrivals'[p] = here
    BY <1>7
  <2> QED BY <1>4, <2>1
<1>12. ArrivedInTurn'
  BY <1>3, <1>8, <1>9, <1>10, <1>11 DEF ArrivedInTurn
<1> HIDE DEF K
<1>13. OrderOfAll'
  <2> SUFFICES ASSUME NEW q \in There', NEW r \in There', arrivals'[q].at < arrivals'[r].at
               PROVE  /\ arrivals'[r].order = "first" => lines'[r].n < lines'[q].n
                      /\ arrivals'[r].order = "last" => lines'[q].n < lines'[r].n
    BY DEF OrderOfAll
  <2>1. CASE r = p
    <3>1. q # p
      BY <1>3, <1>11, <2>1
    <3>2. q \in There
      BY <1>8, <3>1
    <3> QED BY <1>3, <1>10, <1>11, <2>1, <3>2
  <2>2. CASE r # p
    <3>1. r \in There
      BY <1>8, <2>2
    <3>2. q # p
      BY <1>3, <1>10, <1>11, <3>1
    <3>3. q \in There
      BY <1>8, <3>2
    <3> QED BY <1>10, <3>1, <3>3 DEF VocabularyInv, OrderInv, OrderOfAll
  <2> QED BY <2>1, <2>2
<1>14. OneAtATime'
  <2> SUFFICES ASSUME NEW q \in There', NEW r \in There', arrivals'[q].at = arrivals'[r].at
               PROVE  q = r
    BY DEF OneAtATime
  <2>1. \A s \in There : arrivals'[s].at # arrivals'[p].at
    BY <1>3, <1>10, <1>11
  <2>2. CASE q \in There /\ r \in There
    BY <1>10, <2>2 DEF VocabularyInv, OrderInv, OneAtATime
  <2> QED BY <1>8, <2>1, <2>2
<1>15. NoneIsNothing'
  BY <1>7, <1>8 DEF VocabularyInv, OrderInv, NoneIsNothing
<1>16. StepsHoldWhatIsAsked'
  <2> SUFFICES ASSUME NEW q \in There', NEW s \in lines'[q].steps
               PROVE  verbs[s.verb].there /\ verbs[s.verb].closes # Human /\ Held(s.spec, verbs[s.verb].takes)
    BY <1>2 DEF StepsHoldWhatIsAsked
  <2>1. CASE q = p
    BY <1>4, <1>5, <1>7, <2>1
  <2>2. CASE q # p
    BY <1>8, <1>10, <2>2 DEF VocabularyInv, StepsHoldWhatIsAsked
  <2> QED BY <2>1, <2>2
<1>17. OfferedIsThere' /\ FollowsWhatIsThere'
  BY <1>2, <1>8 DEF VocabularyInv, OfferedIsThere, FollowsWhatIsThere
<1> QED BY <1>1, <1>2, <1>6, <1>12, <1>13, <1>14, <1>15, <1>16, <1>17
        DEF VocabularyInv, VocabularyTypes, OrderInv

----------------------------------------------------------------------------
(* Repositories, and the specification *)

\* A repository is moved onto a pipeline in use, or onto none.
LEMMA ReposKeep ==
    ASSUME VocabularyInv, NEW r, NEW line, Usable(line),
           repos' = [repos EXCEPT ![r] = line], UNCHANGED <<verbs, lines, arrivals>>
    PROVE  VocabularyInv'
<1>1. There' = There
  BY DEF There
<1>2. line \in {Untracked, Unstated} \union There
  BY DEF Usable, Active
<1>3. FollowsWhatIsThere'
  BY <1>1, <1>2 DEF VocabularyInv, FollowsWhatIsThere
<1>4. OrderInv' /\ StepsHoldWhatIsAsked' /\ OfferedIsThere'
  BY <1>1 DEF VocabularyInv, OrderInv, ArrivedInTurn, OrderOfAll, OneAtATime, NoneIsNothing,
              StepsHoldWhatIsAsked, OfferedIsThere
<1> QED BY <1>3, <1>4 DEF VocabularyInv, VocabularyTypes

LEMMA TablesUnchanged ==
    ASSUME VocabularyInv, UNCHANGED <<verbs, lines, repos, arrivals>>
    PROVE  VocabularyInv'
BY DEF VocabularyInv, VocabularyTypes, OfferedIsThere, StepsHoldWhatIsAsked, OrderInv, ArrivedInTurn,
       OrderOfAll, OneAtATime, NoneIsNothing, FollowsWhatIsThere, There

LEMMA VocabularyInvHolds ==
    ASSUME VocabularyAssumption
    PROVE  VocabularySpec => []VocabularyInv
<1>1. VocabularyInit => VocabularyInv
  <2> SUFFICES ASSUME VocabularyInit
               PROVE  VocabularyInv
    OBVIOUS
  <2>1. There = {}
    BY DEF VocabularyInit, There, NoLine
  <2>2. VocabularyTypes
    BY DEF VocabularyInit, VocabularyTypes, Verbs, Lines, Arrivals, NoVerb, NoLine
  <2>3. OfferedIsThere
    BY DEF VocabularyInit, OfferedIsThere, NoVerb
  <2>4. OrderInv
    BY <2>1 DEF VocabularyInit, OrderInv, ArrivedInTurn, OrderOfAll, OneAtATime, NoneIsNothing, NoLine
  <2> QED BY <2>1, <2>2, <2>3, <2>4
          DEF VocabularyInit, VocabularyInv, StepsHoldWhatIsAsked, FollowsWhatIsThere
<1>2. VocabularyInv /\ [VocabularyNext]_vocabularyVars => VocabularyInv'
  <2> SUFFICES ASSUME VocabularyInv, [VocabularyNext]_vocabularyVars
               PROVE  VocabularyInv'
    OBVIOUS
  <2>1. SomeSteps \subseteq SUBSET Step
    BY DEF SomeSteps
  <2>2. ASSUME NEW build \in VerbBuilds, Open(build)
        PROVE  VocabularyInv'
    BY <2>2, TablesUnchanged DEF Open
  <2>3. ASSUME NEW p \in Pipelines, NEW steps \in SomeSteps,
               PipelineSet(p, steps) \/ \E order \in {"last", "first"} : PipelineAdd(p, steps, order)
        PROVE  VocabularyInv'
    BY <2>1, <2>3, PipelineSetKeeps, PipelineAddKeeps
  <2>4. ASSUME NEW r \in Repos, BeginTrack(r) \/ StartPipeline(r)
        PROVE  VocabularyInv'
    BY <2>4, TablesUnchanged DEF BeginTrack, StartPipeline
  <2>5. ASSUME NEW r \in Repos, NEW line \in Pipelines \cup {Unstated}, RepoSet(r, line)
        PROVE  VocabularyInv'
    BY <2>5, ReposKeep DEF RepoSet
  <2>6. CASE Track
    <3>1. CASE repos[track.repo] = Untracked /\ Usable(track.line)
      BY <2>6, <3>1, ReposKeep DEF Track
    <3>2. CASE ~(repos[track.repo] = Untracked /\ Usable(track.line))
      BY <2>6, <3>2, TablesUnchanged DEF Track
    <3> QED BY <3>1, <3>2
  <2>7. ASSUME NEW v \in VerbNames, AddAction(v)
        PROVE  VocabularyInv'
    BY <2>7, TablesUnchanged DEF AddAction
  <2>8. CASE UNCHANGED vocabularyVars
    BY <2>8, TablesUnchanged DEF vocabularyVars
  <2> QED BY <2>2, <2>3, <2>4, <2>5, <2>6, <2>7, <2>8, VerbsKeep, PipelineRetireKeeps DEF VocabularyNext
<1> QED BY <1>1, <1>2, PTL DEF VocabularySpec

\* The state keeps its type: no two pipelines share a number, and a repository follows a
\* pipeline that is there (store/pipeline.go, store/repo.go).
THEOREM VocabularyTypeCorrect ==
    ASSUME VocabularyAssumption
    PROVE  VocabularySpec => []VocabularyTypeOK
<1>1. VocabularyInv => VocabularyTypeOK
  <2> SUFFICES ASSUME VocabularyInv
               PROVE  VocabularyTypeOK
    OBVIOUS
  <2> DEFINE C == Cardinality(Pipelines)
  <2>1. Cardinality(There) <= C /\ Cardinality(There) \in Nat /\ C \in Nat
    <3>1. There \subseteq Pipelines
      BY DEF There
    <3> QED BY <3>1, FS_Subset, FS_CardinalityType DEF VocabularyAssumption
  <2>2. \A p \in Pipelines : lines[p].n \in -C .. C + 1
    <3> HIDE DEF C
    <3>1. \A p \in Pipelines : lines[p].n \in Int
      BY DEF VocabularyInv, VocabularyTypes, Lines
    <3>2. \A p \in There : lines[p].n <= Cardinality(There) /\ -lines[p].n < Cardinality(There)
      BY DEF VocabularyInv, OrderInv, ArrivedInTurn
    <3>3. \A p \in Pipelines : p \in There \/ lines[p].n = 0
      BY DEF VocabularyInv, OrderInv, NoneIsNothing
    <3> QED BY <2>1, <3>1, <3>2, <3>3
  <2>3. \A p, q \in There : lines[p].n = lines[q].n => p = q
    <3> SUFFICES ASSUME NEW p \in There, NEW q \in There, lines[p].n = lines[q].n, p # q
                 PROVE  FALSE
      OBVIOUS
    <3>1. /\ arrivals[p] \in Arrivals /\ arrivals[q] \in Arrivals
          /\ lines[p].n \in Int /\ lines[q].n \in Int
      BY DEF VocabularyInv, VocabularyTypes, Lines, There
    <3>2. arrivals[p].at # arrivals[q].at
      BY DEF VocabularyInv, OrderInv, OneAtATime
    <3>3. arrivals[p].at < arrivals[q].at \/ arrivals[q].at < arrivals[p].at
      BY <3>1, <3>2 DEF Arrivals
    <3>4. /\ arrivals[p].order = "first" \/ arrivals[p].order = "last"
          /\ arrivals[q].order = "first" \/ arrivals[q].order = "last"
      BY <3>1 DEF Arrivals
    <3>5. ~(lines[p].n < lines[q].n) /\ ~(lines[q].n < lines[p].n)
      BY <3>1
    <3> QED BY <3>3, <3>4, <3>5 DEF VocabularyInv, OrderInv, OrderOfAll
  <2>4. \A r \in Repos : repos[r] \in {Untracked, Unstated} \cup There
    BY DEF VocabularyInv, FollowsWhatIsThere
  <2> QED BY <2>2, <2>3, <2>4 DEF VocabularyInv, OfferedIsThere, VocabularyTypeOK
<1> QED BY <1>1, VocabularyInvHolds, PTL

\* Whatever verbs and pipelines are added, rewritten, retired and brought back, by whatever
\* builds, a chain holds no step a person closes nor one without the owner or the ref that
\* is asked of it, and of two pipelines in use the later goes first exactly when it was
\* asked to (store/verb.go, store/pipeline.go).
THEOREM ChainsHoldWhatIsAsked ==
    ASSUME VocabularyAssumption
    PROVE  VocabularySpec => []ChainsAreAsAsked
<1>1. VocabularyInv /\ VocabularyTypeOK => ChainsAreAsAsked
  <2> SUFFICES ASSUME VocabularyInv
               PROVE  OrderIsAsAsked
    BY DEF VocabularyInv, ChainsAreAsAsked
  <2> SUFFICES ASSUME NEW p \in Active, NEW q \in Active, arrivals[p].at < arrivals[q].at
               PROVE  arrivals[q].order = "first" <=> lines[q].n < lines[p].n
    BY DEF OrderIsAsAsked
  <2>1. p \in There /\ q \in There /\ p \in Pipelines /\ q \in Pipelines
    BY DEF Active, There
  <2>2. /\ arrivals[q].order = "first" \/ arrivals[q].order = "last"
        /\ lines[p].n \in Int /\ lines[q].n \in Int
    BY <2>1 DEF VocabularyInv, VocabularyTypes, Lines, Arrivals
  <2>3. /\ arrivals[q].order = "first" => lines[q].n < lines[p].n
        /\ arrivals[q].order = "last" => lines[p].n < lines[q].n
    BY <2>1 DEF VocabularyInv, OrderInv, OrderOfAll
  <2> QED BY <2>2, <2>3
<1> QED BY <1>1, VocabularyInvHolds, VocabularyTypeCorrect, PTL

----------------------------------------------------------------------------
(* The watcher: sets of places in the log, in order *)

Places(S)  == IsFiniteSet(S) /\ S \subseteq Nat
Below(S, i) == {j \in S : j < i}

\* Of a finite set of places, each has fewer before it than the set has members, and of two
\* the earlier has fewer.
LEMMA BelowCounts ==
    ASSUME NEW S, Places(S)
    PROVE  /\ IsFiniteSet(S) /\ Cardinality(S) \in Nat
           /\ \A i \in S : Cardinality(Below(S, i)) \in 0 .. Cardinality(S) - 1
           /\ \A i, k \in S : i < k => Cardinality(Below(S, i)) < Cardinality(Below(S, k))
<1>1. IsFiniteSet(S)
  BY DEF Places
<1>2. \A T : T \subseteq S => IsFiniteSet(T) /\ Cardinality(T) \in Nat
  BY <1>1, FS_Subset, FS_CardinalityType
<1>3. ASSUME NEW T, NEW U, NEW i, T \subseteq U, U \subseteq S, i \in U, i \notin T
      PROVE  Cardinality(T) < Cardinality(U)
  <2>1. IsFiniteSet(U) /\ IsFiniteSet(U \ {i}) /\ Cardinality(U \ {i}) = Cardinality(U) - 1
    BY <1>2, <1>3, FS_RemoveElement
  <2>2. Cardinality(T) <= Cardinality(U \ {i})
    BY <1>3, <2>1, FS_Subset
  <2>3. Cardinality(T) \in Nat /\ Cardinality(U) \in Nat
    BY <1>2, <1>3
  <2>4. \A a, b, c : a \in Nat /\ b \in Nat /\ c = b - 1 /\ a <= c => a < b
    OBVIOUS
  <2> QED BY <2>1, <2>2, <2>3, <2>4
<1>4. ASSUME NEW i \in S
      PROVE  Cardinality(Below(S, i)) \in 0 .. Cardinality(S) - 1
  <2>1. ~(i < i)
    BY DEF Places
  <2>3. Below(S, i) \subseteq S /\ i \notin Below(S, i)
    BY <2>1 DEF Below
  <2>2. Cardinality(Below(S, i)) < Cardinality(S) /\ Cardinality(Below(S, i)) \in Nat
    BY <1>2, <1>3, <2>3
  <2> QED BY <1>2, <2>2
<1>5. ASSUME NEW i \in S, NEW k \in S, i < k
      PROVE  Cardinality(Below(S, i)) < Cardinality(Below(S, k))
  <2>1. \A j \in S : j < i => j < k
    BY <1>5 DEF Places
  <2>2. ~(i < i)
    BY DEF Places
  <2>3. Below(S, i) \subseteq Below(S, k) /\ Below(S, k) \subseteq S
        /\ i \in Below(S, k) /\ i \notin Below(S, i)
    BY <1>5, <2>1, <2>2 DEF Below
  <2> QED BY <1>3, <2>3
<1> QED BY <1>2, <1>4, <1>5

\* There is a place with any smaller number of places before it: the least of those that
\* have none, or of those beyond the place with one fewer.
LEMMA PlaceOfRank ==
    ASSUME NEW S, Places(S)
    PROVE  \A n \in 0 .. Cardinality(S) - 1 : \E i \in S : Cardinality(Below(S, i)) = n
<1> DEFINE Bad == {n \in 0 .. Cardinality(S) - 1 : ~\E i \in S : Cardinality(Below(S, i)) = n}
<1>1. IsFiniteSet(S) /\ Cardinality(S) \in Nat
  BY BelowCounts
<1> SUFFICES ASSUME Bad # {}
             PROVE  FALSE
  OBVIOUS
<1>2. PICK n \in Bad : \A k \in Bad : n <= k
  <2>1. Bad \subseteq Nat
    BY <1>1
  <2> QED BY <2>1, LeastNatural
<1>3. n \in 0 .. Cardinality(S) - 1 /\ ~\E i \in S : Cardinality(Below(S, i)) = n
  OBVIOUS
<1>4. CASE n = 0
  <2>1. S # {}
    <3>1. Cardinality({}) = 0
      BY FS_EmptySet
    <3> QED BY <1>1, <1>3, <1>4, <3>1
  <2>2. PICK i \in S : \A k \in S : i <= k
    <3>1. S \subseteq Nat
      BY DEF Places
    <3> QED BY <2>1, <3>1, LeastNatural
  <2>3. Below(S, i) = {}
    <3>1. \A k \in S : ~(k < i)
      BY <2>2 DEF Places
    <3> QED BY <3>1 DEF Below
  <2>4. Cardinality(Below(S, i)) = 0
    BY <2>3, FS_EmptySet
  <2> QED BY <1>3, <1>4, <2>4
<1>5. CASE n # 0
  <2>1. n - 1 \in 0 .. Cardinality(S) - 1 /\ n - 1 \notin Bad
    BY <1>1, <1>2, <1>3, <1>5
  <2>2. PICK i \in S : Cardinality(Below(S, i)) = n - 1
    BY <2>1
  <2> DEFINE upTo == Below(S, i) \cup {i}
             beyond == {k \in S : i < k}
  <2>3. IsFiniteSet(Below(S, i)) /\ i \notin Below(S, i)
    <3>1. ~(i < i)
      BY DEF Places
    <3>2. Below(S, i) \subseteq S
      BY DEF Below
    <3> QED BY <1>1, <3>1, <3>2, FS_Subset DEF Below
  <2>4. IsFiniteSet(upTo) /\ Cardinality(upTo) = n
    <3>1. Cardinality(upTo) = Cardinality(Below(S, i)) + 1 /\ IsFiniteSet(upTo)
      BY <2>3, FS_AddElement
    <3> QED BY <1>3, <2>2, <3>1
  <2>5. beyond # {}
    <3>1. beyond = {} => S = upTo
      <4>1. \A k \in S : ~(i < k) => k < i \/ k = i
        BY DEF Places
      <4>2. beyond = {} => \A k \in S : ~(i < k)
        BY Zenon
      <4>3. upTo \subseteq S
        BY DEF Below
      <4> QED BY <4>1, <4>2, <4>3, Zenon DEF Below
    <3>2. Cardinality(S) # n
      BY <1>1, <1>3
    <3> QED BY <2>4, <3>1, <3>2
  <2>6. PICK k \in beyond : \A m \in beyond : k <= m
    <3>1. beyond \subseteq Nat
      BY DEF Places
    <3> QED BY <2>5, <3>1, LeastNatural
  <2>7. Below(S, k) = upTo
    <3>1. \A m \in S : ~(i < m) => m < i \/ m = i
      BY DEF Places
    <3>2. \A m \in S : i < m => ~(m < k)
      BY <2>6 DEF Places
    <3>3. k \in S /\ i < k
      OBVIOUS
    <3>4. \A m \in S : m < i \/ m = i => m < k
      BY <3>3 DEF Places
    <3>5. \A m \in S : m < k <=> m < i \/ m = i
      BY <3>1, <3>2, <3>4, Zenon
    <3> QED BY <3>5, Zenon DEF Below
  <2> QED BY <1>3, <2>4, <2>6, <2>7
<1> QED BY <1>4, <1>5

\* Ascending lists a set: all of it, and each before what is greater.
LEMMA AscendingLists ==
    ASSUME NEW S, Places(S)
    PROVE  /\ Ascending(S) \in Seq(S) /\ Len(Ascending(S)) = Cardinality(S)
           /\ \A m, n \in DOMAIN Ascending(S) : m < n => Ascending(S)[m] < Ascending(S)[n]
           /\ \A i \in S : \E n \in DOMAIN Ascending(S) : Ascending(S)[n] = i
           /\ S # {} => 1 \in DOMAIN Ascending(S) /\ \A i \in S : Ascending(S)[1] <= i
<1> DEFINE C == Cardinality(S)
           rank(i) == Cardinality(Below(S, i))
           A == Ascending(S)
<1>1. /\ C \in Nat /\ IsFiniteSet(S)
      /\ \A i \in S : rank(i) \in 0 .. C - 1
      /\ \A i, k \in S : i < k => rank(i) < rank(k)
      /\ \A n \in 0 .. C - 1 : \E i \in S : rank(i) = n
      /\ \A i \in S : i \in Nat
  <2>1. IsFiniteSet(S) /\ \A i \in S : i \in Nat
    BY DEF Places
  <2> QED BY <2>1, BelowCounts, PlaceOfRank
<1>2. A = [n \in 1 .. C |-> CHOOSE i \in S : rank(i) = n - 1]
  BY DEF Ascending, Below
<1> HIDE DEF C, rank, A
<1>3. \A n \in 1 .. C : A[n] \in S /\ rank(A[n]) = n - 1
  <2> SUFFICES ASSUME NEW n \in 1 .. C
               PROVE  A[n] \in S /\ rank(A[n]) = n - 1
    OBVIOUS
  <2>1. A[n] = CHOOSE i \in S : rank(i) = n - 1
    BY <1>2
  <2>2. \E i \in S : rank(i) = n - 1
    <3>1. n - 1 \in 0 .. C - 1
      BY <1>1
    <3> QED BY <1>1, <3>1
  <2> QED BY <2>1, <2>2
<1>4. DOMAIN A = 1 .. C /\ A \in [1 .. C -> S]
  BY <1>2, <1>3
<1>5. A \in Seq(S) /\ Len(A) = C
  BY <1>1, <1>4
<1>6. ASSUME NEW m \in 1 .. C, NEW n \in 1 .. C, m < n
      PROVE  A[m] < A[n]
  <2>1. rank(A[m]) < rank(A[n])
    BY <1>3, <1>6
  <2>2. A[m] \in Nat /\ A[n] \in Nat /\ rank(A[m]) \in Int /\ rank(A[n]) \in Int
    <3>1. \A k \in 1 .. C : A[k] \in Nat /\ rank(A[k]) \in Int
      BY <1>1, <1>3
    <3> QED BY <3>1
  <2>3. A[n] < A[m] => rank(A[n]) < rank(A[m])
    BY <1>1, <1>3
  <2>4. A[n] = A[m] => rank(A[n]) = rank(A[m])
    OBVIOUS
  <2> QED BY <2>1, <2>2, <2>3, <2>4
<1>7. ASSUME NEW i \in S
      PROVE  \E n \in 1 .. C : A[n] = i
  <2>1. rank(i) + 1 \in 1 .. C /\ rank(i) \in Nat
    BY <1>1
  <2> DEFINE a == A[rank(i) + 1]
  <2>2. a \in S /\ rank(a) = rank(i)
    BY <1>3, <2>1
  <2> HIDE DEF a
  <2>3. ~(a < i) /\ ~(i < a) /\ a \in Nat /\ i \in Nat
    BY <1>1, <2>1, <2>2
  <2>4. a = i
    BY <2>3
  <2> QED BY <2>1, <2>4 DEF a
<1>8. S # {} => 1 \in 1 .. C /\ \A i \in S : A[1] <= i
  <2> SUFFICES ASSUME NEW i \in S
               PROVE  1 \in 1 .. C /\ A[1] <= i
    <3>1. (\A j \in S : 1 \in 1 .. C /\ A[1] <= j) => <1>8
      BY Zenon
    <3> QED BY <3>1
  <2>1. PICK n \in 1 .. C : A[n] = i
    BY <1>7
  <2>2. 1 \in 1 .. C /\ (n = 1 \/ 1 < n)
    BY <1>1
  <2>3. A[1] \in Nat /\ i \in Nat
    BY <1>1, <1>3, <2>2
  <2> QED BY <1>6, <2>1, <2>2, <2>3
<1> QED BY <1>4, <1>5, <1>6, <1>7, <1>8 DEF A, C

\* What comes furthest, of places and where one was: no place is beyond it.
LEMMA FurthestIsLast ==
    ASSUME NEW K \in Nat, NEW S, S \subseteq 0 .. K, S # {}, NEW low
    PROVE  Furthest(S, low) \in S /\ \A i \in S : i <= Furthest(S, low)
<1>1. S \subseteq -K .. K
  OBVIOUS
<1>2. \E i \in S : \A j \in S : j <= i
  BY <1>1, EndsOfASet
<1> QED BY <1>2 DEF Furthest

InOrder(s) == \A m, n \in DOMAIN s : m < n => s[m] < s[n]
Listed(s)  == {s[n] : n \in DOMAIN s}

\* One list in order after another that is all before it is in order, and lists both.
LEMMA OrderGoesOn ==
    ASSUME NEW p \in Seq(Nat), NEW q \in Seq(Nat), InOrder(p), InOrder(q),
           \A m \in Listed(p), n \in Listed(q) : m < n
    PROVE  /\ p \o q \in Seq(Nat) /\ InOrder(p \o q)
           /\ Listed(p \o q) = Listed(p) \cup Listed(q)
<1> DEFINE r == p \o q
           P == Len(p)
           Q == Len(q)
<1>1. /\ P \in Nat /\ Q \in Nat /\ DOMAIN p = 1 .. P /\ DOMAIN q = 1 .. Q
      /\ r \in Seq(Nat) /\ DOMAIN r = 1 .. P + Q
      /\ \A n \in 1 .. P : r[n] = p[n]
      /\ \A n \in 1 .. Q : r[P + n] = q[n]
  OBVIOUS
<1> HIDE DEF r, P, Q
<1>2. \A n \in DOMAIN r : \/ n \in DOMAIN p /\ r[n] = p[n]
                          \/ n - P \in DOMAIN q /\ r[n] = q[n - P] /\ n \notin DOMAIN p
  BY <1>1
<1>3. Listed(r) = Listed(p) \cup Listed(q)
  <2>1. \A n \in DOMAIN p : n \in DOMAIN r /\ r[n] = p[n]
    BY <1>1
  <2>2. \A n \in DOMAIN q : P + n \in DOMAIN r /\ r[P + n] = q[n]
    BY <1>1
  <2>3. \A n \in DOMAIN r : r[n] \in Listed(p) \/ r[n] \in Listed(q)
    BY <1>2 DEF Listed
  <2>4. Listed(r) \subseteq Listed(p) \cup Listed(q)
    BY <2>3 DEF Listed
  <2>5. Listed(p) \subseteq Listed(r)
    BY <2>1 DEF Listed
  <2>6. Listed(q) \subseteq Listed(r)
    BY <2>2 DEF Listed
  <2> QED BY <2>4, <2>5, <2>6
<1>4. InOrder(r)
  <2> SUFFICES ASSUME NEW m \in DOMAIN r, NEW n \in DOMAIN r, m < n
               PROVE  r[m] < r[n]
    BY DEF InOrder
  <2>1. CASE m \in DOMAIN p /\ n \in DOMAIN p
    BY <1>1, <2>1 DEF InOrder
  <2>2. CASE m \in DOMAIN p /\ n \notin DOMAIN p
    BY <1>1, <1>2, <2>2 DEF Listed
  <2>3. CASE m \notin DOMAIN p /\ n \in DOMAIN p
    BY <1>1, <2>3
  <2>4. CASE m \notin DOMAIN p /\ n \notin DOMAIN p
    <3>1. m - P \in DOMAIN q /\ n - P \in DOMAIN q /\ m - P < n - P
      BY <1>1, <1>2, <2>4
    <3>2. r[m] = q[m - P] /\ r[n] = q[n - P]
      BY <1>2, <2>4
    <3> QED BY <3>1, <3>2 DEF InOrder
  <2> QED BY <2>1, <2>2, <2>3, <2>4
<1> QED BY <1>1, <1>3, <1>4 DEF r

----------------------------------------------------------------------------
(* The watcher: the inductive invariant *)

Watchers == [pc : {"off", "backlog", "following"}, cursor : Nat, asked : [lines : Nat, since : Nat],
             head : Nat, first : Nat, printed : Seq(Nat)]

\* What a watcher passed over, that it read or that was there to read, was not asked for.
NotAskedFor(w, i) == (w.asked.lines > 0 /\ i < w.first) \/ i < w.asked.since

\* Of what came after the head, up to the cursor, whatever is kept is printed, or was not
\* asked for.
Passes(w) ==
    \A i \in KeptOf(Selected(w.head)) : i <= w.cursor => i \in Listed(w.printed) \/ NotAskedFor(w, i)

\* Nothing is printed from beyond the cursor, nor from before the backlog.
Prints(w) ==
    /\ InOrder(w.printed)
    /\ \A i \in Listed(w.printed) : i <= w.cursor /\ (i > w.head \/ (w.first > 0 /\ i >= w.first))

WatchInv ==
    /\ events \in Seq(WatchKinds)
    /\ watch \in Watchers
    /\ watch.cursor <= Len(events) /\ watch.head <= watch.cursor
    /\ watch.pc # "following" => watch.printed = <<>> /\ watch.cursor = watch.head
    /\ Prints(watch)
    /\ watch.pc = "following" => Passes(watch)

\* Places of the log, read or kept, are numbers in order.
LEMMA PlacesAreNumbers ==
    ASSUME events \in Seq(WatchKinds)
    PROVE  /\ Len(events) \in Nat /\ DOMAIN events = 1 .. Len(events)
           /\ \A after, S : S \subseteq Selected(after) => S \subseteq 1 .. Len(events) /\ Places(S)
<1>1. Len(events) \in Nat /\ DOMAIN events = 1 .. Len(events)
  OBVIOUS
<1>2. IsFiniteSet(1 .. Len(events))
  BY <1>1, FS_Interval
<1>3. ASSUME NEW after, NEW S, S \subseteq Selected(after)
      PROVE  S \subseteq 1 .. Len(events) /\ Places(S)
  <2>1. S \subseteq 1 .. Len(events)
    BY <1>1, <1>3 DEF Selected
  <2>2. S \subseteq Nat
    BY <2>1
  <2>3. IsFiniteSet(S)
    BY <1>2, <2>1, FS_Subset
  <2> QED BY <2>1, <2>2, <2>3 DEF Places
<1> QED BY <1>1, <1>3

LEMMA LogKeepsWatch ==
    ASSUME WatchInv, NEW kind \in WatchKinds, Log(kind)
    PROVE  WatchInv'
<1>1. /\ events' \in Seq(WatchKinds) /\ Len(events') = Len(events) + 1 /\ Len(events) \in Nat
      /\ DOMAIN events' = 1 .. Len(events) + 1 /\ DOMAIN events = 1 .. Len(events)
      /\ \A i \in DOMAIN events : events'[i] = events[i]
      /\ watch' = watch
  BY DEF WatchInv, Log
<1>2. watch.cursor <= Len(events) /\ watch.cursor \in Nat
  BY DEF WatchInv, Watchers
<1>3. \A i \in KeptOf(Selected(watch.head))' : i <= watch.cursor => i \in KeptOf(Selected(watch.head))
  <2>1. ASSUME NEW i \in DOMAIN events', i <= watch.cursor
        PROVE  i \in DOMAIN events /\ events'[i] = events[i]
    BY <1>1, <1>2, <2>1
  <2>2. \A i \in KeptOf(Selected(watch.head))' :
           i \in DOMAIN events' /\ i > watch.head /\ events'[i] \in Wanted /\ events'[i] \in Kept
    BY <1>1 DEF KeptOf, Selected
  <2> QED BY <2>1, <2>2 DEF KeptOf, Selected
<1>4. Passes(watch) => Passes(watch)'
  BY <1>1, <1>3 DEF Passes, NotAskedFor, Listed
<1>5. watch.cursor <= Len(events')
  BY <1>1, <1>2
<1> QED BY <1>1, <1>4, <1>5 DEF WatchInv, Prints, InOrder, Listed

LEMMA HeadKeepsWatch ==
    ASSUME WatchAssumption, WatchInv, NEW asked \in Backlogs, TakeHead(asked)
    PROVE  WatchInv'
<1> DEFINE new == [NoWatch EXCEPT !.pc = "backlog", !.asked = asked,
                                  !.cursor = Len(events), !.head = Len(events)]
<1>1. watch' = new /\ events' = events /\ events \in Seq(WatchKinds) /\ Len(events) \in Nat
  BY DEF TakeHead, WatchInv
<1>2. asked \in [lines : Nat, since : Nat] /\ <<>> \in Seq(Nat) /\ DOMAIN <<>> = {}
  BY DEF WatchAssumption
<1>3. /\ new \in Watchers /\ new.cursor = Len(events) /\ new.head = Len(events)
      /\ new.pc = "backlog" /\ new.printed = <<>>
  BY <1>1, <1>2 DEF Watchers, NoWatch
<1> HIDE DEF new
<1>4. Prints(new)
  BY <1>2, <1>3 DEF Prints, InOrder, Listed
<1> QED BY <1>1, <1>3, <1>4 DEF WatchInv, Prints, InOrder, Listed

\* The first of a list in order of a set is the least of it, and the list is of the set.
LEMMA ListOf ==
    ASSUME NEW S, Places(S)
    PROVE  /\ Ascending(S) \in Seq(Nat) /\ InOrder(Ascending(S)) /\ Listed(Ascending(S)) = S
           /\ S # {} => Ascending(S)[1] \in S /\ \A i \in S : Ascending(S)[1] <= i
<1>1. /\ Ascending(S) \in Seq(S)
      /\ \A m, n \in DOMAIN Ascending(S) : m < n => Ascending(S)[m] < Ascending(S)[n]
      /\ \A i \in S : \E n \in DOMAIN Ascending(S) : Ascending(S)[n] = i
      /\ S # {} => 1 \in DOMAIN Ascending(S) /\ \A i \in S : Ascending(S)[1] <= i
  BY AscendingLists
<1>2. Ascending(S) \in Seq(Nat)
  <2> DEFINE s == Ascending(S)
  <2>1. Len(s) \in Nat /\ DOMAIN s = 1 .. Len(s) /\ s = [n \in 1 .. Len(s) |-> s[n]]
    BY <1>1
  <2>2. \A n \in 1 .. Len(s) : s[n] \in Nat
    BY <1>1, <2>1 DEF Places
  <2>3. [n \in 1 .. Len(s) |-> s[n]] \in Seq(Nat)
    <3> HIDE DEF s
    <3> QED BY <2>1, <2>2
  <2> QED BY <2>1, <2>3
<1>3. \A n \in DOMAIN Ascending(S) : Ascending(S)[n] \in S
  BY <1>1
<1>4. Listed(Ascending(S)) = S
  BY <1>1, <1>3, Zenon DEF Listed
<1> QED BY <1>1, <1>2, <1>3, <1>4 DEF InOrder

LEMMA MoreKeepsWatch ==
    ASSUME WatchInv, PrintMore
    PROVE  WatchInv'
<1> DEFINE read == Selected(watch.cursor)
           kept == KeptOf(read)
           more == Ascending(kept)
           next == Furthest(read, watch.cursor)
           new  == [watch EXCEPT !.cursor = next, !.printed = @ \o more]
<1>1. /\ watch' = new /\ events' = events /\ read # {} /\ watch.pc = "following"
      /\ events \in Seq(WatchKinds) /\ watch \in Watchers /\ Passes(watch) /\ Prints(watch)
      /\ watch.head <= watch.cursor /\ watch.head \in Nat /\ watch.cursor \in Nat
  BY DEF PrintMore, WatchInv, Watchers
<1>2. kept \subseteq read /\ \A i \in read : i > watch.cursor
  BY DEF KeptOf, Selected
<1>3. /\ Len(events) \in Nat
      /\ read \subseteq 1 .. Len(events) /\ Places(read) /\ Places(kept)
  BY <1>1, <1>2, PlacesAreNumbers
<1>4. more \in Seq(Nat) /\ InOrder(more) /\ Listed(more) = kept
  BY <1>3, ListOf
<1>5. next \in read /\ \A i \in read : i <= next
  <2>1. read \subseteq 0 .. Len(events)
    BY <1>3
  <2> HIDE DEF read
  <2> QED BY <1>1, <1>3, <2>1, FurthestIsLast
<1> HIDE DEF read, kept, more, next
<1>6. next \in Nat /\ next <= Len(events) /\ watch.cursor < next
  BY <1>1, <1>2, <1>3, <1>5
<1>7. /\ watch.printed \o more \in Seq(Nat) /\ InOrder(watch.printed \o more)
      /\ Listed(watch.printed \o more) = Listed(watch.printed) \cup kept
  <2>1. watch.printed \in Seq(Nat) /\ InOrder(watch.printed)
    BY <1>1 DEF Watchers, Prints
  <2>2. \A m \in Listed(watch.printed) : m \in Nat /\ m <= watch.cursor
    <3>1. \A m \in Listed(watch.printed) : m \in Nat
      BY <2>1 DEF Listed
    <3> QED BY <1>1, <3>1 DEF Prints
  <2>3. \A n \in kept : n \in Nat /\ n > watch.cursor
    BY <1>2, <1>3 DEF Places
  <2>4. \A m \in Listed(watch.printed), n \in Listed(more) : m < n
    BY <1>1, <1>4, <2>2, <2>3
  <2> QED BY <1>4, <2>1, <2>4, OrderGoesOn
<1>8. /\ new \in Watchers /\ new.cursor = next /\ new.printed = watch.printed \o more
      /\ new.pc = "following" /\ new.head = watch.head /\ new.first = watch.first
      /\ new.asked = watch.asked
  BY <1>1, <1>6, <1>7 DEF Watchers
<1> HIDE DEF new
<1>9. Prints(new)
  <2>1. \A i \in Listed(watch.printed) : i <= next /\ (i > watch.head \/ (watch.first > 0 /\ i >= watch.first))
    <3>1. \A i \in Listed(watch.printed) : i \in Nat
      BY <1>1 DEF Listed, Watchers
    <3> QED BY <1>1, <1>6, <3>1 DEF Prints
  <2>2. \A i \in kept : i <= next /\ i > watch.head
    <3>1. \A i \in kept : i \in Nat /\ i > watch.cursor /\ i <= next
      BY <1>2, <1>3, <1>5 DEF Places
    <3> QED BY <1>1, <3>1
  <2> QED BY <1>7, <1>8, <2>1, <2>2 DEF Prints
<1>10. Passes(new)
  <2> SUFFICES ASSUME NEW i \in KeptOf(Selected(watch.head)), i <= next
               PROVE  i \in Listed(new.printed) \/ NotAskedFor(watch, i)
    BY <1>8 DEF Passes, NotAskedFor
  <2>1. i \in DOMAIN events /\ events[i] \in Wanted /\ events[i] \in Kept /\ i \in Nat
    BY <1>1 DEF KeptOf, Selected
  <2>2. CASE i <= watch.cursor
    BY <1>1, <1>7, <1>8, <2>2 DEF Passes
  <2>3. CASE i > watch.cursor
    BY <1>7, <1>8, <2>1, <2>3 DEF kept, read, KeptOf, Selected
  <2> QED BY <1>1, <2>1, <2>2, <2>3
<1>11. new.head <= new.cursor /\ new.cursor <= Len(events)
  BY <1>1, <1>6, <1>8
<1>12. Passes(watch)'
  BY <1>1, <1>10 DEF Passes, NotAskedFor, Listed, KeptOf, Selected
<1> QED BY <1>1, <1>8, <1>9, <1>11, <1>12 DEF WatchInv, Prints, InOrder, Listed

LEMMA BacklogKeepsWatch ==
    ASSUME WatchInv, PrintBacklog
    PROVE  WatchInv'
<1> DEFINE read == Backlog
           kept == KeptOf(read)
           list == Ascending(kept)
           next == Resume(read)
           first == IF read = {} THEN 0 ELSE Ascending(read)[1]
           new  == [watch EXCEPT !.pc = "following", !.cursor = next, !.first = first,
                                 !.printed = list]
<1>1. /\ watch' = new /\ events' = events /\ watch.pc = "backlog"
      /\ events \in Seq(WatchKinds) /\ watch \in Watchers /\ watch.cursor = watch.head
      /\ watch.head <= Len(events) /\ watch.head \in Nat
      /\ watch.asked.lines \in Nat /\ watch.asked.since \in Nat
  BY DEF PrintBacklog, WatchInv, Watchers
<1>2. read \subseteq Selected(0) /\ kept \subseteq read /\ Selected(0) \subseteq Selected(0)
  BY DEF Backlog, KeptOf
<1>3. /\ Len(events) \in Nat
      /\ read \subseteq 1 .. Len(events) /\ Places(read) /\ Places(kept)
      /\ Selected(0) \subseteq 1 .. Len(events) /\ Places(Selected(0))
  BY <1>1, <1>2, PlacesAreNumbers
<1>4. /\ list \in Seq(Nat) /\ InOrder(list) /\ Listed(list) = kept
      /\ read # {} => first \in read /\ \A i \in read : first <= i
  BY <1>3, ListOf
<1>5. next \in read \cup {watch.head} /\ \A i \in read \cup {watch.head} : i <= next
  <2>1. read \cup {watch.head} \subseteq 0 .. Len(events)
    BY <1>1, <1>3
  <2> HIDE DEF read
  <2> QED BY <1>1, <1>3, <2>1, FurthestIsLast DEF Resume
\* Up to where it goes on, what came after the head and is not of the backlog is beyond
\* the lines asked for, and so before its first, or before the moment asked for.
<1>6. ASSUME NEW i \in Selected(0), i \notin read, i > watch.head, i <= next
      PROVE  (watch.asked.lines > 0 /\ i < first) \/ i < watch.asked.since
  <2> DEFINE limit == watch.asked.lines
             after(j) == {k \in Selected(0) : k > j}
  <2>1. i \in Nat /\ \A j \in Selected(0) : j \in Nat
    BY <1>3 DEF Places
  <2>2. CASE watch.asked.since > 0
    BY <1>1, <1>6, <2>1, <2>2 DEF Backlog
  <2>3. CASE ~(watch.asked.since > 0)
    <3>1. read = {j \in Selected(0) : Cardinality(after(j)) < limit}
      BY <2>3 DEF Backlog
    <3>2. next \in read /\ next \in Nat
      BY <1>1, <1>3, <1>5, <1>6, <2>1 DEF Places
    <3>3. Cardinality(after(next)) < limit /\ ~(Cardinality(after(i)) < limit)
      BY <1>6, <3>1, <3>2
    <3>4. \A j : IsFiniteSet(after(j)) /\ Cardinality(after(j)) \in Nat
      BY <1>3, FS_Subset, FS_CardinalityType DEF Places
    <3>5. limit > 0
      <4>1. Cardinality(after(next)) \in Nat
        BY <3>4
      <4> HIDE DEF after
      <4> QED BY <1>1, <3>3, <4>1
    <3>6. ASSUME NEW j \in read, j <= i
          PROVE  FALSE
      <4>1. j \in Nat
        BY <1>2, <2>1
      <4>2. \A k \in Selected(0) : k > i => k > j
        BY <2>1, <3>6, <4>1
      <4>3. after(i) \subseteq after(j)
        BY <4>2
      <4>4. Cardinality(after(i)) <= Cardinality(after(j))
        BY <3>4, <4>3, FS_Subset
      <4>5. Cardinality(after(j)) < limit
        BY <3>1
      <4>6. Cardinality(after(i)) \in Nat /\ Cardinality(after(j)) \in Nat
        BY <3>4
      <4> HIDE DEF after
      <4> QED BY <1>1, <3>3, <4>4, <4>5, <4>6
    <3>7. first \in read /\ first \in Nat
      BY <1>2, <1>4, <2>1, <3>2
    <3> HIDE DEF first
    <3>8. ~(first <= i)
      BY <3>6, <3>7
    <3> QED BY <2>1, <3>5, <3>7, <3>8
  <2> QED BY <2>2, <2>3
<1>7. first \in Nat /\ (read # {} => first > 0)
  <2>1. \A i \in read : i \in Nat /\ i > 0
    BY <1>3
  <2>2. read = {} => first = 0
    OBVIOUS
  <2> HIDE DEF first, read
  <2> QED BY <1>4, <2>1, <2>2
<1> HIDE DEF read, kept, list, next, first
<1>8. next \in Nat /\ next <= Len(events) /\ watch.head <= next
  BY <1>1, <1>3, <1>5
<1>9. /\ new \in Watchers /\ new.cursor = next /\ new.printed = list
      /\ new.pc = "following" /\ new.head = watch.head /\ new.first = first
      /\ new.asked = watch.asked
  BY <1>1, <1>4, <1>7, <1>8 DEF Watchers
<1> HIDE DEF new
<1>10. Prints(new)
  <2>1. \A i \in kept : i \in read
    BY <1>2
  <2>2. \A i \in kept : i <= next /\ first > 0 /\ i >= first
    <3>1. \A i \in read : i \in Nat
      BY <1>3
    <3> QED BY <1>4, <1>5, <1>7, <2>1, <3>1
  <2> QED BY <1>4, <1>9, <2>2 DEF Prints
<1>11. Passes(new)
  <2> SUFFICES ASSUME NEW i \in KeptOf(Selected(watch.head)), i <= next
               PROVE  i \in kept \/ (watch.asked.lines > 0 /\ i < first) \/ i < watch.asked.since
    BY <1>4, <1>9 DEF Passes, NotAskedFor
  <2>1. i \in Selected(0) /\ i > watch.head /\ events[i] \in Kept
    BY <1>1 DEF KeptOf, Selected
  <2>2. i \in read => i \in kept
    BY <2>1 DEF kept, KeptOf
  <2> QED BY <1>6, <2>1, <2>2
<1>12. new.head <= new.cursor /\ new.cursor <= Len(events)
  BY <1>1, <1>8, <1>9
<1>13. Passes(watch)'
  BY <1>1, <1>11 DEF Passes, NotAskedFor, Listed, KeptOf, Selected
<1> QED BY <1>1, <1>9, <1>10, <1>12, <1>13 DEF WatchInv, Prints, InOrder, Listed

LEMMA WatchInvHolds ==
    ASSUME WatchAssumption
    PROVE  WatchSpec => []WatchInv
<1>1. WatchInit => WatchInv
  <2> SUFFICES ASSUME WatchInit
               PROVE  WatchInv
    OBVIOUS
  <2>1. <<>> \in Seq(WatchKinds) /\ <<>> \in Seq(Nat) /\ Len(<<>>) = 0 /\ DOMAIN <<>> = {}
    OBVIOUS
  <2>2. /\ watch \in Watchers /\ watch.cursor = 0 /\ watch.head = 0 /\ watch.pc = "off"
        /\ watch.printed = <<>>
    BY <2>1 DEF WatchInit, NoWatch, Watchers
  <2>3. Prints(watch)
    BY <2>1, <2>2 DEF Prints, InOrder, Listed
  <2> QED BY <2>1, <2>2, <2>3 DEF WatchInv, WatchInit
<1>2. WatchInv /\ [WatchNext]_watchVars => WatchInv'
  <2> SUFFICES ASSUME WatchInv, [WatchNext]_watchVars
               PROVE  WatchInv'
    OBVIOUS
  <2>1. CASE UNCHANGED watchVars
    BY <2>1 DEF watchVars, WatchInv, Prints, Passes, NotAskedFor, InOrder, Listed, KeptOf, Selected
  <2> QED BY <2>1, LogKeepsWatch, HeadKeepsWatch, BacklogKeepsWatch, MoreKeepsWatch
          DEF WatchNext
<1> QED BY <1>1, <1>2, PTL DEF WatchSpec

\* The tail prints in the log's order, nothing twice and nothing from before its backlog,
\* and passes over nothing that came after it took the head, but for what it was not asked
\* for: whatever is appended between any two of its queries (cli/watch.go).
THEOREM TailPassesOver ==
    ASSUME WatchAssumption
    PROVE  WatchSpec => []WatchPassesOver
<1>1. WatchInv => WatchPassesOver
  <2> SUFFICES ASSUME WatchInv
               PROVE  WatchPassesOver
    OBVIOUS
  <2>1. Printed = Listed(watch.printed)
    BY DEF Printed, Listed
  <2>2. \A i \in PassedOver : NotAskedFor(watch, i)
    BY <2>1 DEF PassedOver, WatchInv, Passes
  <2> QED BY <2>1, <2>2 DEF WatchInv, WatchPassesOver, Prints, InOrder, NotAskedFor
<1> QED BY <1>1, WatchInvHolds, PTL

----------------------------------------------------------------------------
(* The filter: values *)

\* Two values of the same kind differ in where they stand, and a null is none.
LEMMA ValueFacts ==
    ASSUME NEW v \in CellValues
    PROVE  /\ v = Null \/ (v.kind \in Kinds /\ v.at \in 0 .. 1)
           /\ v = [kind |-> v.kind, at |-> v.at]
           /\ v # Error
           /\ v.kind = "null" <=> v = Null
<1>1. CASE v = Null
  <2>1. Null = [kind |-> "null", at |-> 0] /\ Null.kind = "null" /\ Null.at = 0
    BY DEF Null
  <2>2. Error.kind = "error"
    BY DEF Error
  <2> QED BY <1>1, <2>1, <2>2
<1>2. CASE v # Null
  <2>1. PICK kind \in Kinds : v \in Of(kind)
    BY <1>2 DEF CellValues
  <2>2. PICK i \in 0 .. 1 : v = [kind |-> kind, at |-> i]
    BY <2>1 DEF Of
  <2>3. v.kind = kind /\ v.at = i
    BY <2>2
  <2>4. v.kind # "null" /\ v.kind # "error" /\ Null.kind = "null" /\ Error.kind = "error"
    BY <2>3 DEF Kinds, Null, Error
  <2> QED BY <2>2, <2>3, <2>4
<1> QED BY <1>1, <1>2

LEMMA CellFacts ==
    ASSUME FilterAssumption, NEW columns \in {Columns, FarColumns}, NEW r \in RowsOf(columns),
           NEW name \in DOMAIN columns
    PROVE  /\ r[name] \in CellValues
           /\ r[name] = Null => columns[name].nullable
           /\ r[name] # Null => r[name].kind = columns[name].kind
<1>1. columns[name] \in [kind : Kinds, nullable : BOOLEAN]
  BY DEF FilterAssumption
<1>2. r[name] \in ValuesOf(columns[name])
  BY DEF RowsOf
<1>3. \A v \in Of(columns[name].kind) : v \in CellValues /\ v # Null /\ v.kind = columns[name].kind
  <2> SUFFICES ASSUME NEW v \in Of(columns[name].kind)
               PROVE  v \in CellValues /\ v # Null /\ v.kind = columns[name].kind
    OBVIOUS
  <2>1. columns[name].kind \in Kinds
    BY <1>1
  <2>2. v \in CellValues
    BY <2>1 DEF CellValues
  <2>3. v.kind = columns[name].kind
    BY DEF Of
  <2>4. Null.kind = "null" /\ "null" \notin Kinds
    BY DEF Null, Kinds
  <2> QED BY <2>1, <2>2, <2>3, <2>4
<1>4. r[name] \in Of(columns[name].kind) \/ (columns[name].nullable /\ r[name] = Null)
  BY <1>2 DEF ValuesOf
<1>5. Null \in CellValues
  BY DEF CellValues
<1> QED BY <1>3, <1>4, <1>5, Zenon

LEMMA OperandFacts ==
    ASSUME NEW o \in Operands
    PROVE  \/ o.of = "literal" /\ o.value \in CellValues /\ o = Literal(o.value)
           \/ o.of \in {"bare", "base"} /\ o.name \in DOMAIN Columns /\ o = Column(o.of, o.name)
           \/ o.of = "far" /\ o.name \in DOMAIN FarColumns /\ o = Column("far", o.name)
<1>1. CASE o \in {Literal(v) : v \in CellValues}
  <2>1. PICK v \in CellValues : o = Literal(v)
    BY <1>1
  <2> QED BY <2>1 DEF Literal
<1>2. CASE o \in {Column(of, name) : of \in {"bare", "base"}, name \in DOMAIN Columns}
  <2>1. PICK of \in {"bare", "base"}, name \in DOMAIN Columns : o = Column(of, name)
    BY <1>2
  <2> QED BY <2>1 DEF Column
<1>3. CASE o \in {Column("far", name) : name \in DOMAIN FarColumns}
  <2>1. PICK name \in DOMAIN FarColumns : o = Column("far", name)
    BY <1>3
  <2> QED BY <2>1 DEF Column
<1> QED BY <1>1, <1>2, <1>3 DEF Operands

\* A column that resolves is one of its table's, and means the same row in both.
LEMMA ResolvedFacts ==
    ASSUME FilterAssumption, NEW o \in Operands, NEW walk \in {"row", "some", "one"},
           Resolve(o, walk) # NoColumn
    PROVE  /\ Resolve(o, walk) = IF o.of = "far" THEN FarColumns[o.name] ELSE Columns[o.name]
           /\ o.of = "far" => o.name \in DOMAIN FarColumns
           /\ o.of # "far" => o.name \in DOMAIN Columns
           /\ walk = "row" <=> o.of = "bare"
           /\ walk # "row" <=> o.of \in {"base", "far"}
           /\ Resolve(o, walk).kind \in Kinds /\ Resolve(o, walk).nullable \in BOOLEAN
           /\ Resolve(o, walk).nullable <=> MayBeNull(o)
<1>1. \/ walk = "row" /\ o.of = "bare" /\ Resolve(o, walk) = Columns[o.name]
      \/ walk # "row" /\ o.of = "base" /\ Resolve(o, walk) = Columns[o.name]
      \/ walk # "row" /\ o.of = "far" /\ Resolve(o, walk) = FarColumns[o.name]
  BY DEF Resolve
<1>2. /\ o.of = "far" => o.name \in DOMAIN FarColumns
      /\ o.of \in {"bare", "base"} => o.name \in DOMAIN Columns
      /\ o.of # "literal" => o # Literal(Null)
  <2>1. Literal(Null).of = "literal"
    BY DEF Literal
  <2>2. \/ o.of = "literal"
        \/ o.of \in {"bare", "base"} /\ o.name \in DOMAIN Columns
        \/ o.of = "far" /\ o.name \in DOMAIN FarColumns
    BY OperandFacts
  <2> QED BY <2>1, <2>2
<1>3. Resolve(o, walk) \in [kind : Kinds, nullable : BOOLEAN]
  BY <1>1, <1>2 DEF FilterAssumption
<1> QED BY <1>1, <1>2, <1>3 DEF MayBeNull

\* What an operand of a pushable comparison is worth, in CEL and in SQL.
LEMMA OperandsAgree ==
    ASSUME FilterAssumption, NEW o \in Operands, NEW walk \in {"row", "some", "one"},
           NEW r \in RowsOf(Columns), NEW f, walk = "row" \/ f \in RowsOf(FarColumns),
           o.of = "literal" \/ Resolve(o, walk) # NoColumn
    PROVE  /\ SqlValue(o, r, f, walk) = CelValue(o, r, f)
           /\ CelValue(o, r, f) \in CellValues
           /\ o.of = "literal" => CelValue(o, r, f) = o.value
           /\ o.of # "literal" =>
                /\ CelValue(o, r, f) = Null => Resolve(o, walk).nullable
                /\ CelValue(o, r, f) # Null => CelValue(o, r, f).kind = Resolve(o, walk).kind
<1>1. CASE o.of = "literal"
  BY <1>1, OperandFacts DEF SqlValue, CelValue
<1>2. CASE o.of # "literal"
  <2>1. /\ Resolve(o, walk) = IF o.of = "far" THEN FarColumns[o.name] ELSE Columns[o.name]
        /\ o.of = "far" => o.name \in DOMAIN FarColumns /\ walk # "row"
        /\ o.of # "far" => o.name \in DOMAIN Columns
        /\ o.of \in {"far", "base", "bare"} /\ (o.of = "bare" => walk = "row")
    BY <1>2, ResolvedFacts
  <2>2. CASE o.of = "far"
    <3>1. SqlValue(o, r, f, walk) = f[o.name] /\ CelValue(o, r, f) = f[o.name]
      BY <2>2 DEF SqlValue, CelValue
    <3> QED BY <1>2, <2>1, <2>2, <3>1, CellFacts
  <2>3. CASE o.of # "far"
    <3>1. SqlValue(o, r, f, walk) = r[o.name] /\ CelValue(o, r, f) = r[o.name]
      BY <1>2, <2>1, <2>3 DEF SqlValue, CelValue
    <3> QED BY <1>2, <2>1, <2>3, <3>1, CellFacts
  <2> QED BY <2>2, <2>3
<1> QED BY <1>1, <1>2

LEMMA AtomFacts ==
    ASSUME NEW a \in Atoms
    PROVE  /\ a.op \in {"==", "!=", "<", "!"} /\ a.left \in Operands /\ a.right \in Operands
           /\ a.op = "!" => a.right = a.left
BY DEF Atoms

\* A comparison of a shape that is pushed down is true in SQL when it is in CEL, but for two
\* columns that are both absent.
LEMMA AtomsAgree ==
    ASSUME FilterAssumption, NEW a \in Atoms, NEW walk \in {"row", "some", "one"},
           NEW r \in RowsOf(Columns), NEW f, walk = "row" \/ f \in RowsOf(FarColumns),
           PushableShape(a, walk),
           a.op = "==" /\ CelValue(a.left, r, f) = Null /\ CelValue(a.right, r, f) = Null =>
               Literal(Null) \in {a.left, a.right}
    PROVE  SqlAtom(a, r, f, walk) = "true" <=> CelAtom(a, r, f) = "true"
<1> DEFINE x == CelValue(a.left, r, f)
           y == CelValue(a.right, r, f)
           L == Resolve(a.left, walk)
           R == Resolve(a.right, walk)
<1>0. /\ a.op \in {"==", "!=", "<", "!"} /\ a.left \in Operands /\ a.right \in Operands
      /\ a.op = "!" => a.right = a.left
  BY AtomFacts
<1>1. /\ a.left.of = "literal" \/ L # NoColumn
      /\ a.right.of = "literal" \/ R # NoColumn
  <2>1. CASE a.op = "!"
    <3>1. L.kind = "boolean"
      BY <2>1 DEF PushableShape, NotAllowed
    <3>2. NoColumn.kind = "none"
      BY DEF NoColumn
    <3> QED BY <1>0, <2>1, <3>1, <3>2
  <2>2. CASE ComparesToLiteral(a, walk)
    <3>1. PICK l \in {a.left, a.right}, o \in {a.left, a.right} :
            Resolve(l, walk) # NoColumn /\ o.of = "literal"
      BY <2>2 DEF ComparesToLiteral
    <3>2. l # o
      BY <3>1 DEF Resolve
    <3> QED BY <3>1, <3>2
  <2>3. CASE ComparesColumns(a, walk)
    BY <2>3 DEF ComparesColumns
  <2> QED BY <2>1, <2>2, <2>3 DEF PushableShape
<1>2. /\ x = SqlValue(a.left, r, f, walk) /\ x \in CellValues
      /\ a.left.of = "literal" => x = a.left.value /\ a.left = Literal(a.left.value)
      /\ a.left.of # "literal" =>
            (x = Null => L.nullable) /\ (x # Null => x.kind = L.kind)
  BY <1>0, <1>1, OperandsAgree, OperandFacts
<1>3. /\ y = SqlValue(a.right, r, f, walk) /\ y \in CellValues
      /\ a.right.of = "literal" => y = a.right.value /\ a.right = Literal(a.right.value)
      /\ a.right.of # "literal" =>
            (y = Null => R.nullable) /\ (y # Null => y.kind = R.kind)
  BY <1>0, <1>1, OperandsAgree, OperandFacts
<1>4. /\ x # Error /\ y # Error
      /\ (x.kind = "null" <=> x = Null) /\ (y.kind = "null" <=> y = Null)
  BY <1>2, <1>3, ValueFacts
<1>5. /\ \A o : o.of # "literal" => o # Literal(Null)
      /\ Literal(Null).value = Null /\ Literal(Null).of = "literal"
      /\ NoColumn.kind = "none" /\ "none" \notin Kinds /\ "null" \notin Kinds
  <2>1. Literal(Null).value = Null /\ Literal(Null).of = "literal"
    BY DEF Literal
  <2>2. NoColumn.kind = "none" /\ "none" \notin Kinds /\ "null" \notin Kinds
    BY DEF NoColumn, Kinds
  <2> QED BY <2>1, <2>2
<1>6. /\ (L # NoColumn /\ L.kind \in Kinds) \/ a.left.of = "literal"
      /\ (R # NoColumn /\ R.kind \in Kinds) \/ a.right.of = "literal"
  <2>1. \A o \in Operands : Resolve(o, walk) # NoColumn => Resolve(o, walk).kind \in Kinds
    BY ResolvedFacts
  <2> QED BY <1>0, <1>1, <2>1
<1>7. CelAtom(a, r, f) =
        CASE a.op = "==" -> Truth(x = y)
          [] a.op = "!=" -> Truth(x # y)
          [] a.op = "<" -> IF x.kind = y.kind /\ x.kind # "null" THEN Truth(x.at < y.at) ELSE "error"
          [] a.op = "!" -> IF x.kind = "boolean" THEN Truth(x.at = 0) ELSE "error"
  BY <1>4 DEF CelAtom
<1>8. SqlAtom(a, r, f, walk) =
        IF Null \in {x, y} /\ ~(ComparesNull(a) /\ a.op \in {"==", "!="}) THEN "null"
        ELSE CASE a.op = "==" -> Truth(x = y)
               [] a.op = "!=" -> Truth(x # y)
               [] a.op = "<" -> Truth(Before(x, y))
               [] a.op = "!" -> Truth(x.kind = "text" \/ x.at = 0)
  BY <1>2, <1>3 DEF SqlAtom
<1> HIDE DEF x, y, L, R
<1>9. CASE a.op = "!"
  <2>1. L.kind = "boolean" /\ ~L.nullable
    BY <1>9 DEF PushableShape, NotAllowed, L
  <2>2. a.left.of # "literal" 
    <3>1. a.left.of = "literal" => L = NoColumn
      BY DEF L, Resolve
    <3> QED BY <1>5, <2>1, <3>1
  <2>3. x # Null /\ x.kind = "boolean" /\ y = x
    BY <1>0, <1>2, <1>9, <2>1, <2>2 DEF x, y
  <2> QED BY <1>7, <1>8, <1>9, <2>3
<1>10. CASE a.op # "!" /\ ComparesColumns(a, walk)
  <2>1. L # NoColumn /\ R # NoColumn /\ L.kind = R.kind
        /\ (a.op = "!=" => ~L.nullable /\ ~R.nullable)
    BY <1>10 DEF ComparesColumns, L, R
  <2>2. a.left.of # "literal" /\ a.right.of # "literal"
    BY <2>1 DEF L, R, Resolve
  <2>3. ~ComparesNull(a)
    BY <1>5, <2>2 DEF ComparesNull
  <2>4. ~(a.op = "==" /\ x = Null /\ y = Null)
    BY <2>3 DEF ComparesNull, x, y
  <2>5. a.op = "!=" => x # Null /\ y # Null
    BY <1>2, <1>3, <2>1, <2>2
  <2>6. x # Null /\ y # Null => x.kind = y.kind /\ x.kind # "null"
    BY <1>2, <1>3, <1>4, <2>1, <2>2
  <2>7. a.op \in {"==", "!=", "<"}
    BY <1>0, <1>10
  <2>8. CASE a.op = "=="
    BY <1>7, <1>8, <2>3, <2>4, <2>8 DEF Truth
  <2>9. CASE a.op = "!="
    BY <1>7, <1>8, <2>3, <2>5, <2>9
  <2>10. CASE a.op = "<"
    BY <1>4, <1>7, <1>8, <2>3, <2>6, <2>10 DEF Truth, Before
  <2> QED BY <2>7, <2>8, <2>9, <2>10
<1>11. CASE a.op # "!" /\ ComparesToLiteral(a, walk)
  <2> DEFINE Literally(c, v, o) ==
               /\ c # NoColumn /\ o.of = "literal"
               /\ \/ a.op = "==" /\ (v.kind = "null" \/ v.kind = c.kind)
                  \/ a.op = "!=" /\ (v.kind = "null" \/ (v.kind = c.kind /\ ~c.nullable))
                  \/ a.op = "<" /\ v.kind = c.kind
  <2>1. Literally(L, a.right.value, a.right) \/ Literally(R, a.left.value, a.left)
    <3>1. PICK l \in {a.left, a.right}, o \in {a.left, a.right} :
            Literally(Resolve(l, walk), o.value, o)
      BY <1>11 DEF ComparesToLiteral, EqualsRule, NotEqualsRule, OrderedRule
    <3>2. l # o
      BY <3>1 DEF Resolve
    <3> QED BY <3>1, <3>2 DEF L, R
  <2>2. a.op \in {"==", "!=", "<"}
    BY <1>0, <1>11
  <2>3. CASE Literally(L, a.right.value, a.right)
    <3>1. a.left.of # "literal" /\ a.right.of = "literal" /\ L.kind \in Kinds
      BY <1>6, <2>3 DEF L, Resolve
    <3>2. ComparesNull(a) <=> y = Null
      BY <1>3, <1>5, <3>1 DEF ComparesNull
    <3>3. y # Null => y.kind = L.kind /\ (a.op = "!=" => x # Null) /\ (x # Null => x.kind = y.kind)
      BY <1>2, <1>3, <1>4, <2>2, <2>3, <3>1
    <3>4. y = Null => a.op # "<"
      BY <1>3, <1>4, <1>5, <2>3, <3>1
    <3>5. CASE a.op = "=="
      BY <1>7, <1>8, <3>2, <3>3, <3>5 DEF Truth
    <3>6. CASE a.op = "!="
      BY <1>7, <1>8, <3>2, <3>3, <3>6
    <3>7. CASE a.op = "<"
      BY <1>4, <1>7, <1>8, <3>2, <3>3, <3>4, <3>7 DEF Truth, Before
    <3> QED BY <2>2, <3>5, <3>6, <3>7
  <2>4. CASE Literally(R, a.left.value, a.left)
    <3>1. a.right.of # "literal" /\ a.left.of = "literal" /\ R.kind \in Kinds
      BY <1>6, <2>4 DEF R, Resolve
    <3>2. ComparesNull(a) <=> x = Null
      BY <1>2, <1>5, <3>1 DEF ComparesNull
    <3>3. x # Null => x.kind = R.kind /\ (a.op = "!=" => y # Null) /\ (y # Null => x.kind = y.kind)
      BY <1>2, <1>3, <1>4, <2>2, <2>4, <3>1
    <3>4. x = Null => a.op # "<"
      BY <1>2, <1>4, <1>5, <2>4, <3>1
    <3>5. CASE a.op = "=="
      BY <1>7, <1>8, <3>2, <3>3, <3>5 DEF Truth
    <3>6. CASE a.op = "!="
      BY <1>7, <1>8, <3>2, <3>3, <3>6
    <3>7. CASE a.op = "<"
      BY <1>4, <1>7, <1>8, <3>2, <3>3, <3>4, <3>7 DEF Truth, Before
    <3> QED BY <2>2, <3>5, <3>6, <3>7
  <2> QED BY <2>1, <2>3, <2>4
<1> QED BY <1>9, <1>10, <1>11 DEF PushableShape

----------------------------------------------------------------------------
(* The filter: terms *)

LEMMA AnyOfFact ==
    ASSUME NEW S
    PROVE  AnyOf(S) = "true" <=> "true" \in S
BY DEF AnyOf

\* The relation's rows a term is about: as many as there are, but at most one of a to-one.
About(term, fs) ==
    /\ term \in Terms /\ term.walk # "none"
    /\ term.walk = "one" =>
          (\A a \in term.test : \E o \in {a.left, a.right} : o.of = "far") /\ \A f, g \in fs : f = g

Holds(test, r, f) == \E a \in test : CelAtom(a, r, f) = "true"

LEMMA TestMeans ==
    ASSUME NEW test, NEW r, NEW f
    PROVE  CelTest(test, r, f) = "true" <=> Holds(test, r, f)
BY AnyOfFact DEF CelTest, Holds

\* A term is true when a comparison of it is, of some row it is about.
LEMMA TermMeans ==
    ASSUME NEW term, NEW fs, About(term, fs), NEW r
    PROVE  CelTerm(term, r, fs) = "true" <=>
               IF term.walk = "row" THEN Holds(term.test, r, NoRow)
               ELSE \E f \in fs : Holds(term.test, r, f)
<1>1. term.walk \in {"row", "some", "one"} /\ term.test \subseteq Atoms
  BY DEF About, Terms
<1>2. CASE term.walk = "row"
  <2>1. CelTerm(term, r, fs) = CelTest(term.test, r, NoRow)
    BY <1>2 DEF CelTerm
  <2> QED BY <1>2, <2>1, TestMeans
<1>3. CASE term.walk = "some"
  <2>1. CelTerm(term, r, fs) = AnyOf({CelTest(term.test, r, f) : f \in fs})
    BY <1>3 DEF CelTerm
  <2>2. CelTerm(term, r, fs) = "true" <=> \E f \in fs : CelTest(term.test, r, f) = "true"
    <3>1. CelTerm(term, r, fs) = "true" <=> "true" \in {CelTest(term.test, r, f) : f \in fs}
      BY <2>1, AnyOfFact
    <3> QED BY <3>1
  <2> QED BY <1>3, <2>2, TestMeans
<1>4. CASE term.walk = "one"
  <2>1. CelTerm(term, r, fs) = CelTest(term.test, r, IF fs = {} THEN NoRow ELSE CHOOSE f \in fs : TRUE)
    BY <1>4 DEF CelTerm
  <2>2. CASE fs = {}
    <3>1. \A a \in term.test : CelAtom(a, r, NoRow) # "true"
      <4> SUFFICES ASSUME NEW a \in term.test
                   PROVE  CelAtom(a, r, NoRow) # "true"
        OBVIOUS
      <4>1. PICK o \in {a.left, a.right} : o.of = "far"
        BY <1>4 DEF About
      <4>2. o \in Operands
        BY <1>1, AtomFacts
      <4>3. o.name \in DOMAIN FarColumns
        BY <4>1, <4>2, OperandFacts
      <4>4. CelValue(o, r, NoRow) = Error
        BY <4>1, <4>3 DEF CelValue, NoRow
      <4>5. CelValue(a.left, r, NoRow) = Error \/ CelValue(a.right, r, NoRow) = Error
        BY <4>4
      <4> QED BY <4>5 DEF CelAtom
    <3>2. CelTerm(term, r, fs) = CelTest(term.test, r, NoRow)
      BY <2>1, <2>2
    <3> QED BY <1>4, <2>2, <3>1, <3>2, TestMeans DEF Holds
  <2>3. CASE fs # {}
    <3>1. PICK g \in fs : g = CHOOSE f \in fs : TRUE
      BY <2>3
    <3>2. CelTerm(term, r, fs) = CelTest(term.test, r, g)
      BY <2>1, <2>3, <3>1
    <3>3. \A f \in fs : f = g
      BY <1>4 DEF About
    <3> QED BY <1>4, <3>2, <3>3, TestMeans
  <2> QED BY <2>2, <2>3
<1> QED BY <1>1, <1>2, <1>3, <1>4

LEMMA SqlOfAbsent ==
    ASSUME NEW a, NEW r, NEW f, NEW walk, ~ComparesNull(a), SqlValue(a.left, r, f, walk) = Null
    PROVE  SqlAtom(a, r, f, walk) = "null"
BY DEF SqlAtom

\* A column of the listed row that may be absent is compared with itself by no term of the
\* row that is pushed down: of an absent one the probe finds that SQL and CEL disagree.
LEMMA ProbedApart ==
    ASSUME FilterAssumption, NEW term \in Terms, term.walk = "row", Pushable(term), AskedPlainly(term),
           NEW a \in term.test, a.op = "==", a.left = a.right, a.left.of = "bare"
    PROVE  ~MayBeNull(a.left)
<1> SUFFICES ASSUME MayBeNull(a.left)
             PROVE  FALSE
  OBVIOUS
<1>0. a \in Atoms /\ a.left \in Operands
  BY AtomFacts DEF Terms
<1>1. term.test = {a}
  <2>1. term.walk = "row" => (a.op = "==" /\ a.left = a.right /\ MayBeNull(a.left) => term.test = {a})
    BY SMT DEF AskedPlainly
  <2> QED BY <2>1
<1>2. a.left.name \in DOMAIN Columns /\ Columns[a.left.name].nullable /\ a.left # Literal(Null)
  <2>1. Literal(Null).of = "literal"
    BY DEF Literal
  <2>2. a.left.name \in DOMAIN Columns
    BY <1>0, OperandFacts
  <2> QED BY <2>1, <2>2 DEF MayBeNull
<1>3. BaseRow[a.left.name] = Null
  BY <1>2 DEF BaseRow
<1>4. CelValue(a.left, BaseRow, NoRow) = Null /\ SqlValue(a.left, BaseRow, NoRow, "row") = Null
  BY <1>3 DEF CelValue, SqlValue
<1>5. Null # Error
  BY DEF Null, Error
<1>6. CelAtom(a, BaseRow, NoRow) = "true"
  BY <1>4, <1>5 DEF CelAtom, Truth
<1>7. SqlAtom(a, BaseRow, NoRow, "row") = "null"
  <2>1. ~ComparesNull(a)
    BY <1>2 DEF ComparesNull
  <2>2. SqlValue(a.left, BaseRow, NoRow, "row") = Null /\ SqlValue(a.right, BaseRow, NoRow, "row") = Null
    BY <1>4
  <2> QED BY <2>1, <2>2, SqlOfAbsent
<1>8. Agrees(term.test) /\ BaseRow \in Samples(term.test)
  BY DEF Pushable, Samples
<1>9. SqlTest(term.test, BaseRow, NoRow, "row") <=> CelTest(term.test, BaseRow, NoRow) = "true"
  BY <1>8 DEF Agrees
<1> QED BY <1>1, <1>6, <1>7, <1>9, TestMeans DEF SqlTest, Holds

\* A term of the row that is pushed down never finds two columns absent in one comparison.
LEMMA NeverBothAbsent ==
    ASSUME FilterAssumption, NEW term \in Terms, term.walk = "row", Pushable(term), AskedPlainly(term),
           NEW r \in RowsOf(Columns), NEW a \in term.test, a.op = "==",
           CelValue(a.left, r, NoRow) = Null, CelValue(a.right, r, NoRow) = Null
    PROVE  Literal(Null) \in {a.left, a.right}
<1> DEFINE Nullables == {name \in NamedIn(term.test) : Columns[name].nullable}
<1>0. a \in Atoms /\ a.left \in Operands /\ a.right \in Operands /\ PushableShape(a, "row")
  BY AtomFacts DEF Terms, Pushable
<1>1. ComparesToLiteral(a, "row") \/ ComparesColumns(a, "row")
  BY <1>0 DEF PushableShape
<1>2. CASE ComparesToLiteral(a, "row")
  <2>1. PICK l \in {a.left, a.right}, o \in {a.left, a.right} :
          Resolve(l, "row") # NoColumn /\ o.of = "literal"
    BY <1>2 DEF ComparesToLiteral
  <2>2. o = Literal(o.value) /\ CelValue(o, r, NoRow) = o.value
    BY <1>0, <2>1, OperandFacts DEF CelValue
  <2>3. CelValue(o, r, NoRow) = Null
    BY <2>1
  <2> QED BY <2>1, <2>2, <2>3
<1>3. CASE ComparesColumns(a, "row")
  <2>1. Resolve(a.left, "row") # NoColumn /\ Resolve(a.right, "row") # NoColumn
    BY <1>3 DEF ComparesColumns
  <2>2. \A o \in {a.left, a.right} :
          /\ o.of = "bare" /\ o.name \in DOMAIN Columns /\ o = Column("bare", o.name)
          /\ CelValue(o, r, NoRow) = r[o.name] /\ Columns[o.name].nullable
    <3> SUFFICES ASSUME NEW o \in {a.left, a.right}
                 PROVE  /\ o.of = "bare" /\ o.name \in DOMAIN Columns /\ o = Column("bare", o.name)
                        /\ CelValue(o, r, NoRow) = r[o.name] /\ Columns[o.name].nullable
      OBVIOUS
    <3>1. o.of = "bare" /\ o.name \in DOMAIN Columns
      BY <1>0, <2>1, ResolvedFacts DEF Resolve
    <3>2. o = Column("bare", o.name)
      BY <1>0, <3>1, OperandFacts
    <3>3. CelValue(o, r, NoRow) = r[o.name]
      BY <3>1 DEF CelValue
    <3>4. r[o.name] = Null
      BY <3>3
    <3> QED BY <3>1, <3>2, <3>3, <3>4, CellFacts
  <2>3. a.left.name \in Nullables /\ a.right.name \in Nullables
    BY <2>2 DEF NamedIn
  <2>4. IsFiniteSet(Nullables) /\ Cardinality(Nullables) <= 1
    <3>1. Nullables \subseteq DOMAIN Columns
      BY DEF NamedIn
    <3>2. Cardinality(Nullables) <= 1
      BY DEF Pushable
    <3> QED BY <3>1, <3>2, FS_Subset DEF FilterAssumption
  <2>5. a.left.name = a.right.name
    <3> HIDE DEF Nullables
    <3> SUFFICES ASSUME a.left.name # a.right.name
                 PROVE  FALSE
      OBVIOUS
    <3>1. {a.left.name, a.right.name} \subseteq Nullables
      BY <2>3
    <3>2. Cardinality({a.left.name, a.right.name}) <= Cardinality(Nullables)
      BY <2>4, <3>1, FS_Subset
    <3>3. Cardinality({a.left.name}) = 1 /\ IsFiniteSet({a.left.name})
      BY FS_Singleton
    <3>4. Cardinality({a.left.name} \cup {a.right.name}) = 2
      BY <3>3, FS_AddElement
    <3>5. {a.left.name} \cup {a.right.name} = {a.left.name, a.right.name}
      OBVIOUS
    <3>6. Cardinality(Nullables) \in Nat
      BY <2>4, FS_CardinalityType
    <3> QED BY <2>4, <3>2, <3>4, <3>5, <3>6
  <2>6. a.left = a.right /\ a.left.of = "bare"
    BY <2>2, <2>5
  <2>7. MayBeNull(a.left)
    BY <2>2, <2>6 DEF MayBeNull
  <2> QED BY <2>6, <2>7, ProbedApart
<1> QED BY <1>1, <1>2, <1>3

\* What is asked plainly of a relation.
LEMMA Plainly ==
    ASSUME NEW term, AskedPlainly(term), term.walk # "row", NEW a \in term.test
    PROVE  /\ a.op = "==" /\ MayBeNull(a.left) /\ MayBeNull(a.right) =>
                Literal(Null) \in {a.left, a.right} /\ a.left.of # "far" /\ a.right.of # "far"
           /\ a.op = "!=" => /\ ~(a.left.of = "far" /\ MayBeNull(a.left))
                             /\ ~(a.right.of = "far" /\ MayBeNull(a.right))
           /\ term.walk = "one" => \E o \in {a.left, a.right} : o.of = "far"
BY DEF AskedPlainly

LEMMA PlainAbout ==
    ASSUME NEW term \in Terms, AskedPlainly(term), NEW fs,
           term.walk = "one" => \A f, g \in fs : f = g
    PROVE  About(term, fs)
BY Plainly DEF About, AskedPlainly

LEMMA ValueMayBeNull ==
    ASSUME FilterAssumption, NEW o \in Operands, NEW r \in RowsOf(Columns), NEW f \in RowsOf(FarColumns)
    PROVE  CelValue(o, r, f) = Null => MayBeNull(o)
<1>1. CASE o.of = "literal"
  BY <1>1, OperandFacts DEF CelValue, MayBeNull
<1>2. CASE o.of \in {"bare", "base"}
  <2>1. o.name \in DOMAIN Columns /\ CelValue(o, r, f) = r[o.name]
    BY <1>2, OperandFacts DEF CelValue
  <2> QED BY <1>2, <2>1, CellFacts DEF MayBeNull
<1>3. CASE o.of = "far"
  <2>1. o.name \in DOMAIN FarColumns /\ CelValue(o, r, f) = f[o.name]
    BY <1>3, OperandFacts DEF CelValue
  <2> QED BY <1>3, <2>1, CellFacts DEF MayBeNull
<1> QED BY <1>1, <1>2, <1>3, OperandFacts

\* The query lists by a term that was pushed down what CEL lists by it, and no more but for
\* a disjunction about related rows.
LEMMA TermsAgree ==
    ASSUME FilterAssumption, NEW term \in Terms, Pushable(term), AskedPlainly(term),
           NEW r \in RowsOf(Columns), NEW fs, fs \subseteq RowsOf(FarColumns), NEW gs,
           term.walk = "one" => \A f, g \in fs : f = g
    PROVE  /\ CelTerm(term, r, fs) = "true" => SqlTerm(term, r, fs, gs)
           /\ SqlTerm(term, r, fs, gs) /\ (term.walk = "row" \/ term.also = {}) =>
                 CelTerm(term, r, fs) = "true"
<1>1. term.walk \in {"row", "some", "one"} /\ term.test \subseteq Atoms
      /\ \A a \in term.test : PushableShape(a, term.walk)
  BY DEF AskedPlainly, Terms, Pushable
<1>2. About(term, fs)
  BY PlainAbout
<1>3. CASE term.walk = "row"
  <2>1. \A a \in term.test : SqlAtom(a, r, NoRow, "row") = "true" <=> CelAtom(a, r, NoRow) = "true"
    BY <1>1, <1>3, NeverBothAbsent, AtomsAgree
  <2>2. SqlTerm(term, r, fs, gs) <=> SqlTest(term.test, r, NoRow, "row")
    BY <1>3 DEF SqlTerm
  <2> QED BY <1>2, <1>3, <2>1, <2>2, TermMeans DEF SqlTest, Holds
<1>4. CASE term.walk # "row"
  <2>1. \A f \in fs : \A a \in term.test :
            SqlAtom(a, r, f, term.walk) = "true" <=> CelAtom(a, r, f) = "true"
    <3> SUFFICES ASSUME NEW f \in fs, NEW a \in term.test
                 PROVE  SqlAtom(a, r, f, term.walk) = "true" <=> CelAtom(a, r, f) = "true"
      OBVIOUS
    <3>1. f \in RowsOf(FarColumns) /\ a \in Atoms /\ a.left \in Operands /\ a.right \in Operands
      BY <1>1, AtomFacts
    <3>2. a.op = "==" /\ CelValue(a.left, r, f) = Null /\ CelValue(a.right, r, f) = Null =>
              Literal(Null) \in {a.left, a.right}
      BY <1>4, <3>1, ValueMayBeNull, Plainly
    <3> QED BY <1>1, <3>1, <3>2, AtomsAgree
  <2>2. SqlTerm(term, r, fs, gs) <=> SqlRelated(term, r, fs, gs)
    BY <1>1, <1>4 DEF SqlTerm
  <2>3. \A f \in fs : SqlTest(term.test, r, f, term.walk) <=> Holds(term.test, r, f)
    BY <2>1 DEF SqlTest, Holds
  <2>4. CelTerm(term, r, fs) = "true" <=> \E f \in fs : SqlTest(term.test, r, f, term.walk)
    BY <1>2, <1>4, <2>3, TermMeans
  <2>5. term.also = {} => ~\E g \in gs : SqlTest(term.also, r, g, term.walk)
    BY DEF SqlTest
  <2> QED BY <1>4, <2>2, <2>4, <2>5 DEF SqlRelated
<1> QED BY <1>3, <1>4

\* That a far row is read without what is absent from it changes no comparison asked plainly.
LEMMA AtomsReadAlike ==
    ASSUME FilterAssumption, NEW term \in Terms, AskedPlainly(term), term.walk # "row",
           NEW a \in term.test, NEW r \in RowsOf(Columns), NEW f \in RowsOf(FarColumns)
    PROVE  CelAtom(a, r, AsRead(f)) = "true" <=> CelAtom(a, r, f) = "true"
<1> DEFINE Lost(o) == o.of = "far" /\ CelValue(o, r, f) = Null
<1>0. /\ a \in Atoms /\ a.left \in Operands /\ a.right \in Operands
      /\ a.op \in {"==", "!=", "<", "!"} /\ (a.op = "!" => a.right = a.left)
  BY AtomFacts DEF Terms
<1>1. \A o \in {a.left, a.right} :
          CelValue(o, r, AsRead(f)) = IF Lost(o) THEN Error ELSE CelValue(o, r, f)
  <2> SUFFICES ASSUME NEW o \in {a.left, a.right}
               PROVE  CelValue(o, r, AsRead(f)) = IF Lost(o) THEN Error ELSE CelValue(o, r, f)
    OBVIOUS
  <2>1. CASE o.of = "far"
    <3>1. o.name \in DOMAIN FarColumns
      BY <1>0, <2>1, OperandFacts
    <3>2. DOMAIN f = DOMAIN FarColumns
      BY DEF RowsOf
    <3>3. AsRead(f)[o.name] = IF f[o.name] = Null THEN Error ELSE f[o.name]
      BY <3>1, <3>2 DEF AsRead
    <3> QED BY <2>1, <3>3 DEF CelValue
  <2>2. CASE o.of # "far"
    BY <2>2 DEF CelValue
  <2> QED BY <2>1, <2>2
<1>2. CASE ~Lost(a.left) /\ ~Lost(a.right)
  <2>1. /\ CelValue(a.left, r, AsRead(f)) = CelValue(a.left, r, f)
        /\ CelValue(a.right, r, AsRead(f)) = CelValue(a.right, r, f)
    BY <1>1, <1>2
  <2> QED BY <2>1 DEF CelAtom
<1>3. CASE Lost(a.left) \/ Lost(a.right)
  <2>1. CelAtom(a, r, AsRead(f)) = "error"
    <3>1. CelValue(a.left, r, AsRead(f)) = Error \/ CelValue(a.right, r, AsRead(f)) = Error
      BY <1>1, <1>3
    <3> QED BY <3>1 DEF CelAtom
  <2>2. CelAtom(a, r, f) # "true"
    <3> DEFINE x == CelValue(a.left, r, f)
               y == CelValue(a.right, r, f)
    <3>1. CelAtom(a, r, f) = "true" =>
            \/ a.op = "==" /\ x = y
            \/ a.op = "!="
            \/ a.op = "<" /\ x.kind = y.kind /\ x.kind # "null"
            \/ a.op = "!" /\ x.kind = "boolean"
      BY <1>0 DEF CelAtom, Truth
    <3>2. /\ x = Null => MayBeNull(a.left)
          /\ y = Null => MayBeNull(a.right)
      BY <1>0, ValueMayBeNull
    <3>3. (a.left.of = "far" /\ x = Null) \/ (a.right.of = "far" /\ y = Null)
      BY <1>3
    <3>4. /\ a.op = "==" /\ MayBeNull(a.left) /\ MayBeNull(a.right) =>
                a.left.of # "far" /\ a.right.of # "far"
          /\ a.op = "!=" => /\ ~(a.left.of = "far" /\ MayBeNull(a.left))
                            /\ ~(a.right.of = "far" /\ MayBeNull(a.right))
      BY Plainly
    <3>5. Null.kind = "null"
      BY DEF Null
    <3>6. a.op = "!" => x = y
      BY <1>0
    <3> HIDE DEF x, y
    <3> QED BY <3>1, <3>2, <3>3, <3>4, <3>5, <3>6
  <2> QED BY <2>1, <2>2
<1> QED BY <1>2, <1>3

LEMMA TermsReadAlike ==
    ASSUME FilterAssumption, NEW term \in Terms, AskedPlainly(term),
           NEW r \in RowsOf(Columns), NEW fs, fs \subseteq RowsOf(FarColumns),
           term.walk = "one" => \A f, g \in fs : f = g
    PROVE  CelTerm(term, r, {AsRead(f) : f \in fs}) = "true" <=> CelTerm(term, r, fs) = "true"
<1> DEFINE read == {AsRead(f) : f \in fs}
<1>1. About(term, fs)
  BY PlainAbout
<1>2. term.walk = "one" => \A f, g \in read : f = g
  <2> SUFFICES ASSUME term.walk = "one", NEW f \in read, NEW g \in read
               PROVE  f = g
    OBVIOUS
  <2>1. \E p \in fs : f = AsRead(p)
    BY Zenon
  <2>2. \E p \in fs : g = AsRead(p)
    BY Zenon
  <2> QED BY <2>1, <2>2
<1>3. About(term, read)
  <2> HIDE DEF read
  <2> QED BY <1>2, PlainAbout
<1>4. term.walk # "row" => \A f \in fs : Holds(term.test, r, AsRead(f)) <=> Holds(term.test, r, f)
  BY AtomsReadAlike DEF Holds
<1>5. (\E g \in read : Holds(term.test, r, g)) <=> \E f \in fs : Holds(term.test, r, AsRead(f))
  OBVIOUS
<1>6. CelTerm(term, r, read) = "true" <=> CelTerm(term, r, fs) = "true"
  <2> HIDE DEF read
  <2>1. CASE term.walk = "row"
    BY <1>1, <1>3, <2>1, TermMeans
  <2>2. CASE term.walk # "row"
    BY <1>1, <1>3, <1>4, <1>5, <2>2, TermMeans
  <2> QED BY <2>1, <2>2
<1> QED BY <1>6

----------------------------------------------------------------------------
(* The filter: the listing *)

LEMMA AppendFacts ==
    ASSUME NEW S, NEW s \in Seq(S), NEW e \in S
    PROVE  /\ Append(s, e) \in Seq(S) /\ Len(Append(s, e)) = Len(s) + 1 /\ Len(s) \in Nat
           /\ DOMAIN s = 1 .. Len(s) /\ DOMAIN Append(s, e) = 1 .. (Len(s) + 1)
           /\ \A i \in DOMAIN s : Append(s, e)[i] = s[i]
           /\ Append(s, e)[Len(s) + 1] = e
OBVIOUS

\* The first n terms of e are those of w, which the query may answer, and those of d.
SplitInto(e, n, w, d) ==
    /\ \A i \in DOMAIN w : Pushable(w[i])
    /\ \A i \in 1 .. n : (\E j \in DOMAIN w : w[j] = e[i]) \/ (\E j \in DOMAIN d : d[j] = e[i])
    /\ \A j \in DOMAIN w : \E i \in 1 .. n : w[j] = e[i]
    /\ \A j \in DOMAIN d : \E i \in 1 .. n : d[j] = e[i]

Split == SplitInto(filter, Compiled, listing.where, listing.residual)

LEMMA SplitGrows ==
    ASSUME NEW e, NEW n \in Nat, NEW w \in Seq(Terms), NEW d \in Seq(Terms), SplitInto(e, n, w, d),
           NEW term \in Terms, term = e[n + 1]
    PROVE  /\ Pushable(term) => SplitInto(e, n + 1, Append(w, term), d)
           /\ SplitInto(e, n + 1, w, Append(d, term))
<1>0. /\ \A i \in DOMAIN w : Pushable(w[i])
      /\ \A i \in 1 .. n : (\E j \in DOMAIN w : w[j] = e[i]) \/ (\E j \in DOMAIN d : d[j] = e[i])
      /\ \A j \in DOMAIN w : \E i \in 1 .. n : w[j] = e[i]
      /\ \A j \in DOMAIN d : \E i \in 1 .. n : d[j] = e[i]
  BY DEF SplitInto
<1>1. \A i : i \in 1 .. n + 1 <=> i \in 1 .. n \/ i = n + 1
  OBVIOUS
<1>2. /\ \A s \in Seq(Terms) : \A i : i \in DOMAIN Append(s, term) <=> i \in DOMAIN s \/ i = Len(s) + 1
      /\ \A s \in Seq(Terms) : Append(s, term)[Len(s) + 1] = term
      /\ \A s \in Seq(Terms) : \A i \in DOMAIN s : Append(s, term)[i] = s[i]
  BY AppendFacts
<1> DEFINE W == Append(w, term)
           D == Append(d, term)
<1>3. /\ \A i : i \in DOMAIN W <=> i \in DOMAIN w \/ i = Len(w) + 1
      /\ W[Len(w) + 1] = term /\ \A i \in DOMAIN w : W[i] = w[i]
  BY <1>2
<1>4. /\ \A i : i \in DOMAIN D <=> i \in DOMAIN d \/ i = Len(d) + 1
      /\ D[Len(d) + 1] = term /\ \A i \in DOMAIN d : D[i] = d[i]
  BY <1>2
<1> HIDE DEF W, D
<1>5. ASSUME Pushable(term)
      PROVE  SplitInto(e, n + 1, W, d)
  <2>1. \A i \in DOMAIN W : Pushable(W[i])
    BY <1>0, <1>3, <1>5
  <2>2. \A i \in 1 .. n + 1 : (\E j \in DOMAIN W : W[j] = e[i]) \/ (\E j \in DOMAIN d : d[j] = e[i])
    <3>1. \A i \in 1 .. n : (\E j \in DOMAIN W : W[j] = e[i]) \/ (\E j \in DOMAIN d : d[j] = e[i])
      BY <1>0, <1>3
    <3>2. \E j \in DOMAIN W : W[j] = e[n + 1]
      BY <1>3
    <3> QED BY <1>1, <3>1, <3>2
  <2>3. \A j \in DOMAIN W : \E i \in 1 .. n + 1 : W[j] = e[i]
    BY <1>0, <1>1, <1>3
  <2>4. \A j \in DOMAIN d : \E i \in 1 .. n + 1 : d[j] = e[i]
    BY <1>0, <1>1
  <2> QED BY <2>1, <2>2, <2>3, <2>4 DEF SplitInto
<1>6. SplitInto(e, n + 1, w, D)
  <2>1. \A i \in 1 .. n + 1 : (\E j \in DOMAIN w : w[j] = e[i]) \/ (\E j \in DOMAIN D : D[j] = e[i])
    <3>1. \A i \in 1 .. n : (\E j \in DOMAIN w : w[j] = e[i]) \/ (\E j \in DOMAIN D : D[j] = e[i])
      BY <1>0, <1>4
    <3>2. \E j \in DOMAIN D : D[j] = e[n + 1]
      BY <1>4
    <3> QED BY <1>1, <3>1, <3>2
  <2>2. \A j \in DOMAIN w : \E i \in 1 .. n + 1 : w[j] = e[i]
    BY <1>0, <1>1
  <2>3. \A j \in DOMAIN D : \E i \in 1 .. n + 1 : D[j] = e[i]
    BY <1>0, <1>1, <1>4
  <2> QED BY <1>0, <2>1, <2>2, <2>3 DEF SplitInto
<1> QED BY <1>5, <1>6 DEF W, D

Listings == [at : {"compile", "read", "done", "refused"}, where : Seq(Terms), residual : Seq(Terms),
             taken : BOOLEAN, kept : BOOLEAN]

FilterInv ==
    /\ filter \in Filters /\ row \in RowsOf(Columns) /\ far \subseteq RowsOf(FarColumns)
    /\ (\E i \in DOMAIN filter : filter[i].walk = "one") => \A f, g \in far : f = g
    /\ listing \in Listings
    /\ Compiled <= Len(filter)
    /\ Split
    /\ listing.at = "compile" => ~listing.taken /\ ~listing.kept
    /\ listing.at # "compile" => Compiled = Len(filter)
    /\ listing.at = "read" =>
          /\ ~listing.kept
          /\ listing.taken => \A i \in DOMAIN listing.where : SqlTerm(listing.where[i], row, far, others)
    /\ listing.at = "refused" => ~listing.kept /\ Remains # <<>>
    /\ ListedAsCelSays

\* Each term of the filter in hand is asked plainly, of a row and of related rows there are.
LEMMA FilterFacts ==
    ASSUME FilterAssumption, \A terms \in Filters : \A i \in DOMAIN terms : AskedPlainly(terms[i]),
           filter \in Filters, row \in RowsOf(Columns), far \subseteq RowsOf(FarColumns),
           (\E i \in DOMAIN filter : filter[i].walk = "one") => \A f, g \in far : f = g
    PROVE  /\ filter \in Seq(Terms) /\ Len(filter) \in Nat /\ DOMAIN filter = 1 .. Len(filter)
           /\ \A i \in DOMAIN filter :
                /\ filter[i] \in Terms /\ AskedPlainly(filter[i])
                /\ Pushable(filter[i]) =>
                      /\ CelTerm(filter[i], row, far) = "true" => SqlTerm(filter[i], row, far, others)
                      /\ SqlTerm(filter[i], row, far, others) /\ ~AsksOr(filter) =>
                            CelTerm(filter[i], row, far) = "true"
                /\ CelTerm(filter[i], row, {AsRead(f) : f \in far}) = "true"
                      <=> CelTerm(filter[i], row, far) = "true"
<1>1. filter \in Seq(Terms)
  BY DEF FilterAssumption
<1>2. Len(filter) \in Nat /\ DOMAIN filter = 1 .. Len(filter)
  BY <1>1
<1>3. \A i \in DOMAIN filter : filter[i] \in Terms /\ AskedPlainly(filter[i])
  BY <1>1
<1>4. \A i \in DOMAIN filter : filter[i].walk = "one" => \A f, g \in far : f = g
  OBVIOUS
<1>5. \A i \in DOMAIN filter : Pushable(filter[i]) =>
          /\ CelTerm(filter[i], row, far) = "true" => SqlTerm(filter[i], row, far, others)
          /\ SqlTerm(filter[i], row, far, others) /\ ~AsksOr(filter) => CelTerm(filter[i], row, far) = "true"
  BY <1>3, <1>4, TermsAgree DEF AsksOr
<1>6. \A i \in DOMAIN filter : CelTerm(filter[i], row, {AsRead(f) : f \in far}) = "true"
          <=> CelTerm(filter[i], row, far) = "true"
  BY <1>3, <1>4, TermsReadAlike
<1> QED BY <1>1, <1>2, <1>3, <1>5, <1>6

LEMMA FilterBegins ==
    ASSUME FilterAssumption
    PROVE  FilterInit => FilterInv
<1> SUFFICES ASSUME FilterInit
             PROVE  FilterInv
  OBVIOUS
<1>1. far \subseteq RowsOf(FarColumns)
  BY DEF FilterInit
<1>2. listing = [at |-> "compile", where |-> <<>>, residual |-> <<>>, taken |-> FALSE, kept |-> FALSE]
  BY DEF FilterInit, NoListing
<1>3. listing \in Listings /\ Compiled = 0
  BY <1>2 DEF Listings, Compiled
<1>4. Len(filter) \in Nat
  BY DEF FilterInit, FilterAssumption
<1>5. Split
  BY <1>2, <1>3 DEF Split, SplitInto
<1> QED BY <1>1, <1>2, <1>3, <1>4, <1>5 DEF FilterInit, FilterInv, ListedAsCelSays

LEMMA CompileKeeps ==
    ASSUME FilterAssumption, FilterInv, Compile
    PROVE  FilterInv'
<1> DEFINE term == filter[Compiled + 1]
           w == listing.where
           d == listing.residual
<1>1. /\ listing.at = "compile" /\ Compiled < Len(filter) /\ UNCHANGED <<filter, row, far, others>>
      /\ ~listing.taken /\ ~listing.kept
      /\ w \in Seq(Terms) /\ d \in Seq(Terms)
      /\ listing = [at |-> "compile", where |-> w, residual |-> d, taken |-> FALSE, kept |-> FALSE]
  BY DEF FilterInv, Compile, Listings
<1>2. filter \in Seq(Terms) /\ Len(filter) \in Nat /\ Len(w) \in Nat /\ Len(d) \in Nat
      /\ Compiled = Len(w) + Len(d)
  BY <1>1 DEF FilterInv, FilterAssumption, Compiled
<1>3. term \in Terms
  BY <1>1, <1>2
<1>4. Split
  BY DEF FilterInv
<1>5. /\ Pushable(term) => SplitInto(filter, Compiled + 1, Append(w, term), d)
      /\ SplitInto(filter, Compiled + 1, w, Append(d, term))
  <2>1. Compiled \in Nat
    <3>1. \A i, j \in Nat : i + j \in Nat
      OBVIOUS
    <3> HIDE DEF w, d
    <3> QED BY <1>2, <3>1, Zenon
  <2>2. SplitInto(filter, Compiled, w, d)
    BY <1>4 DEF Split
  <2> HIDE DEF w, d
  <2> QED BY <1>1, <1>3, <2>1, <2>2, SplitGrows
<1>6. CASE Pushable(term)
  <2>1. listing' = [at |-> "compile", where |-> Append(w, term), residual |-> d,
                    taken |-> FALSE, kept |-> FALSE]
    BY <1>1, <1>6 DEF Compile
  <2>2. listing' \in Listings /\ listing'.at = "compile" /\ ~listing'.taken /\ ~listing'.kept
    BY <1>1, <1>3, <2>1, AppendFacts DEF Listings
  <2>3. Compiled' = Compiled + 1
    BY <1>1, <1>2, <1>3, <2>1, AppendFacts DEF Compiled
  <2>4. listing'.where = Append(w, term) /\ listing'.residual = d
    BY <2>1
  <2>5. Split'
    BY <1>1, <1>4, <1>6, <1>5, <2>3, <2>4 DEF Split
  <2> QED BY <1>1, <1>2, <2>2, <2>3, <2>5 DEF FilterInv, ListedAsCelSays
<1>7. CASE ~Pushable(term)
  <2>1. listing' = [at |-> "compile", where |-> w, residual |-> Append(d, term),
                    taken |-> FALSE, kept |-> FALSE]
    BY <1>1, <1>7 DEF Compile
  <2>2. listing' \in Listings /\ listing'.at = "compile" /\ ~listing'.taken /\ ~listing'.kept
    BY <1>1, <1>3, <2>1, AppendFacts DEF Listings
  <2>3. Compiled' = Compiled + 1
    BY <1>1, <1>2, <1>3, <2>1, AppendFacts DEF Compiled
  <2>4. listing'.where = w /\ listing'.residual = Append(d, term)
    BY <2>1
  <2>5. Split'
    BY <1>1, <1>4, <1>7, <1>5, <2>3, <2>4 DEF Split
  <2> QED BY <1>1, <1>2, <2>2, <2>3, <2>5 DEF FilterInv, ListedAsCelSays
<1> QED BY <1>6, <1>7

LEMMA TakeKeeps ==
    ASSUME FilterAssumption, \A terms \in Filters : \A i \in DOMAIN terms : AskedPlainly(terms[i]),
           FilterInv, NEW takes \in BOOLEAN, Take(takes)
    PROVE  FilterInv'
<1> DEFINE read == takes => \A i \in DOMAIN listing.where : SqlTerm(listing.where[i], row, far, others)
<1>1. /\ listing.at = "compile" /\ Compiled = Len(filter) /\ UNCHANGED <<filter, row, far, others>>
      /\ ~listing.taken /\ ~listing.kept
      /\ listing' = [listing EXCEPT !.taken = takes, !.at = IF read THEN "read" ELSE "done"]
      /\ read \in BOOLEAN
  BY DEF FilterInv, Take
<1>2. /\ listing' \in Listings
      /\ listing'.where = listing.where /\ listing'.residual = listing.residual
      /\ listing'.taken = takes /\ listing'.at = (IF read THEN "read" ELSE "done")
      /\ ~listing'.kept
  <2> HIDE DEF read
  <2> QED BY <1>1 DEF FilterInv, Listings
<1>3. Compiled' = Compiled
  BY <1>2 DEF Compiled
<1>4. Split'
  BY <1>1, <1>2, <1>3 DEF FilterInv, Split, SplitInto
<1>5. listing'.at = "read" => (listing'.taken => \A i \in DOMAIN listing'.where : SqlTerm(listing'.where[i], row', far', others'))
  BY <1>1, <1>2
<1>6. ListedAsCelSays'
  <2> SUFFICES ASSUME ~read
               PROVE  ~Matches(filter, row, far)
    BY <1>1, <1>2 DEF ListedAsCelSays
  <2>1. PICK j \in DOMAIN listing.where : ~SqlTerm(listing.where[j], row, far, others)
    OBVIOUS
  <2>2. PICK i \in 1 .. Compiled : listing.where[j] = filter[i]
    BY DEF FilterInv, Split, SplitInto
  <2>3. Pushable(filter[i]) /\ ~SqlTerm(filter[i], row, far, others)
    BY <2>1, <2>2 DEF FilterInv, Split, SplitInto
  <2>4. i \in DOMAIN filter /\ CelTerm(filter[i], row, far) # "true"
    BY <1>1, <2>3, FilterFacts DEF FilterInv
  <2> QED BY <2>4 DEF Matches
<1> HIDE DEF read
<1> QED BY <1>1, <1>2, <1>3, <1>4, <1>5, <1>6 DEF FilterInv

LEMMA KeepKeeps ==
    ASSUME FilterAssumption, \A terms \in Filters : \A i \in DOMAIN terms : AskedPlainly(terms[i]),
           FilterInv, NEW loader \in BOOLEAN, Keep(loader)
    PROVE  FilterInv'
<1> DEFINE needs == \E i \in DOMAIN Remains : Remains[i].walk # "row"
           matches == Matches(Remains, row, {AsRead(f) : f \in far})
<1>1. /\ listing.at = "read" /\ Compiled = Len(filter) /\ UNCHANGED <<filter, row, far, others>>
      /\ ~listing.kept
      /\ listing' = [listing EXCEPT !.at = IF needs /\ ~loader THEN "refused" ELSE "done",
                                    !.kept = matches /\ (needs => loader)]
      /\ needs \in BOOLEAN /\ matches \in BOOLEAN
  BY DEF FilterInv, Keep, Matches
<1>2. /\ listing' \in Listings
      /\ listing'.where = listing.where /\ listing'.residual = listing.residual
      /\ listing'.taken = listing.taken
      /\ listing'.at = (IF needs /\ ~loader THEN "refused" ELSE "done")
      /\ listing'.kept = (matches /\ (needs => loader))
  <2> HIDE DEF needs, matches
  <2> QED BY <1>1 DEF FilterInv, Listings
<1>3. Compiled' = Compiled /\ Remains' = Remains
  BY <1>1, <1>2 DEF Compiled, Remains
<1>4. Split'
  BY <1>1, <1>2, <1>3 DEF FilterInv, Split, SplitInto
<1>5. listing'.at = "refused" => ~listing'.kept /\ Remains' # <<>>
  <2>1. needs => Remains # <<>>
    BY DEF Remains
  <2> QED BY <1>2, <1>3, <2>1
<1>6. /\ Matches(filter, row, far) => matches
      /\ matches => Matches(filter, row, far) \/ (listing.taken /\ AsksOr(filter))
  <2>1. /\ \A i \in DOMAIN filter :
            CelTerm(filter[i], row, {AsRead(f) : f \in far}) = "true" <=> CelTerm(filter[i], row, far) = "true"
        /\ DOMAIN filter = 1 .. Compiled
    BY <1>1, FilterFacts DEF FilterInv
  <2>2. CASE ~listing.taken
    BY <2>1, <2>2 DEF Matches, Remains
  <2>3. CASE listing.taken
    <3>1. Remains = listing.residual
      BY <2>3 DEF Remains
    <3>2. ASSUME ~AsksOr(filter), NEW j \in DOMAIN listing.where
          PROVE  CelTerm(listing.where[j], row, far) = "true"
      <4>1. PICK i \in 1 .. Compiled : listing.where[j] = filter[i]
        BY DEF FilterInv, Split, SplitInto
      <4>2. Pushable(filter[i]) /\ SqlTerm(filter[i], row, far, others)
        BY <1>1, <2>3, <4>1 DEF FilterInv, Split, SplitInto
      <4>3. i \in DOMAIN filter
        BY <2>1
      <4>4. \A k \in DOMAIN filter : Pushable(filter[k]) =>
                (SqlTerm(filter[k], row, far, others) /\ ~AsksOr(filter) => CelTerm(filter[k], row, far) = "true")
        BY <1>1, FilterFacts DEF FilterInv
      <4>5. CelTerm(filter[i], row, far) = "true"
        BY <3>2, <4>2, <4>3, <4>4
      <4> QED BY <4>1, <4>5
    <3>4. \A j \in DOMAIN listing.residual :
              CelTerm(listing.residual[j], row, {AsRead(f) : f \in far}) = "true"
                  <=> CelTerm(listing.residual[j], row, far) = "true"
      BY <2>1 DEF FilterInv, Split, SplitInto
    <3>5. \A j \in DOMAIN listing.residual : \E i \in DOMAIN filter : listing.residual[j] = filter[i]
      BY <2>1 DEF FilterInv, Split, SplitInto
    <3>6. \A i \in DOMAIN filter :
              \/ \E j \in DOMAIN listing.where : listing.where[j] = filter[i]
              \/ \E j \in DOMAIN listing.residual : listing.residual[j] = filter[i]
      BY <2>1 DEF FilterInv, Split, SplitInto
    <3>7. matches <=> \A j \in DOMAIN listing.residual : CelTerm(listing.residual[j], row, far) = "true"
      BY <3>1, <3>4 DEF Matches
    <3> HIDE DEF matches
    <3>8. Matches(filter, row, far) => matches
      BY <3>5, <3>7 DEF Matches
    <3>9. matches /\ ~AsksOr(filter) => Matches(filter, row, far)
      BY <3>2, <3>6, <3>7 DEF Matches
    <3> QED BY <2>3, <3>8, <3>9
  <2> QED BY <2>2, <2>3
<1>7. ListedAsCelSays'
  <2> HIDE DEF needs, matches
  <2> QED BY <1>1, <1>2, <1>6 DEF ListedAsCelSays
<1> HIDE DEF needs, matches
<1> QED BY <1>1, <1>2, <1>3, <1>4, <1>5, <1>7 DEF FilterInv

LEMMA FilterInvHolds ==
    ASSUME FilterAssumption, \A terms \in Filters : \A i \in DOMAIN terms : AskedPlainly(terms[i])
    PROVE  FilterSpec => []FilterInv
<1>1. FilterInit => FilterInv
  BY FilterBegins
<1>2. FilterInv /\ [FilterNext]_filterVars => FilterInv'
  <2> SUFFICES ASSUME FilterInv, [FilterNext]_filterVars
               PROVE  FilterInv'
    OBVIOUS
  <2>1. CASE Compile
    BY <2>1, CompileKeeps
  <2>2. ASSUME NEW b \in BOOLEAN, Take(b)
        PROVE  FilterInv'
    BY <2>2, TakeKeeps
  <2>3. ASSUME NEW b \in BOOLEAN, Keep(b)
        PROVE  FilterInv'
    BY <2>3, KeepKeeps
  <2>4. CASE UNCHANGED filterVars
    BY <2>4 DEF filterVars, FilterInv, Split, Compiled, Remains, ListedAsCelSays
  <2> QED BY <2>1, <2>2, <2>3, <2>4 DEF FilterNext
<1> QED BY <1>1, <1>2, PTL DEF FilterSpec

\* A filter asked plainly, whatever it compares, lists a row when CEL says of the whole
\* expression that it matches, whether the listing took the SQL or read every row, and then
\* only, unless the SQL asks a disjunction of related rows;  with no residual it is never
\* refused (filter/filter.go, Compile, Take, Keep;  filter/joins.go, subquery, toOneAs;
\* filter/null.go, pushable, nullProbe).
THEOREM FilterListsAsCelSays ==
    ASSUME FilterAssumption, \A terms \in Filters : \A i \in DOMAIN terms : AskedPlainly(terms[i])
    PROVE  FilterSpec => []ListsAsCelSays
<1>1. FilterInv => ListsAsCelSays
  <2> SUFFICES ASSUME FilterInv
               PROVE  FilterTypeOK /\ ListedAsCelSays
    BY DEF ListsAsCelSays
  <2>1. listing.taken /\ listing.residual = <<>> => Remains = <<>>
    BY DEF Remains
  <2> QED BY <2>1 DEF FilterInv, FilterTypeOK, Listings
<1> QED BY <1>1, FilterInvHolds, PTL
=============================================================================
