------------------------------ MODULE EventLog ------------------------------
(***************************************************************************)
(* The only path to the database: a transaction of one actor that loads    *)
(* copies of a record, writes the difference between two of them as often  *)
(* as it likes, and logs one event a column.                               *)
(*                                                                         *)
(* A copy may be older than the transaction's own writes: closing a        *)
(* project loads all of its open actions first, and closes one whose       *)
(* blocked state and hiding the close of another has rewritten since.      *)
(*                                                                         *)
(* Transactions of several processes interleave.  SQLite gives each the    *)
(* snapshot of its first read, and refuses the first write of one whose    *)
(* snapshot is no longer the newest; from then to its commit no other      *)
(* transaction writes.  Every write leaves an event, so the length of the  *)
(* log tells one snapshot from another, and stands for the correlation id  *)
(* of a transaction that writes.                                           *)
(*                                                                         *)
(* One record: its title a person's, nullable prose, and its state and     *)
(* head what sync saw.  Values are modelled up to what renderValue tells   *)
(* apart.                                                                  *)
(***************************************************************************)
EXTENDS Naturals, Sequences, FiniteSets

CONSTANTS
    Writers,     \* processes that write
    ExceptionInterval, \* between two reports of one condition
    MaxLog, MaxTime \* bounds on the log and the clock

LogAssumption ==
    /\ ExceptionInterval \in Nat
    /\ {MaxLog, MaxTime} \subseteq Nat

VARIABLES
    record,      \* the record, or Absent
    log,      \* the event table, by seq
    time,
    tx        \* each writer's transaction

logVars == <<record, log, time, tx>>

NoText    == "NULL"
Fields == {"title", "state", "head"}
Values  == [title : {NoText, "", "text"}, state : {"", "open"}, head : {"", "sha"}]
Actors  == {"human", "sync:github"}
Absent  == [title |-> NoText, state |-> "", head |-> "", updated |-> 0, there |-> FALSE]

KindOf(c)    == IF c = "title" THEN "authored" ELSE "observed"
WritesOf(actor) == IF actor = "sync:github" THEN "observed" ELSE "authored"
Render(value) == IF value = NoText THEN "" ELSE value

\* An event of transaction t.
Event(t, kind, field, old, new) ==
    [actor |-> t.actor, at |-> t.at, correlation |-> t.snapshot,
     kind |-> kind, field |-> field, old |-> old, new |-> new]

----------------------------------------------------------------------------
(* Transactions *)

Unread(pc, actor, at) ==
    [pc |-> pc, actor |-> actor, at |-> at, snapshot |-> 0,
     row |-> Absent, copies |-> {}, said |-> <<>>]

NoTx == Unread("none", "human", 0)

\* The clock is read where the transaction begins, before its snapshot is taken.
BeginTx(w, actor) ==
    /\ tx[w].pc = "none"
    /\ tx' = [tx EXCEPT ![w] = Unread("begun", actor, time)]
    /\ UNCHANGED <<record, log, time>>

\* The first read takes the snapshot; a later one sees the transaction's own writes.
LoadRecord(w) ==
    /\ \/ /\ tx[w].pc = "begun"
          /\ tx' = [tx EXCEPT ![w].pc = "reading", ![w].snapshot = Len(log),
                              ![w].row = record, ![w].copies = {record}]
       \/ /\ tx[w].pc \in {"reading", "writing"}
          /\ tx' = [tx EXCEPT ![w].copies = @ \union {tx[w].row}]
    /\ UNCHANGED <<record, log, time>>

Rollback(w) ==
    /\ tx[w].pc # "none"
    /\ tx' = [tx EXCEPT ![w] = NoTx]
    /\ UNCHANGED <<record, log, time>>

Commit(w) ==
    /\ tx[w].pc = "writing"
    /\ record' = tx[w].row
    /\ log' = log \o tx[w].said
    /\ tx' = [tx EXCEPT ![w] = NoTx]
    /\ UNCHANGED time

\* diff: columns are compared as they render, so an empty title is no title.
Diff(before, after) == {c \in Fields : Render(before[c]) # Render(after[c])}

\* checkPermission and checkInsertPermission: of all columns that say something.
MayWrite(actor, changed) == \A c \in changed : KindOf(c) = WritesOf(actor)

\* One event a column, in the order of the record's fields.
ChangesOf(t, before, after) ==
    LET of(c) == IF c \notin Diff(before, after) THEN <<>>
                 ELSE <<Event(t, "changed", c, Render(before[c]), Render(after[c]))>>
    IN of("title") \o of("state") \o of("head")

\* A first write is refused when anything was committed since the first read, and
\* while another transaction writes.
MayBegin(w) ==
    /\ tx[w].pc = "reading"
    /\ tx[w].snapshot = Len(log)
    /\ \A v \in Writers : tx[v].pc # "writing"

\* What a transaction that may write sees: nothing was committed since its snapshot.
Seen(w) == log \o tx[w].said

\* A write: the row it leaves, the copy of it the caller holds, and its events.
Write(w, row, copies, events) ==
    /\ MayBegin(w) \/ tx[w].pc = "writing"
    /\ Len(Seen(w)) < MaxLog
    /\ tx' = [tx EXCEPT ![w].pc = "writing", ![w].row = row,
                        ![w].copies = @ \union copies, ![w].said = @ \o events]
    /\ UNCHANGED <<record, log, time>>

Stamped(w, after) ==
    [title |-> after.title, state |-> after.state, head |-> after.head,
     updated |-> tx[w].at, there |-> TRUE]

Insert(w, after) ==
    /\ ~tx[w].row.there
    /\ MayWrite(tx[w].actor, Diff(Absent, after))
    /\ Write(w, Stamped(w, after), {Stamped(w, after)},
             <<Event(tx[w], "created", "", "", "")>>)

\* Mutant: the copy is saved whole, as it was loaded but for what changed.
AllColumns(before, after) == Fields

\* assignments: only what differs between the two copies is written.
Assigned(before, after) == Diff(before, after)

(* Update: a column that does not differ from the loaded copy is neither      *)
(* written nor logged, whatever the row says, and where none does nothing is. *)
Update(w, before, after) ==
    /\ before.there
    /\ Diff(before, after) # {}
    /\ MayWrite(tx[w].actor, Diff(before, after))
    /\ Write(w,
             [c \in DOMAIN Absent |->
                 CASE c \in Assigned(before, after) -> after[c]
                   [] c = "updated" -> tx[w].at
                   [] OTHER -> tx[w].row[c]],
             {Stamped(w, after)},
             ChangesOf(tx[w], before, after))

\* note and exception: an event about the record, and nothing else.
Annotate(w) ==
    /\ tx[w].row.there
    /\ Write(w, tx[w].row, {}, <<Event(tx[w], "note", "", "", "")>>)

\* Whether the condition was reported within the interval before, or since.
SaidRecently(w) ==
    \E i \in DOMAIN Seen(w) :
        Seen(w)[i].kind = "standing" /\ Seen(w)[i].at + ExceptionInterval >= tx[w].at

ExceptionOnce(w) ==
    /\ tx[w].row.there
    /\ ~SaidRecently(w)
    /\ Write(w, tx[w].row, {}, <<Event(tx[w], "standing", "", "", "")>>)

----------------------------------------------------------------------------
TimePasses ==
    /\ time < MaxTime
    /\ time' = time + 1
    /\ UNCHANGED <<record, log, tx>>

LogInit ==
    /\ record \in {Absent, [Absent EXCEPT !.there = TRUE]}
    /\ log = <<>>
    /\ time = 0
    /\ tx = [w \in Writers |-> NoTx]

LogNext ==
    \/ \E w \in Writers :
          \/ \E actor \in Actors : BeginTx(w, actor)
          \/ LoadRecord(w) \/ Commit(w) \/ Rollback(w)
          \/ \E after \in Values : Insert(w, after)
          \/ \E before \in tx[w].copies, after \in Values : Update(w, before, after)
          \/ Annotate(w) \/ ExceptionOnce(w)
    \/ TimePasses

LogSpec == LogInit /\ [][LogNext]_logVars

----------------------------------------------------------------------------
(* What a log l says of a column of row r *)

LoggedIn(l, c) == {i \in DOMAIN l : l[i].kind = "changed" /\ l[i].field = c}

\* j is the change of column c after i.
FollowsIn(l, c, i, j) ==
    /\ {i, j} \subseteq LoggedIn(l, c)
    /\ i < j
    /\ \A k \in LoggedIn(l, c) : k <= i \/ j <= k

\* Between transactions a column is an unbroken chain: each starts from where
\* the one before it left the column.
ChainsAcross(l) ==
    \A c \in Fields : \A i, j \in DOMAIN l :
        FollowsIn(l, c, i, j) /\ l[i].correlation # l[j].correlation => l[j].old = l[i].new

\* Within one, a change starts from a value the column had since the transaction
\* began: the copy it was written from may be older than the last.
StartsWithin(l) ==
    \A c \in Fields : \A i, j \in DOMAIN l :
        FollowsIn(l, c, i, j) /\ l[i].correlation = l[j].correlation =>
            \E k \in LoggedIn(l, c) : /\ k <= i /\ l[k].correlation = l[j].correlation
                                      /\ l[j].old \in {l[k].old, l[k].new}

\* The last change of a column is what the row says, and the row was stamped by
\* the last of any.
EndsAt(l, r) ==
    \A c \in Fields : \A j \in LoggedIn(l, c) :
        /\ (\A k \in LoggedIn(l, c) : k <= j) => Render(r[c]) = l[j].new
        /\ (\A d \in Fields : \A k \in LoggedIn(l, d) : k <= j) => r.updated = l[j].at

(* What a person says is never changed by sync, nor what sync saw by a        *)
(* person, though one write may ask for both.                                 *)
FactsAndJudgements(l) ==
    \A i \in DOMAIN l : l[i].kind = "changed" =>
        (l[i].actor = "sync:github" <=> l[i].field # "title")

(* A standing condition is reported at most once in an interval, though       *)
(* processes report it side by side and their clocks were read in another     *)
(* order than they commit.                                                    *)
OnceAnInterval(l) ==
    \A i, j \in DOMAIN l : i < j /\ l[i].kind = "standing" /\ l[j].kind = "standing" =>
        l[i].at + ExceptionInterval < l[j].at

(* The type of the state.                                                     *)
LogTypeOK ==
    /\ record \in [title : {NoText, "", "text"}, state : {"", "open"}, head : {"", "sha"},
                updated : 0 .. MaxTime, there : BOOLEAN]
    /\ ~record.there => record = Absent /\ log = <<>>
    /\ \A i \in DOMAIN log : log[i].at \in 0 .. time
    /\ \A w \in Writers : tx[w].snapshot <= Len(log) /\ tx[w].at <= time

(* The log tells the row: whichever transactions wrote, from whatever copies, *)
(* a column's changes chain from one transaction to the next and end at what  *)
(* the row says; facts and judgements are each written by their own; and a    *)
(* standing condition is reported once in an interval.                        *)
LogTellsTheRow ==
    /\ LogTypeOK
    /\ ChainsAcross(log) /\ StartsWithin(log) /\ EndsAt(log, record)
    /\ FactsAndJudgements(log)
    /\ OnceAnInterval(log)
=============================================================================
