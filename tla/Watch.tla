-------------------------------- MODULE Watch --------------------------------
(***************************************************************************)
(* roz watch: the head of the log is taken, then the backlog printed, then *)
(* the log followed by its cursor, while any process appends to it.  A     *)
(* query selects by the flags; what of a filter SQLite cannot take is      *)
(* applied to what was read.  Events are as old as their place in the log. *)
(***************************************************************************)
EXTENDS Naturals, Sequences, FiniteSets

CONSTANTS
    WatchKinds,  \* kinds of event
    Wanted,      \* those the query selects
    Kept,        \* of those, the ones the rest of the filter keeps
    Backlogs,    \* what may be asked for: [lines, since], nought where not given
    MaxEvents    \* bound on the log

WatchAssumption ==
    /\ Kept \subseteq Wanted /\ Wanted \subseteq WatchKinds
    /\ Backlogs \subseteq [lines : Nat, since : Nat]
    /\ MaxEvents \in Nat

VARIABLES
    events,  \* the kinds of the log's events, by seq
    watch    \* the watcher's memory, and what it printed

watchVars == <<events, watch>>

NoWatch == [pc |-> "off", cursor |-> 0, asked |-> [lines |-> 0, since |-> 0],
            head |-> 0, first |-> 0, printed |-> <<>>]

----------------------------------------------------------------------------
Selected(after) == {i \in DOMAIN events : i > after /\ events[i] \in Wanted}
KeptOf(read)      == {i \in read : events[i] \in Kept}
Ascending(S)    == [n \in 1 .. Cardinality(S) |->
                        CHOOSE i \in S : Cardinality({j \in S : j < i}) = n - 1]

\* The last of the rows read, which come in the log's order.
Furthest(S, low) == IF S = {} THEN low ELSE CHOOSE i \in S : \A j \in S : j <= i

(* The head of the log, before anything is printed.                           *)
TakeHead(asked) ==
    /\ watch.pc = "off"
    /\ watch' = [NoWatch EXCEPT !.pc = "backlog", !.asked = asked,
                                !.cursor = Len(events), !.head = Len(events)]
    /\ UNCHANGED events

\* The newest rows asked for, or those since a moment; none where neither is.
Backlog ==
    LET all == Selected(0)
    IN IF watch.asked.since > 0 THEN {i \in all : i >= watch.asked.since}
       ELSE {i \in all : Cardinality({j \in all : j > i}) < watch.asked.lines}

\* Mutant: the tail goes on from what the backlog printed.
FromPrinted(read) == Furthest(KeptOf(read), 0)

\* "keep whichever is further on".
Resume(read) == Furthest(read \cup {watch.cursor}, 0)

PrintBacklog ==
    /\ watch.pc = "backlog"
    /\ watch' = [watch EXCEPT !.pc = "following", !.cursor = Resume(Backlog),
                              !.first = IF Backlog = {} THEN 0 ELSE Ascending(Backlog)[1],
                              !.printed = Ascending(KeptOf(Backlog))]
    /\ UNCHANGED events

\* The cursor moves over every row read, printed or not.
PrintMore ==
    /\ watch.pc = "following"
    /\ LET read == Selected(watch.cursor)
       IN /\ read # {}
          /\ watch' = [watch EXCEPT !.cursor = Furthest(read, @),
                                    !.printed = @ \o Ascending(KeptOf(read))]
    /\ UNCHANGED events

\* A process commits an event.
Log(kind) ==
    /\ Len(events) < MaxEvents
    /\ events' = Append(events, kind)
    /\ UNCHANGED watch

WatchInit == events = <<>> /\ watch = NoWatch

WatchNext ==
    \/ \E kind \in WatchKinds : Log(kind)
    \/ \E asked \in Backlogs : TakeHead(asked)
    \/ PrintBacklog \/ PrintMore

WatchSpec == WatchInit /\ [][WatchNext]_watchVars

----------------------------------------------------------------------------
Printed    == {watch.printed[n] : n \in DOMAIN watch.printed}
PassedOver == IF watch.pc # "following" THEN {}
              ELSE {i \in KeptOf(Selected(watch.head)) : i <= watch.cursor} \ Printed

(* The watcher prints in the log's order, nothing twice and nothing older     *)
(* than its backlog, and passes over nothing that came after it took the      *)
(* head, but for what came before its backlog was read and is beyond the      *)
(* lines, or before the moment, it was asked for.                             *)
WatchPassesOver ==
    /\ \A m, n \in DOMAIN watch.printed : m < n => watch.printed[m] < watch.printed[n]
    /\ \A i \in Printed : i > watch.head \/ (watch.first > 0 /\ i >= watch.first)
    /\ \A i \in PassedOver : \/ watch.asked.lines > 0 /\ i < watch.first
                             \/ i < watch.asked.since

(* What the comment at watchFollowing says of the head once it is taken: "the *)
(* moment after which a new event cannot be missed".                          *)
NothingIsMissed == PassedOver = {}
=============================================================================
