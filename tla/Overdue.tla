------------------------------ MODULE Overdue ------------------------------
(***************************************************************************)
(* The overdue sweep of a sync cycle (store.OverdueWaits): find the waits  *)
(* past their deadline that the log does not report yet, report each,      *)
(* raise a chase for the ones the queue leaves out, then stand down the    *)
(* chases of waits that are no longer late.  Each phase is a read or a     *)
(* transaction of its own, so commands, the clock, another sweep and the   *)
(* end of the process come between any two.                                *)
(*                                                                         *)
(* A wait is an open action whose verb has an allowance.  waitClock is     *)
(* kept as the latest of its four timestamps.  Time is counted in days: a  *)
(* deadline falls at the start of its day and everything else happens      *)
(* after, so an event of the day of a deadline is past it, as one is whose *)
(* timestamp is compared with it by the second.                            *)
(***************************************************************************)
EXTENDS Naturals, FiniteSets

CONSTANTS
    Waits,        \* the actions with an allowance
    NoWait,       \* a sweep that has none in hand
    InQueue,      \* the waits whose verb is not of rank class 'wait'
    Allowance,    \* wait_days
    LastDay,      \* bound: where the calendar ends
    Sweepers,     \* the server's sync loop, and any `roz sync` beside it
    MayDefer,     \* whether a wait is snoozed, hidden, or its deadline taken back
    MayStop       \* whether a sweep's process may end between two phases

OverdueAssumption ==
    /\ NoWait \notin Waits
    /\ InQueue \subseteq Waits
    /\ Allowance \in Nat
    /\ LastDay \in Nat \ {0}
    /\ MayDefer \in BOOLEAN
    /\ MayStop \in BOOLEAN

VARIABLES
    today,        \* the store's clock
    state,        \* action.state of each wait, every closed one as "closed"
    hidden,       \* the waits with hidden_behind set
    snooze_until, \* action.snooze_until, NoDay for NULL
    clock,        \* waitClock
    okay,         \* action.okay_to_wait_until, NoDay for NULL
    reported,     \* the day of the last waited_too_long event, NoDay for none
    chases,       \* how many open actions a condition raised about the wait
    recorded,     \* how many raised_action rows name the wait
    sweep         \* what each sweeper is in the middle of

action  == <<state, hidden, snooze_until>>
clocks  == <<clock, okay>>
vars    == <<today, action, clocks, reported, chases, recorded, sweep>>

NoDay == 0
Days  == 1 .. LastDay

\* deadline in overdueQuery.
Deadline(w) == IF okay[w] # NoDay THEN okay[w] ELSE clock[w] + Allowance

\* liveAction.
Live(w) == state[w] = "ready" /\ w \notin hidden

\* LateActions.
Late == {w \in Waits : Live(w) /\ Deadline(w) <= today}

\* Mutant: a report made once stands for ever.
NeverReported(w) == reported[w] = NoDay

\* The clause unreported: no event at or after the deadline.
Unreported(w) == reported[w] = NoDay \/ reported[w] < Deadline(w)

Idle == [pc |-> "idle", due |-> {}, wait |-> NoWait, late |-> {}]

----------------------------------------------------------------------------
Init ==
    /\ today        = 1
    /\ state        = [w \in Waits |-> "ready"]
    /\ hidden       = {}
    /\ snooze_until = [w \in Waits |-> NoDay]
    /\ clock        = [w \in Waits |-> 1]
    /\ okay         = [w \in Waits |-> NoDay]
    /\ reported     = [w \in Waits |-> NoDay]
    /\ chases       = [w \in Waits |-> 0]
    /\ recorded     = [w \in Waits |-> 0]
    /\ sweep        = [p \in Sweepers |-> Idle]

----------------------------------------------------------------------------
(* One sweep *)

(* The query of OverdueWaits. *)
FindOverdue(p) ==
    /\ sweep[p].pc = "idle"
    /\ sweep' = [sweep EXCEPT ![p].pc  = "report",
                              ![p].due = {w \in Late : Unreported(w)}]
    /\ UNCHANGED <<today, action, clocks, reported, chases, recorded>>

(* reportOverdue: one exception event. *)
Report(p, w) ==
    /\ sweep[p].pc = "report"
    /\ w \in sweep[p].due
    /\ reported' = [reported EXCEPT ![w] = today]
    /\ sweep' = [sweep EXCEPT ![p].due  = @ \ {w},
                              ![p].pc   = IF w \in InQueue THEN "report" ELSE "raise",
                              ![p].wait = IF w \in InQueue THEN NoWait ELSE w]
    /\ UNCHANGED <<today, action, clocks, chases, recorded>>

(* Mutant: a condition is raised whenever it is reported. *)
RaiseAlways(p) ==
    /\ sweep[p].pc = "raise"
    /\ sweep' = [sweep EXCEPT ![p].pc = "insert"]
    /\ UNCHANGED <<today, action, clocks, reported, chases, recorded>>

(* conditionWasRaised, which counts rows of open and closed chases alike. *)
CheckRaised(p) ==
    /\ sweep[p].pc = "raise"
    /\ sweep' = IF recorded[sweep[p].wait] > 0
                THEN [sweep EXCEPT ![p].pc = "report", ![p].wait = NoWait]
                ELSE [sweep EXCEPT ![p].pc = "insert"]
    /\ UNCHANGED <<today, action, clocks, reported, chases, recorded>>

(* The transaction of RaiseAction. *)
Raise(p) ==
    /\ sweep[p].pc = "insert"
    /\ chases'   = [chases EXCEPT ![sweep[p].wait] = @ + 1]
    /\ recorded' = [recorded EXCEPT ![sweep[p].wait] = @ + 1]
    /\ sweep'    = [sweep EXCEPT ![p].pc = "report", ![p].wait = NoWait]
    /\ UNCHANGED <<today, action, clocks, reported>>

(* The read of LateActions that standDownClearedChases starts with. *)
ReadLate(p) ==
    /\ sweep[p].pc = "report"
    /\ sweep[p].due = {}
    /\ sweep' = [sweep EXCEPT ![p].pc = "clear", ![p].late = Late]
    /\ UNCHANGED <<today, action, clocks, reported, chases, recorded>>

(* Mutant: the rows of every open wait are deleted, late or not. *)
ForgetOpenWaits(p) ==
    LET Clears(w) == state[w] # "closed" /\ w \notin sweep[p].late
    IN  /\ sweep[p].pc = "clear"
        /\ chases'   = [w \in Waits |-> IF Clears(w) THEN 0 ELSE chases[w]]
        /\ recorded' = [w \in Waits |-> IF state[w] # "closed" THEN 0 ELSE recorded[w]]
        /\ sweep'    = [sweep EXCEPT ![p] = Idle]
        /\ UNCHANGED <<today, action, clocks, reported>>

(* Mutant: one row is deleted for each wait, whether or not it was chased. *)
ForgetOneEach(p) ==
    LET Clears(w) == state[w] # "closed" /\ w \notin sweep[p].late
    IN  /\ sweep[p].pc = "clear"
        /\ chases'   = [w \in Waits |-> IF Clears(w) THEN 0 ELSE chases[w]]
        /\ recorded' = [w \in Waits |-> IF Clears(w) THEN recorded[w] - 1 ELSE recorded[w]]
        /\ sweep'    = [sweep EXCEPT ![p] = Idle]
        /\ UNCHANGED <<today, action, clocks, reported>>

(* Its transaction: an open chase about an open wait not read as late is      *)
(* closed, and its raised_action row deleted.                                 *)
StandDownCleared(p) ==
    LET Clears(w) == state[w] # "closed" /\ w \notin sweep[p].late
    IN  /\ sweep[p].pc = "clear"
        /\ chases'   = [w \in Waits |-> IF Clears(w) THEN 0 ELSE chases[w]]
        /\ recorded' = [w \in Waits |->
                           IF Clears(w) THEN recorded[w] - chases[w] ELSE recorded[w]]
        /\ sweep'    = [sweep EXCEPT ![p] = Idle]
        /\ UNCHANGED <<today, action, clocks, reported>>

SweepStep(p) ==
    \/ FindOverdue(p)
    \/ \E w \in Waits : Report(p, w)
    \/ CheckRaised(p)
    \/ Raise(p)
    \/ ReadLate(p)
    \/ StandDownCleared(p)

(* The process ends; the next sweep starts from the query. *)
Stop(p) ==
    /\ MayStop
    /\ sweep[p].pc # "idle"
    /\ sweep' = [sweep EXCEPT ![p] = Idle]
    /\ UNCHANGED <<today, action, clocks, reported, chases, recorded>>

----------------------------------------------------------------------------
(* What else happens to a wait *)

(* applyClose of the wait, with standDownChases: the rows stay. *)
Close(w) ==
    /\ state[w] # "closed"
    /\ state' = [state EXCEPT ![w] = "closed"]
    /\ chases' = [chases EXCEPT ![w] = 0]
    /\ UNCHANGED <<today, hidden, snooze_until, clocks, reported, recorded, sweep>>

(* A person closes a chase; its raised_action row stays. *)
CloseChase(w) ==
    /\ chases[w] > 0
    /\ chases' = [chases EXCEPT ![w] = @ - 1]
    /\ UNCHANGED <<today, action, clocks, reported, recorded, sweep>>

(* `pr announce`, or a review requested: the wait clock starts afresh. *)
Announce(w) ==
    /\ state[w] # "closed"
    /\ clock' = [clock EXCEPT ![w] = today]
    /\ UNCHANGED <<today, action, okay, reported, chases, recorded, sweep>>

(* `action set --okay-to-wait`, putting the deadline off. *)
PutOff(w, d) ==
    /\ state[w] # "closed"
    /\ d >= Deadline(w)
    /\ okay' = [okay EXCEPT ![w] = d]
    /\ UNCHANGED <<today, action, clock, reported, chases, recorded, sweep>>

(* `action snooze`, and the wake of a deferral whose date has come.  Waking   *)
(* does not touch ready_since: the row is written as ready before             *)
(* applyBlockedState looks at it.                                             *)
Snooze(w, d) ==
    /\ MayDefer
    /\ state[w] # "closed"
    /\ state' = [state EXCEPT ![w] = "snoozed"]
    /\ snooze_until' = [snooze_until EXCEPT ![w] = d]
    /\ UNCHANGED <<today, hidden, clocks, reported, chases, recorded, sweep>>

Expired == {w \in Waits : state[w] = "snoozed" /\ snooze_until[w] <= today}

WakeExpired ==
    /\ Expired # {}
    /\ state' = [w \in Waits |-> IF w \in Expired THEN "ready" ELSE state[w]]
    /\ snooze_until' = [w \in Waits |-> IF w \in Expired THEN NoDay ELSE snooze_until[w]]
    /\ UNCHANGED <<today, hidden, clocks, reported, chases, recorded, sweep>>

(* `action hide-behind`, its --behind "", and unhide when the one in front    *)
(* closes, which starts the clock afresh.                                     *)
Hide(w) ==
    /\ MayDefer
    /\ hidden' = hidden \union {w}
    /\ UNCHANGED <<today, state, snooze_until, clocks, reported, chases, recorded, sweep>>

ComeOut(w) ==
    /\ w \in hidden
    /\ hidden' = hidden \ {w}
    /\ UNCHANGED <<today, state, snooze_until, clocks, reported, chases, recorded, sweep>>

Unhide(w) ==
    /\ w \in hidden
    /\ state[w] # "closed"
    /\ hidden' = hidden \ {w}
    /\ clock' = [clock EXCEPT ![w] = today]
    /\ UNCHANGED <<today, state, snooze_until, okay, reported, chases, recorded, sweep>>

(* `action set --okay-to-wait ""`: the verb's allowance applies again. *)
TakeBack(w) ==
    /\ MayDefer
    /\ okay[w] # NoDay
    /\ okay' = [okay EXCEPT ![w] = NoDay]
    /\ UNCHANGED <<today, action, clock, reported, chases, recorded, sweep>>

Tick ==
    /\ today < LastDay
    /\ today' = today + 1
    /\ UNCHANGED <<action, clocks, reported, chases, recorded, sweep>>

----------------------------------------------------------------------------
Next ==
    \/ \E p \in Sweepers : SweepStep(p) \/ Stop(p)
    \/ \E w \in Waits :
          \/ Close(w) \/ CloseChase(w) \/ Announce(w)
          \/ Hide(w) \/ ComeOut(w) \/ Unhide(w) \/ TakeBack(w)
          \/ \E d \in Days : PutOff(w, d) \/ Snooze(w, d)
    \/ WakeExpired
    \/ Tick

Spec == Init /\ [][Next]_vars

\* The server polls for ever, and days pass.
FairSpec ==
    /\ Spec
    /\ \A p \in Sweepers : WF_vars(SweepStep(p))
    /\ WF_vars(WakeExpired)
    /\ WF_vars(Tick)

----------------------------------------------------------------------------
TypeOK ==
    /\ today \in Days
    /\ state \in [Waits -> {"ready", "snoozed", "closed"}]
    /\ hidden \subseteq Waits
    /\ snooze_until \in [Waits -> Days \union {NoDay}]
    /\ clock \in [Waits -> Days]
    /\ okay \in [Waits -> Days \union {NoDay}]
    /\ reported \in [Waits -> Days \union {NoDay}]
    /\ chases \in [Waits -> Nat]
    /\ recorded \in [Waits -> Nat]
    /\ sweep \in [Sweepers ->
          [pc : {"idle", "report", "raise", "insert", "clear"}, due : SUBSET Waits,
           wait : Waits \union {NoWait}, late : SUBSET Waits]]

\* "the queue keeps one item per outstanding condition" (store/raised.go:32),
\* however often a rule re-reports.
OneChasePerWait == \A w \in Waits : chases[w] <= 1

\* Every chase still open is one a row remembers, so that a condition that was
\* answered is not raised again and again ("a nag with no off switch",
\* store/raised.go:94).
ChasesRecorded == \A w \in Waits : chases[w] <= recorded[w]

\* A wait that stays late reaches the queue: again and again it is either not
\* late or has been chased.  After the clock was restarted "a wait that goes
\* overdue again is a new condition and deserves a fresh chase"
\* (store/overdue.go:266).
LateWaitIsChased ==
    \A w \in Waits \ InQueue : []<>(w \notin Late \/ recorded[w] > 0)
=============================================================================
