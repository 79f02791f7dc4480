------------------------------- MODULE Issues -------------------------------
(***************************************************************************)
(* Tracker issues: store/tracker.go, issuepoll.go, actionissue.go,         *)
(* prissue.go and ghsync/issues.go.  A row begins as a key somebody linked *)
(* or waits for, is filled in by a poll or by `roz issue observe`, and is  *)
(* polled again on a ladder: one with no closing time every cycle, another *)
(* the less often the longer ago it closed, reopened or not.               *)
(*                                                                         *)
(* A poll is three steps, with other processes between them: the rows that *)
(* are due are chosen, GitHub is read, what it said is applied in one      *)
(* transaction.  It may stop before any of them.  Dates are ages in ticks, *)
(* -1 for none, and stop counting at MaxAge, beyond every rung.  A title,  *)
(* an assignee and an iteration are one thing: whether they moved.         *)
(***************************************************************************)
EXTENDS Integers, FiniteSets, Sequences

CONSTANTS
    IssueKeys,       \* issues, all of one tracker
    Waits,      \* actions with the verb that closes on issue_closed
    IssuePollers,    \* processes that poll: the server and `roz sync`
    IssueSteps, \* the ladder: [within, every] in order, within 0 last
    MaxAge,     \* where ages stop counting
    Told        \* bound on what is observed by hand

IssuesAssumption ==
    /\ MaxAge \in Nat
    /\ IssueSteps \in Seq([within : Nat, every : Nat])
    /\ \A i \in DOMAIN IssueSteps : IssueSteps[i].within < MaxAge /\ IssueSteps[i].every < MaxAge

None == -1
Ages == None..MaxAge
(* What an observation says: a state and a closing time, or nothing of     *)
(* either; whether anything else it says is news; and when it was made, if *)
(* it states that.                                                         *)
Sayings == [status : {"unsaid", "open", "closed"}, closed : Ages, news : BOOLEAN, at : Ages]

ToldAssumption == Told \subseteq Sayings

VARIABLES
    tracker, \* what the tracker holds: [open, closed], closed an age
    issues,  \* rows: [status, closed, synced, asked]; asked is not a column
    links,   \* pairs of a key and a source: a pull request's and a project's
    waitsOn, \* [on, done]: the issue an action waits for
    polls    \* [at, keys, answer] of each poller

issueVars == <<tracker, issues, links, waitsOn, polls>>

(* Who made a link: sync or a person for the pull request, or a project.   *)
ByHand == {"manual", "project"}
Sources == ByHand \cup {"github"}
Answers == [open : BOOLEAN, closed : Ages]
NoIssue == [status |-> "none", closed |-> None, synced |-> None, asked |-> None]
NoPoll == [at |-> "idle", keys |-> {}, answer |-> <<>>]
Known == {k \in IssueKeys : issues[k].status # "none"}

(* Types, and what the columns owe one another: whatever was said of a     *)
(* state or a closing came with a time, which is no later than the last    *)
(* observation; and a poll never asks for a row that is not there.         *)
IssuesTypeOK ==
    /\ \A k \in IssueKeys :
        issues[k].status \in {"open", "closed"} \/ issues[k].closed # None => issues[k].synced # None
    /\ \A k \in IssueKeys : issues[k].synced # None => issues[k].asked \in 0 .. issues[k].synced
    /\ tracker \in [IssueKeys -> Answers]
    /\ issues \in [IssueKeys -> [status : {"none", "unread", "open", "closed"},
                            closed : Ages, synced : Ages, asked : Ages]]
    /\ links \subseteq Known \X Sources
    /\ waitsOn \in [Waits -> [on : Known \cup {"nothing"}, done : BOOLEAN]]
    /\ \A p \in IssuePollers : /\ polls[p].at \in {"idle", "chosen", "read"}
                          /\ polls[p].keys \subseteq Known
                          /\ polls[p].at = "read" =>
                                /\ DOMAIN polls[p].answer \subseteq polls[p].keys
                                /\ \A k \in DOMAIN polls[p].answer : polls[p].answer[k] \in Answers

-----------------------------------------------------------------------------
(* The tracker, and the clock.                                             *)

TrackerMoves(k) ==
    /\ tracker' = [tracker EXCEPT ![k] = IF @.open THEN [open |-> FALSE, closed |-> 0]
                                         ELSE [open |-> TRUE, closed |-> None]]
    /\ UNCHANGED <<issues, links, waitsOn, polls>>

Older(age) == IF age = None \/ age = MaxAge THEN age ELSE age + 1
Aged(said) == [said EXCEPT !.closed = Older(@)]

TickAges ==
    /\ tracker' = [k \in IssueKeys |-> Aged(tracker[k])]
    /\ issues' = [k \in IssueKeys |-> [issues[k] EXCEPT !.closed = Older(@), !.synced = Older(@),
                                                   !.asked = Older(@)]]
    /\ polls' = [p \in IssuePollers |->
                    [polls[p] EXCEPT !.answer = [k \in DOMAIN @ |-> Aged(@[k])]]]
    /\ UNCHANGED <<links, waitsOn>>

-----------------------------------------------------------------------------
(* Rows and links.                                                         *)

(* ensureIssue: a row that is only a key, until it is read.                *)
EnsuredAfresh(rows, k) == [rows EXCEPT ![k].status = "unread"]
Ensured(rows, k) ==
    IF rows[k].status = "none" THEN [rows EXCEPT ![k].status = "unread"] ELSE rows

(* A link made by hand, and undone by hand: LinkPRIssue, LinkProjectIssue. *)
LinkIssue(k, source) ==
    /\ issues' = Ensured(issues, k)
    /\ links' = links \cup {<<k, source>>}
    /\ UNCHANGED <<tracker, waitsOn, polls>>

UnlinkIssue(k, source) ==
    /\ <<k, source>> \in links
    /\ links' = links \ {<<k, source>>}
    /\ UNCHANGED <<tracker, issues, waitsOn, polls>>

(* ReconcileClosingIssues: a poll of the pull request names the issues it  *)
(* closes, and sync's own links become exactly those.                      *)
DroppedOfAnyone(wanted) == {l \in links : l[1] \notin wanted}
Dropped(wanted) == {l \in links : l[1] \notin wanted /\ l[2] = "github"}

ReconcileClosingIssues(wanted) ==
    /\ issues' = [k \in IssueKeys |-> IF k \in wanted THEN Ensured(issues, k)[k] ELSE issues[k]]
    /\ links' = (links \ Dropped(wanted)) \cup (wanted \X {"github"})
    /\ UNCHANGED <<tracker, waitsOn, polls>>

(* WaitOnIssue: one issue an action, and the last one said counts.         *)
WaitOnIssue(a, k) ==
    /\ ~waitsOn[a].done
    /\ issues' = Ensured(issues, k)
    /\ waitsOn' = [waitsOn EXCEPT ![a].on = k]
    /\ UNCHANGED <<tracker, links, polls>>

(* Settle, by a sweep or by the command that just wrote: the predicate     *)
(* issue_closed reads the closing time and not the status.                 *)
IssueClosed(k) == issues[k].closed # None

SettleIssue(a) ==
    /\ ~waitsOn[a].done /\ waitsOn[a].on # "nothing"
    /\ IssueClosed(waitsOn[a].on)
    /\ waitsOn' = [waitsOn EXCEPT ![a].done = TRUE]
    /\ UNCHANGED <<tracker, issues, links, polls>>

-----------------------------------------------------------------------------
(* Observations.                                                           *)

(* observationOf: GitHub gives a state always, and no closing time for an   *)
(* open issue.                                                              *)
SaidBy(answer, news) ==
    [status |-> IF answer.open THEN "open" ELSE "closed",
     closed |-> IF answer.open THEN None ELSE answer.closed, news |-> news, at |-> None]

(* assign: what was not said stays; a row is made for a key nobody named.   *)
Assigned(row, said) ==
    [row EXCEPT !.status = IF said.status # "unsaid" THEN said.status
                           ELSE IF @ = "none" THEN "unread" ELSE @,
                !.closed = IF said.closed = None THEN @ ELSE said.closed]

(* synced_at moves with what is stored and not with the reading, unless the *)
(* observation states a time.                                               *)
ApplyTrackerObservation(row, said) ==
    LET after == [Assigned(row, said) EXCEPT !.asked = 0]
        moved == Assigned(row, said) # row \/ said.news
    IN IF said.at # None THEN [after EXCEPT !.synced = said.at]
       ELSE IF moved THEN [after EXCEPT !.synced = 0]
       ELSE after

(* `roz issue observe`, or one entry of a feed: the tracker was read by     *)
(* somebody else, who says of it what they will.                            *)
ObserveIssue(k, said) ==
    /\ issues' = [issues EXCEPT ![k] = ApplyTrackerObservation(@, said)]
    /\ UNCHANGED <<tracker, links, waitsOn, polls>>

RungsInSpan(row) ==
    {i \in DOMAIN IssueSteps : /\ row.closed \in 0..IssueSteps[i].within
                               /\ i > 1 => row.closed > IssueSteps[i - 1].within}

(* The rung of a closed issue: the first whose span its closing lies in.   *)
Rungs(row) ==
    {i \in DOMAIN IssueSteps :
        /\ row.closed # None
        /\ IssueSteps[i].within > 0 => row.closed <= IssueSteps[i].within
        /\ i > 1 => row.closed > IssueSteps[i - 1].within}

Due(row) ==
    \E i \in Rungs(row) : IF IssueSteps[i].every = 0 THEN row.synced >= 0
                          ELSE row.synced > IssueSteps[i].every

(* IssuesToPoll: no closing time, never read, or closed and due.           *)
NewOrDue(k) == issues[k].synced = None \/ Due(issues[k])
ToPollIssue(k) == issues[k].closed = None \/ issues[k].synced = None \/ Due(issues[k])

IssuesToPoll(p) ==
    /\ polls[p].at = "idle"
    /\ LET keys == {k \in Known : ToPollIssue(k)}
       IN /\ keys # {}
          /\ polls' = [polls EXCEPT ![p] = [NoPoll EXCEPT !.at = "chosen", !.keys = keys]]
    /\ UNCHANGED <<tracker, issues, links, waitsOn>>

(* GitHub answers for some of the keys; the rest are reported unreadable.  *)
ReadIssues(p) ==
    /\ polls[p].at = "chosen"
    /\ \E seen \in SUBSET polls[p].keys :
        polls' = [polls EXCEPT ![p].at = "read", ![p].answer = [k \in seen |-> tracker[k]]]
    /\ UNCHANGED <<tracker, issues, links, waitsOn>>

ReadAllIssues(p) ==
    /\ polls[p].at = "chosen"
    /\ polls' = [polls EXCEPT ![p].at = "read", ![p].answer = [k \in polls[p].keys |-> tracker[k]]]
    /\ UNCHANGED <<tracker, issues, links, waitsOn>>

ObserveTrackerIssues(p, retitled) ==
    /\ polls[p].at = "read" /\ retitled \subseteq DOMAIN polls[p].answer
    /\ issues' = [k \in IssueKeys |->
            IF k \notin DOMAIN polls[p].answer THEN issues[k]
            ELSE ApplyTrackerObservation(issues[k], SaidBy(polls[p].answer[k], k \in retitled))]
    /\ polls' = [polls EXCEPT ![p] = NoPoll]
    /\ UNCHANGED <<tracker, links, waitsOn>>

ObserveAnswer(p) == \E retitled \in SUBSET IssueKeys : ObserveTrackerIssues(p, retitled)
ObserveAllRead(p) == DOMAIN polls[p].answer = polls[p].keys /\ ObserveAnswer(p)

(* A read that fails, or a process that stops.                             *)
PollFails(p) ==
    /\ polls[p].at # "idle"
    /\ polls' = [polls EXCEPT ![p] = NoPoll]
    /\ UNCHANGED <<tracker, issues, links, waitsOn>>

-----------------------------------------------------------------------------

IssuesInit ==
    /\ tracker \in [IssueKeys -> {[open |-> TRUE, closed |-> None], [open |-> FALSE, closed |-> MaxAge]}]
    /\ issues = [k \in IssueKeys |-> NoIssue]
    /\ links = {}
    /\ waitsOn = [a \in Waits |-> [on |-> "nothing", done |-> FALSE]]
    /\ polls = [p \in IssuePollers |-> NoPoll]

IssuesNext ==
    \/ TickAges
    \/ \E k \in IssueKeys : \/ TrackerMoves(k)
                       \/ \E source \in ByHand : LinkIssue(k, source) \/ UnlinkIssue(k, source)
                       \/ \E said \in Told : ObserveIssue(k, said)
                       \/ \E a \in Waits : WaitOnIssue(a, k)
    \/ \E wanted \in SUBSET IssueKeys : ReconcileClosingIssues(wanted)
    \/ \E a \in Waits : SettleIssue(a)
    \/ \E p \in IssuePollers : \/ IssuesToPoll(p) \/ ReadIssues(p) \/ ObserveAnswer(p)
                          \/ PollFails(p)

IssuesSpec == IssuesInit /\ [][IssuesNext]_issueVars

(* The clock runs, every process that polls goes on polling, a read of     *)
(* everything asked for is answered and applied again and again, and each  *)
(* sweep settles.                                                          *)
IssuesFairness ==
    /\ WF_issueVars(TickAges)
    /\ \A a \in Waits : WF_issueVars(SettleIssue(a))
    /\ \A p \in IssuePollers : /\ WF_issueVars(IssuesToPoll(p)) /\ SF_issueVars(ReadAllIssues(p))
                          /\ WF_issueVars(ObserveAnswer(p))
                          /\ SF_issueVars(ObserveAllRead(p))

FairIssues == IssuesSpec /\ IssuesFairness

-----------------------------------------------------------------------------
(* Properties.                                                             *)

(* A link somebody made by hand goes only alone, by the unlink that names  *)
(* it: no poll of the pull request takes it along with what GitHub no      *)
(* longer says, though a link of its own to the same issue may go           *)
(* (prissue.go).                                                           *)
HandMadeLinksStay ==
    [][\A l \in links \ links' : l[2] \in ByHand => links \ links' = {l}]_issueVars

(* An action that waits for an issue which has closed, and stays closed,   *)
(* closes: whatever fails meanwhile, and although the issue may have been  *)
(* only a key when the wait began (issuepoll.go, actionissue.go).          *)
ClosedIssueEndsWait ==
    \A a \in Waits, k \in IssueKeys :
        waitsOn[a].on = k /\ ~waitsOn[a].done ~>
            waitsOn[a].done \/ waitsOn[a].on # k \/ tracker[k].open

(* No issue is ever dropped from the poll: however long ago it closed,     *)
(* somebody reads it again (issuepoll.go, "nothing is ever dropped").      *)
NothingIsDropped ==
    \A k \in IssueKeys : k \in Known ~> issues[k].asked = 0

(* issuepoll.go:65-68: the ladder is "measured from synced_at, which is    *)
(* when the tracker was last read for it, so a poll that finds nothing     *)
(* still pushes the next one out".                                         *)
PollPushesNextOut ==
    [][\A p \in IssuePollers :
        polls[p].at = "idle" /\ polls'[p].at = "chosen" =>
            \A k \in polls'[p].keys :
                issues[k].closed # None /\ issues[k].asked # None =>
                    \E i \in Rungs(issues[k]) : issues[k].asked >= IssueSteps[i].every]_issueVars

(* predicate.go, PredicateIssueClosed: "The tracker says the issue         *)
(* closed."  A row that is believed open is what the tracker said last.    *)
WaitEndsOnClosed ==
    [][\A a \in Waits :
        ~waitsOn[a].done /\ waitsOn'[a].done => issues[waitsOn[a].on].status # "open"]_issueVars

=============================================================================
