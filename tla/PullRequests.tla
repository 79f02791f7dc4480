---------------------------- MODULE PullRequests ----------------------------
(***************************************************************************)
(* Tracked pull requests: ghsync/ghsync.go (applyOne, merge), owners.go,   *)
(* store/pr.go and prcheck.go, and the commands of cli/pr.go and           *)
(* announce.go.  A row holds what GitHub last said (observed columns, and  *)
(* the checks as rows beside them), what follows from several rows (which  *)
(* pull request a row is stacked on), and what was worked out from a       *)
(* second, dearer read (the owners it needs).                              *)
(*                                                                         *)
(* A poll is many transactions: the rows are chosen and read at once, then *)
(* applied one by one; the owners are derived one by one, each a read and  *)
(* a write; the stacking is resolved last, in one transaction.  GitHub     *)
(* moves between any two, and the poll may stop anywhere.  A head and a    *)
(* base stand for the commits and branches they name; the owners of a      *)
(* change are a function of both (the files of the one, the CODEOWNERS of  *)
(* the other), so the pair stands for them.  What else a row's transaction *)
(* writes is modelled where it is read: closing issues in Issues, ejections*)
(* in SyncCycle, waiting_since in Overdue.                                 *)
(***************************************************************************)
EXTENDS Integers, FiniteSets

CONSTANTS
    PRs,      \* pull requests of one repository, by number
    Branch,   \* PRs -> the name of the branch each is from
    Forks,    \* those whose branch is in another repository
    Trunk,    \* the default branch
    Pollers,  \* processes that poll
    MaxMoves  \* bound on what happens at GitHub, and on announcements

PullRequestsAssumption ==
    /\ PRs \subseteq Nat /\ IsFiniteSet(PRs)
    /\ Forks \subseteq PRs
    /\ DOMAIN Branch = PRs
    /\ MaxMoves \in Nat

VARIABLES
    hub,      \* what GitHub holds: [state, head, base, check, ended]
    prs,      \* the rows
    checkLog, \* whether the log last told of a check as broken
    syncs,    \* each poll: [at, answer, todo, owed]
    moves     \* how often GitHub moved or somebody announced

prVars == <<hub, prs, checkLog, syncs, moves>>

Branches == {Branch[p] : p \in PRs} \cup {Trunk}
Heads == 1..(MaxMoves + 1)
States == {"open", "merged", "closed"}
Checks == {"none", "passing", "broken"}
Nobody == 0

(* A pull request that was reopened may end again, on another day: which    *)
(* of its endings it is stands for the day, and 0 for none.                 *)
Observations == [state : States, head : Heads, base : Branches, check : Checks, ended : Nat]

(* A row as `pr track` makes it: nothing is known until a poll.            *)
NewPR == [tracked |-> TRUE, state |-> "none", head |-> Nobody, base |-> "none", check |-> "none",
          ended |-> 0, lapsed |-> FALSE, stackedOn |-> Nobody,
          owners |-> <<>>, ownersHead |-> Nobody, announced |-> Nobody, announceCount |-> 0]
NoPR == [NewPR EXCEPT !.tracked = FALSE]
NoSync == [at |-> "idle", answer |-> <<>>, todo |-> {}, owed |-> <<>>]

Tracked == {p \in PRs : prs[p].tracked}
Ended(state) == state \in {"merged", "closed"}

(* Types, and that an ending has a date: what decides how long a row is    *)
(* polled is written with the state, and a reopening leaves it.            *)
PRTypeOK ==
    /\ hub \in [PRs -> Observations]
    /\ \A p \in PRs :
        /\ prs[p].state \in States \cup {"none"}
        /\ prs[p].head \in Heads \cup {Nobody} /\ prs[p].ownersHead \in Heads \cup {Nobody}
        /\ prs[p].base \in Branches \cup {"none"} /\ prs[p].check \in Checks
        /\ prs[p].stackedOn \in (Tracked \ {p}) \cup {Nobody}
        /\ prs[p].ended \in Nat
        /\ Ended(prs[p].state) => prs[p].ended > 0
        /\ prs[p].announceCount \in 0..MaxMoves /\ prs[p].announced \in 0..MaxMoves
        /\ prs[p].announced # Nobody => prs[p].announceCount > 0
    /\ checkLog \in [PRs -> BOOLEAN]
    /\ \A s \in Pollers : /\ syncs[s].at \in {"idle", "chosen", "apply", "owners", "derived"}
                          /\ DOMAIN syncs[s].answer \subseteq Tracked
                          /\ syncs[s].todo \subseteq Tracked

-----------------------------------------------------------------------------
(* GitHub.                                                                 *)

Move(p, to) ==
    /\ moves < MaxMoves
    /\ hub' = [hub EXCEPT ![p] = to]
    /\ moves' = moves + 1
    /\ UNCHANGED <<prs, checkLog, syncs>>

PushHead(p) ==
    /\ hub[p].state = "open" /\ hub[p].head + 1 \in Heads
    /\ Move(p, [hub[p] EXCEPT !.head = @ + 1, !.check = "none"])

Retarget(p, base) ==
    /\ hub[p].state = "open" /\ base # hub[p].base /\ base # Branch[p]
    /\ Move(p, [hub[p] EXCEPT !.base = base])

Report(p, check) == hub[p].check # check /\ Move(p, [hub[p] EXCEPT !.check = check])

End(p, state) ==
    hub[p].state = "open" /\ Move(p, [hub[p] EXCEPT !.state = state, !.ended = @ + 1])

Reopen(p) == hub[p].state = "closed" /\ Move(p, [hub[p] EXCEPT !.state = "open"])

(* The window after an ending passes, for a row that has a date.           *)
WindowPasses(p) ==
    /\ prs[p].ended > 0 /\ ~prs[p].lapsed
    /\ prs' = [prs EXCEPT ![p].lapsed = TRUE]
    /\ UNCHANGED <<hub, checkLog, syncs, moves>>

-----------------------------------------------------------------------------
(* Commands.                                                               *)

(* runPRTrack: a row is tracked once.                                      *)
TrackPR(p) ==
    /\ ~prs[p].tracked
    /\ prs' = [prs EXCEPT ![p] = NewPR]
    /\ UNCHANGED <<hub, checkLog, syncs, moves>>

(* runPRAnnounce: another instant is another telling, the same one is not. *)
Announced(row, at) ==
    [row EXCEPT !.announced = at,
                !.announceCount = IF row.announced = at THEN @ ELSE @ + 1]

Announce(p, at) ==
    /\ prs[p].tracked /\ moves < MaxMoves
    /\ moves' = moves + 1
    /\ prs' = [prs EXCEPT ![p] = Announced(@, at)]
    /\ UNCHANGED <<hub, checkLog, syncs>>

-----------------------------------------------------------------------------
(* The poll.                                                               *)

(* PRsToPoll: never read, believed open, or ended within the window.  One   *)
(* that an open action is about is polled whatever its age: left out here,  *)
(* where no action is.                                                      *)
BelievedOpen(p) == prs[p].state \in {"none", "open"}
ToPoll(p) == BelievedOpen(p) \/ prs[p].ended = 0 \/ ~prs[p].lapsed

At(s, at) == syncs[s].at = at

PRsToPoll(s) ==
    /\ At(s, "idle")
    /\ \E p \in Tracked : ToPoll(p)
    /\ syncs' = [syncs EXCEPT ![s] = [NoSync EXCEPT !.at = "chosen",
                                                    !.todo = {p \in Tracked : ToPoll(p)}]]
    /\ UNCHANGED <<hub, prs, checkLog, moves>>

(* Fetch: some of what was asked for may be missing from the answer.       *)
ReadPRs(s, seen) ==
    /\ At(s, "chosen") /\ seen \subseteq syncs[s].todo
    /\ syncs' = [syncs EXCEPT ![s] = [NoSync EXCEPT !.at = "apply",
                                                    !.answer = [p \in seen |-> hub[p]]]]
    /\ UNCHANGED <<hub, prs, checkLog, moves>>

(* merge: what GitHub said replaces what was stored.  GitHub gives no day   *)
(* for an open pull request, so that an ending's is kept through a          *)
(* reopening, until it ends again.                                          *)
DayOf(row, seen) == IF Ended(seen.state) THEN seen.ended ELSE row.ended

MergeIfPushed(row, seen) ==
    IF row.head = seen.head THEN row
    ELSE [row EXCEPT !.state = seen.state, !.head = seen.head, !.base = seen.base,
                     !.ended = DayOf(row, seen), !.lapsed = @ /\ DayOf(row, seen) = row.ended]
Merge(row, seen) ==
    [row EXCEPT !.state = seen.state, !.head = seen.head, !.base = seen.base,
                !.ended = DayOf(row, seen), !.lapsed = @ /\ DayOf(row, seen) = row.ended]

(* ApplyChecks: a row is kept of the check as it is, and the log is told   *)
(* of crossings into and out of trouble, a disappearance among them.       *)
IsBroken(check) == check = "broken"
LoggedIfThere(was, now, told) ==
    IF IsBroken(was) # IsBroken(now) /\ now # "none" THEN IsBroken(now) ELSE told
Logged(was, now, told) == IF IsBroken(was) # IsBroken(now) THEN IsBroken(now) ELSE told

ApplyOne(s, p) ==
    /\ At(s, "apply") /\ p \in DOMAIN syncs[s].answer
    /\ LET seen == syncs[s].answer[p] IN
        /\ prs' = [prs EXCEPT ![p] = [Merge(@, seen) EXCEPT !.check = seen.check]]
        /\ checkLog' = [checkLog EXCEPT ![p] = Logged(prs[p].check, seen.check, @)]
    /\ syncs' = [syncs EXCEPT ![s].answer = [q \in DOMAIN @ \ {p} |-> @[q]]]
    /\ UNCHANGED <<hub, moves>>

(* worthDeriving: a head was seen, and the answer is not for that head.    *)
NeverDerived(row) == row.ownersHead = Nobody
HeadMoved(row) == row.ownersHead # row.head

(* syncOwners lists the open rows once, and remembers their heads.         *)
ListForOwners(s) ==
    /\ At(s, "apply") /\ syncs[s].answer = <<>>
    /\ syncs' = [syncs EXCEPT ![s] =
            [NoSync EXCEPT !.at = "owners",
                           !.owed = [p \in {q \in Tracked : prs[q].state = "open" /\ HeadMoved(prs[q])}
                                        |-> prs[p].head]]]
    /\ UNCHANGED <<hub, prs, checkLog, moves>>

(* deriveOwners reads the change as it is now; recordOwners writes the     *)
(* answer under the head of the listing.                                   *)
DeriveOwners(s, p) ==
    /\ At(s, "owners") /\ p \in DOMAIN syncs[s].owed
    /\ syncs' = [syncs EXCEPT ![s].at = "derived", ![s].todo = {p},
                              ![s].answer = [q \in {p} |-> hub[q]]]
    /\ UNCHANGED <<hub, prs, checkLog, moves>>

RecordOwners(s) ==
    /\ At(s, "derived")
    /\ \E p \in syncs[s].todo :
        /\ prs' = [prs EXCEPT
                ![p].owners = <<syncs[s].answer[p].head, syncs[s].answer[p].base>>,
                ![p].ownersHead = syncs[s].owed[p]]
        /\ syncs' = [syncs EXCEPT ![s] =
                [NoSync EXCEPT !.at = "owners", !.owed = 
                                   [q \in DOMAIN syncs[s].owed \ {p} |-> syncs[s].owed[q]]]]
    /\ UNCHANGED <<hub, checkLog, moves>>

(* One that cannot be read is reported, and stops none of the others.      *)
OwnersUnreadable(s, p) ==
    /\ At(s, "owners") /\ p \in DOMAIN syncs[s].owed
    /\ syncs' = [syncs EXCEPT ![s].owed = [q \in DOMAIN @ \ {p} |-> @[q]]]
    /\ UNCHANGED <<hub, prs, checkLog, moves>>

(* ResolveStacking: the last row, by number, whose branch a row is based   *)
(* on, and none for a row that is based on its own.                        *)
HeadsNamed(branch) == {p \in Tracked : prs[p].head # Nobody /\ Branch[p] = branch}
Newest(S) == CHOOSE p \in S : \A q \in S : q <= p

Parent(p) ==
    LET named == HeadsNamed(prs[p].base)
    IN IF named = {} THEN Nobody ELSE IF Newest(named) = p THEN Nobody ELSE Newest(named)

StackedLatched(p) == IF Parent(p) = Nobody THEN prs[p].stackedOn ELSE Parent(p)
StackedOn(p) == Parent(p)

ResolveStacking(s) ==
    /\ At(s, "owners") /\ DOMAIN syncs[s].owed = {}
    /\ prs' = [p \in PRs |-> IF p \in Tracked THEN [prs[p] EXCEPT !.stackedOn = StackedOn(p)]
                             ELSE prs[p]]
    /\ syncs' = [syncs EXCEPT ![s] = NoSync]
    /\ UNCHANGED <<hub, checkLog, moves>>

(* A read that fails, a rate limit, or a process that stops.               *)
SyncStops(s) ==
    /\ ~At(s, "idle")
    /\ syncs' = [syncs EXCEPT ![s] = NoSync]
    /\ UNCHANGED <<hub, prs, checkLog, moves>>

-----------------------------------------------------------------------------

PRInit ==
    /\ hub \in [PRs -> [state : {"open", "closed"}, head : {1}, base : Branches, check : Checks,
                        ended : {0, 1}]]
    /\ \A p \in PRs : /\ hub[p].base # Branch[p] \/ p \in Forks
                      /\ hub[p].ended = IF Ended(hub[p].state) THEN 1 ELSE 0
    /\ prs = [p \in PRs |-> NoPR]
    /\ checkLog = [p \in PRs |-> FALSE]
    /\ syncs = [s \in Pollers |-> NoSync]
    /\ moves = 0

PRNext ==
    \/ \E p \in PRs :
        \/ PushHead(p) \/ Reopen(p) \/ WindowPasses(p) \/ TrackPR(p)
        \/ \E base \in Branches : Retarget(p, base)
        \/ \E check \in Checks : Report(p, check)
        \/ \E state \in {"merged", "closed"} : End(p, state)
        \/ \E at \in 1..MaxMoves : Announce(p, at)
    \/ \E s \in Pollers :
        \/ PRsToPoll(s) \/ ListForOwners(s) \/ RecordOwners(s) \/ ResolveStacking(s) \/ SyncStops(s)
        \/ \E seen \in SUBSET Tracked : ReadPRs(s, seen)
        \/ \E p \in PRs : ApplyOne(s, p) \/ DeriveOwners(s, p) \/ OwnersUnreadable(s, p)

PRSpec == PRInit /\ [][PRNext]_prVars

(* Every process that polls goes on, and a step of a poll that can be      *)
(* taken is.                                                               *)
SyncStep(s) ==
    \/ PRsToPoll(s) \/ ReadPRs(s, syncs[s].todo) \/ ListForOwners(s) \/ RecordOwners(s)
    \/ ResolveStacking(s)
    \/ \E p \in PRs : ApplyOne(s, p) \/ DeriveOwners(s, p)

(* From some time on GitHub answers what it is asked, and nobody kills a   *)
(* process: what catching up is promised under.                            *)
Answered ==
    <>[][\A s \in Pollers : syncs[s] # syncs'[s] => SyncStep(s)]_prVars

FairPR == PRSpec /\ Answered /\ \A s \in Pollers : WF_prVars(SyncStep(s))

-----------------------------------------------------------------------------
(* Properties.                                                             *)

(* What a tracked row says is what GitHub says, again and again, unless it *)
(* ended so long ago that nobody asks any more: whatever two polls' stale  *)
(* answers wrote meanwhile, one over the other (ghsync.go applyOne).       *)
RowAgrees(p) ==
    /\ prs[p].state = hub[p].state /\ prs[p].head = hub[p].head
    /\ prs[p].base = hub[p].base /\ prs[p].check = hub[p].check

RowCatchesUp ==
    \A p \in PRs : prs[p].tracked ~> RowAgrees(p) \/ ~ToPoll(p)

(* Every row is stacked on what its base branch says, and on nothing once  *)
(* it is based on a branch nobody tracks: no retarget, ending or late      *)
(* answer leaves a parent behind (pr.go ResolveStacking).                  *)
StackingCatchesUp ==
    \A p \in PRs : prs[p].tracked ~>
        \/ ~ToPoll(p)
        \/ prs[p].stackedOn = Nobody /\ \A q \in Tracked : Branch[q] # hub[p].base \/ q \in Forks
        \/ prs[p].stackedOn # Nobody /\ Branch[prs[p].stackedOn] = hub[p].base

(* The owners of an open change are those of the commit at its head: a     *)
(* push between the listing, the read and the write costs another round,   *)
(* and is never lost (owners.go).                                          *)
OwnersCatchUp ==
    \A p \in PRs : prs[p].tracked /\ hub[p].state = "open" ~>
        \/ hub[p].state # "open" \/ ~ToPoll(p)
        \/ prs[p].owners # <<>> /\ prs[p].owners[1] = hub[p].head

(* The log's last word on a check is what the row says: a reader who only  *)
(* follows the log knows what is broken, checks that went away included    *)
(* (prcheck.go).                                                           *)
LogKnowsWhatIsBroken == \A p \in PRs : checkLog[p] = IsBroken(prs[p].check)

(* owners.go:38: the owners are worked out again "for the ones where the   *)
(* answer could have changed".                                             *)
OwnersFollowTheBase ==
    \A p \in PRs : prs[p].tracked /\ hub[p].state = "open" ~>
        \/ hub[p].state # "open" \/ ~ToPoll(p)
        \/ prs[p].owners = <<hub[p].head, hub[p].base>>

(* pr.go:376: "A pull request is stacked when another tracked one in the   *)
(* same repository has the branch it is based on as its head."             *)
StackedInTheRepository == \A p \in PRs : prs[p].stackedOn \notin Forks

=============================================================================
