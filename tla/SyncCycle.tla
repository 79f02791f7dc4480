----------------------------- MODULE SyncCycle -----------------------------
(***************************************************************************)
(* The cycle of Sync, run again and again by one process: it reads,        *)
(* records each pull request in a transaction of its own, reports what     *)
(* fell out of a merge queue, settles what the observations finished, and  *)
(* sweeps.                                                                 *)
(*                                                                         *)
(* Every step is a transaction, a request, or a query outside a            *)
(* transaction; GitHub and a person may move between any two of them, and  *)
(* the process may end.  GitHub is modelled by what a poll can see of it.  *)
(***************************************************************************)
EXTENDS Naturals, Sequences, FiniteSets

CONSTANTS
    PRs,          \* tracked pull requests
    NoPR,
    Kinds,        \* verbs that close on a predicate
    Chain,        \* what closing a verb instantiates: its pipeline's verbs
    Work,         \* open actions to start with, by pull request and verb
    HasMergeVerb, \* whether an active verb closes on pr_merged
    MaxMoves,     \* bound on what happens at GitHub and by hand
    MaxEnds       \* bound on rate limits and ended processes

NoPRAssumption  == NoPR \notin PRs
KindsAssumption == "merge" \in Kinds /\ Chain \in [Kinds -> SUBSET Kinds]
WorkAssumption  == Work \in SUBSET [PRs -> [Kinds -> 0 .. 1]]
CycleAssumption ==
    /\ HasMergeVerb \in BOOLEAN
    /\ {MaxMoves, MaxEnds} \subseteq Nat

VARIABLES
    github,    \* what GitHub would answer for a pull request
    row,       \* what the store's row says
    todo,      \* open actions, by subject and verb
    cycle,     \* the cycle in the process's memory
    left,      \* how often a pull request left the queue without landing
    seen,      \* how often applyOne saw it
    logged,    \* how often it was logged
    lost,      \* pull requests whose report a process was ended in
    moves, ends

outside   == <<github, left>>
store     == <<row, todo, logged>>
memory    == <<cycle, seen, lost>>
spent     == <<moves, ends>>
cycleVars == <<github, row, todo, cycle, left, seen, logged, lost, moves, ends>>

Unread  == [state |-> "unread", approved |-> FALSE]
Answers == [state : {"open", "queued", "merged", "closed"}, approved : BOOLEAN]

Nothing == [p \in PRs |-> [k \in Kinds |-> 0]]
NoCycle == [pc |-> "idle", fetched |-> [p \in {} |-> Unread], pr |-> NoPR,
            add |-> FALSE, candidates |-> Nothing]

----------------------------------------------------------------------------
(* What the sweeps ask *)

\* Mutant: what never was read is taken for finished.
HoldsUnread(k, seenRow) ==
    \/ seenRow.state = "unread"
    \/ k \in {"review", "owner"} /\ seenRow.approved
    \/ k = "merge" /\ seenRow.state = "merged"

\* The verbs' predicates over a row.  A review closes on pr_approved, an owner's
\* review on pr_approved_by; the owner is the one reviewer there is.
Holds(k, seenRow) ==
    \/ k \in {"review", "owner"} /\ seenRow.approved
    \/ k = "merge" /\ seenRow.state = "merged"

\* Mutant: any way out of the queue is an ejection.
LeftQueue(before, after) == before.state = "queued" /\ after.state # "queued"

EjectedFromMergeQueue(before, after) == before.state = "queued" /\ after.state = "open"

\* Mutant: an ending is the last thing that happens to a pull request.
OpenPRs == {p \in PRs : row[p].state \in {"unread", "open", "queued"}}

\* The pull requests still open as far as the store knows, and what an open
\* action is about.  The window past an ending is zero days.
PRsToPoll == {p \in PRs : \/ row[p].state \in {"unread", "open", "queued"}
                          \/ \E k \in Kinds : todo[p][k] > 0}

MergeIsAlreadyQueued(p) == todo[p]["merge"] > 0

\* Mutant: a step that is done already is started again.
StepsOfPipeline(p, k) == Chain[k]

\* What readPipeline leaves of a pipeline: a step whose predicate the row alone
\* satisfies is skipped; an owner's asks for an action there is not yet.
StepsToStart(p, k) == {step \in Chain[k] : step = "owner" \/ ~Holds(step, row[p])}

SatisfiedActions ==
    [p \in PRs |-> [k \in Kinds |-> IF Holds(k, row[p]) THEN todo[p][k] ELSE 0]]

----------------------------------------------------------------------------
(* The cycle *)

Go(pc) == cycle' = [cycle EXCEPT !.pc = pc]

BeginCycle ==
    /\ cycle.pc = "idle"
    /\ Go("refs")
    /\ UNCHANGED <<outside, store, seen, lost, spent>>

\* What follows each read when it worked, or failed and the cycle carries on.
After(read) ==
    CASE read = "refs"   -> "issues"
      [] read = "issues" -> "prs"
      [] read = "prs"    -> "teams"
      [] read = "teams"  -> "settle"

Reads == {"refs", "issues", "prs", "teams"}

(* Mutant: a refused read ends the cycle, as it once did. *)
UnansweredStops(read) ==
    /\ cycle.pc = read
    /\ Go("idle")
    /\ UNCHANGED <<outside, store, seen, lost, spent>>

(* A read with nothing to ask makes no request; one GitHub refuses is noted   *)
(* by noteFailure, and the cycle carries on.                                  *)
Unanswered(read) ==
    /\ cycle.pc = read
    /\ Go(After(read))
    /\ UNCHANGED <<outside, store, seen, lost, spent>>

Answered(read) ==
    /\ cycle.pc = read
    /\ IF read = "prs"
       THEN /\ PRsToPoll # {}
            /\ cycle' = [cycle EXCEPT !.pc = "apply",
                                      !.fetched = [p \in PRsToPoll |-> github[p]]]
       ELSE Go(After(read))
    /\ UNCHANGED <<outside, store, seen, lost, spent>>

(* A rate limit ends the cycle before the sweeps: the reads share one budget. *)
RateLimited(read) ==
    /\ cycle.pc = read
    /\ ends < MaxEnds
    /\ ends' = ends + 1
    /\ cycle' = NoCycle
    /\ UNCHANGED <<outside, store, seen, lost, moves>>

(* applyOne: one observation, in one transaction.                             *)
ApplyOne(p) ==
    LET now == cycle.fetched[p]
        rest == [q \in DOMAIN cycle.fetched \ {p} |-> cycle.fetched[q]]
        ejected == EjectedFromMergeQueue(row[p], now)
    IN  /\ cycle.pc = "apply"
        /\ p \in DOMAIN cycle.fetched
        /\ row' = [row EXCEPT ![p] = now]
        /\ seen' = IF ejected THEN [seen EXCEPT ![p] = @ + 1] ELSE seen
        /\ cycle' = [cycle EXCEPT !.fetched = rest,
                                  !.pc = IF ejected THEN "ejected" ELSE "apply",
                                  !.pr = IF ejected THEN p ELSE NoPR]
        /\ UNCHANGED <<outside, todo, logged, lost, spent>>

Applied ==
    /\ cycle.pc = "apply"
    /\ DOMAIN cycle.fetched = {}
    /\ Go("teams")
    /\ UNCHANGED <<outside, store, seen, lost, spent>>

(* Mutant: what is on the list already is not asked. *)
CheckNothing ==
    /\ cycle.pc = "ejected"
    /\ cycle' = [cycle EXCEPT !.pc = "report", !.add = TRUE]
    /\ UNCHANGED <<outside, store, seen, lost, spent>>

(* ReportEjection, up to its first write: mergeIsAlreadyQueued, mergeVerb.    *)
(* No active verb is an error, and the error ends the cycle.                  *)
CheckMerge ==
    /\ cycle.pc = "ejected"
    /\ IF ~MergeIsAlreadyQueued(cycle.pr) /\ ~HasMergeVerb
       THEN cycle' = NoCycle
       ELSE /\ cycle' = [cycle EXCEPT !.pc = "report",
                                      !.add = ~MergeIsAlreadyQueued(cycle.pr)]
    /\ UNCHANGED <<outside, store, seen, lost, spent>>

(* Mutant: nothing is logged where the list covers the merge already. *)
ReportIfAdding ==
    /\ cycle.pc = "report"
    /\ logged' = IF cycle.add THEN [logged EXCEPT ![cycle.pr] = @ + 1] ELSE logged
    /\ cycle' = IF cycle.add THEN [cycle EXCEPT !.pc = "queue"]
                ELSE [cycle EXCEPT !.pc = "apply", !.pr = NoPR]
    /\ UNCHANGED <<outside, row, todo, seen, lost, spent>>

(* reportLeftQueue, as sync. *)
ReportLeftQueue ==
    /\ cycle.pc = "report"
    /\ logged' = [logged EXCEPT ![cycle.pr] = @ + 1]
    /\ cycle' = IF cycle.add THEN [cycle EXCEPT !.pc = "queue"]
                ELSE [cycle EXCEPT !.pc = "apply", !.pr = NoPR]
    /\ UNCHANGED <<outside, row, todo, seen, lost, spent>>

(* queueEjection, as predicate. *)
QueueEjection ==
    /\ cycle.pc = "queue"
    /\ todo' = [todo EXCEPT ![cycle.pr]["merge"] = @ + 1]
    /\ cycle' = [cycle EXCEPT !.pc = "apply", !.pr = NoPR, !.add = FALSE]
    /\ UNCHANGED <<outside, row, logged, seen, lost, spent>>

(* satisfiedActions; an empty answer ends the settling. *)
ReadSatisfied ==
    /\ cycle.pc = "settle"
    /\ cycle' = [cycle EXCEPT !.pc = IF SatisfiedActions = Nothing THEN "sweep" ELSE "close",
                              !.candidates = SatisfiedActions]
    /\ UNCHANGED <<outside, store, seen, lost, spent>>

(* Mutant: what was read as open is taken to be open still. *)
CloseUnasked(p, k) ==
    /\ cycle.pc = "close"
    /\ cycle.candidates[p][k] > 0
    /\ todo' = [todo EXCEPT ![p][k] = @ - 1]
    /\ cycle' = [cycle EXCEPT !.candidates[p][k] = @ - 1]
    /\ UNCHANGED <<outside, row, logged, seen, lost, spent>>

(* CloseAction of one candidate, which fails if it is closed by now, and the  *)
(* failure ends the cycle.                                                    *)
CloseCandidate(p, k) ==
    /\ cycle.pc = "close"
    /\ cycle.candidates[p][k] > 0
    /\ IF todo[p][k] = 0
       THEN cycle' = NoCycle /\ UNCHANGED todo
       ELSE /\ todo' = [todo EXCEPT ![p] = [j \in Kinds |->
                           @[j] - (IF j = k THEN 1 ELSE 0)
                                + (IF j \in StepsToStart(p, k) THEN 1 ELSE 0)]]
            /\ cycle' = [cycle EXCEPT !.candidates[p][k] = @ - 1]
    /\ UNCHANGED <<outside, row, logged, seen, lost, spent>>

Closed ==
    /\ cycle.pc = "close"
    /\ cycle.candidates = Nothing
    /\ Go("settle")
    /\ UNCHANGED <<outside, store, seen, lost, spent>>

(* checkOverdue: the overdue and unannounced waits, and expired deferrals.    *)
Sweep ==
    /\ cycle.pc = "sweep"
    /\ cycle' = NoCycle
    /\ UNCHANGED <<outside, store, seen, lost, spent>>

Step ==
    \/ BeginCycle
    \/ \E read \in Reads : Unanswered(read) \/ Answered(read)
    \/ \E p \in PRs : ApplyOne(p)
    \/ Applied \/ CheckMerge \/ ReportLeftQueue \/ QueueEjection
    \/ ReadSatisfied
    \/ \E p \in PRs, k \in Kinds : CloseCandidate(p, k)
    \/ Closed \/ Sweep

(* The process ends, and another starts from nothing.                         *)
CycleEnds ==
    /\ cycle.pc # "idle"
    /\ ends < MaxEnds
    /\ ends' = ends + 1
    /\ cycle' = NoCycle
    /\ lost' = IF cycle.pc \in {"ejected", "report"} THEN lost \union {cycle.pr} ELSE lost
    /\ UNCHANGED <<outside, store, seen, moves>>

----------------------------------------------------------------------------
(* GitHub, and a person *)

Move == moves < MaxMoves /\ moves' = moves + 1

MayBecome(from) ==
    CASE from = "open"   -> {"queued", "merged", "closed"}
      [] from = "queued" -> {"open", "merged", "closed"}
      [] from = "closed" -> {"open"}
      [] from = "merged" -> {}

Transition(p, to) ==
    /\ Move
    /\ to \in MayBecome(github[p].state)
    /\ github' = [github EXCEPT ![p].state = to]
    /\ left' = IF github[p].state = "queued" /\ to # "merged"
               THEN [left EXCEPT ![p] = @ + 1] ELSE left
    /\ UNCHANGED <<store, memory, ends>>

(* An approval, or its dismissal. *)
Review(p) ==
    /\ Move
    /\ github' = [github EXCEPT ![p].approved = ~@]
    /\ UNCHANGED <<left, store, memory, ends>>

CloseByHand(p, k) ==
    /\ Move
    /\ todo[p][k] > 0
    /\ todo' = [todo EXCEPT ![p][k] = @ - 1]
    /\ UNCHANGED <<outside, row, logged, memory, ends>>

----------------------------------------------------------------------------
CycleInit ==
    /\ github   = [p \in PRs |-> [state |-> "open", approved |-> FALSE]]
    /\ row      = [p \in PRs |-> Unread]
    /\ todo     \in Work
    /\ cycle    = NoCycle
    /\ left     = [p \in PRs |-> 0]
    /\ seen     = [p \in PRs |-> 0]
    /\ logged   = [p \in PRs |-> 0]
    /\ lost     = {}
    /\ moves    = 0
    /\ ends     = 0

CycleNext ==
    \/ Step
    \/ \E read \in Reads : RateLimited(read)
    \/ CycleEnds
    \/ \E p \in PRs :
          \/ Review(p)
          \/ \E to \in {"open", "queued", "merged", "closed"} : Transition(p, to)
          \/ \E k \in Kinds : CloseByHand(p, k)

CycleSpec == CycleInit /\ [][CycleNext]_cycleVars

\* The loop goes on, and GitHub answers about pull requests again and again; a rate
\* limit, an end of the process and everything outside are not fair.
FairCycle == CycleSpec /\ WF_cycleVars(Step) /\ SF_cycleVars(Answered("prs"))

----------------------------------------------------------------------------
SyncTypeOK ==
    /\ github \in [PRs -> Answers]
    /\ row \in [PRs -> Answers \union {Unread}]
    /\ todo \in [PRs -> [Kinds -> Nat]]
    /\ cycle.pc \in Reads \union {"idle", "apply", "ejected", "report", "queue",
                                  "settle", "close", "sweep"}
    /\ cycle.pr \in PRs \union {NoPR}
    /\ cycle.pr = NoPR <=> cycle.pc \notin {"ejected", "report", "queue"}
    /\ cycle.candidates \in [PRs -> [Kinds -> Nat]]
    /\ {left, seen, logged} \subseteq [PRs -> Nat]
    /\ lost \subseteq PRs

\* An exception is logged once for each time a pull request fell out of the queue,
\* never for one that landed: "Keying on the transition alone would raise
\* an exception on every pull request that lands" (store/mergequeue.go:18).
EjectionsAreReal == \A p \in PRs : logged[p] <= left[p]

\* "a pull request ejected and re-queued twice in a morning produces one item,
\* not three" (store/mergequeue.go:132).
OneMergeOpen == \A p \in PRs : todo[p]["merge"] <= 1

\* Both: each exception logged is a fall of its own, and what is asked for after one is
\* asked for once, whatever was on the list when the cycle looked.
EjectionsAreCounted == SyncTypeOK /\ EjectionsAreReal /\ OneMergeOpen

\* "An unrecorded ejection is the defect" (store/mergequeue.go:118): whatever was
\* seen to leave the queue is logged, unless the process was ended in between.
EjectionIsLogged ==
    \A p \in PRs : seen[p] > logged[p] ~> seen[p] = logged[p] \/ p \in lost

\* What GitHub merged comes off the list, whatever was read in between: "the
\* alternative is a pull request that merges and is never seen to have merged"
\* (store/pr.go, PRsToPoll).
MergedIsSettled ==
    \A p \in PRs : github[p].state = "merged" ~> todo[p]["merge"] = 0

\* No action is settled on something no answer said: "Absence is not a negative
\* observation" (ghsync/ghsync.go:254), and not a positive one either.
SettledOnEvidence ==
    [][\A p \in PRs, k \in Kinds :
          cycle.pc = "close" /\ todo'[p][k] < todo[p][k] /\ cycle' # cycle
          => row[p] # Unread]_cycleVars

\* The sweeps run "on a cycle where every read failed" (ghsync/ghsync.go:271), so
\* they go on as long as cycles do.
SweepsGoOn == []<>(cycle.pc = "sweep")

\* "The loop is bounded by the number of candidates, since each pass must close at
\* least one to continue" (store/settle.go:33).
SettleEnds == cycle.pc \in {"settle", "close"} ~> cycle.pc \notin {"settle", "close"}
=============================================================================
