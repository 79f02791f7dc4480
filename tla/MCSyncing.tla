---------------------------- MODULE MCSyncing ----------------------------
(* What the sync loop does: its cycle, its pace and the releases it waits for,
   each on a small instance, in one state space: a behaviour is a behaviour of
   one of them, and the other two rest in an initial state. *)
EXTENDS Syncer, ReleaseGates, SyncCycle

VARIABLE part

-----------------------------------------------------------------------------
(* The instances *)

\* Any review and merge of one pull request may be open to begin with; closing a
\* review starts a pipeline with a review in it and an owner's review.
MCKinds == {"review", "merge", "owner"}
MCChain == [k \in MCKinds |-> IF k = "review" THEN {"review", "owner"} ELSE {}]
MCWork  == {w \in [{"p1"} -> [MCKinds -> 0 .. 1]] : w["p1"]["owner"] = 0}

\* A history longer than the pages read, its highest release not the newest.
Tag(s, m, n) == [series |-> s, version |-> [major |-> m, minor |-> n], pre |-> FALSE]
MCHistory  == {<<Tag("api", 3, 0), Tag("top", 2, 0), Tag("top", 1, 1)>>}
MCReleases == {Tag("top", 2, 1), Tag("api", 4, 0), [Tag("top", 3, 0) EXCEPT !.pre = TRUE]}
MCGates    == {[series |-> "top", component |-> "minor", offset |-> 1],
               [series |-> "api", component |-> "major", offset |-> 1]}

ASSUME NoPRAssumption /\ KindsAssumption /\ WorkAssumption /\ CycleAssumption
ASSUME SyncerAssumption
ASSUME SeriesAssumption /\ TagsAssumption /\ GatesAssumption /\ PagesAssumption /\ BoundAssumption

-----------------------------------------------------------------------------
(* One part is on, the others rest *)

SyncingInit ==
    /\ part \in {"sync", "syncer", "gates"}
    /\ CycleInit /\ (part = "sync" \/ todo = Nothing)
    /\ SyncerInit /\ (part = "syncer" \/ resetsIn = 1)
    /\ Init /\ (part = "gates" \/ gate = [a \in Waiters |-> NoGate])

syncingVars == <<part, cycleVars, syncerVars, vars>>

Frozen ==
    /\ UNCHANGED part
    /\ IF part = "sync" THEN TRUE ELSE UNCHANGED cycleVars
    /\ IF part = "syncer" THEN TRUE ELSE UNCHANGED syncerVars
    /\ IF part = "gates" THEN TRUE ELSE UNCHANGED vars

SyncingNext ==
    \/ part = "sync" /\ CycleNext /\ Frozen
    \/ part = "syncer" /\ SyncerNext /\ Frozen
    \/ part = "gates" /\ Next /\ Frozen

\* Each part's own fairness.  A behaviour is of one part, so that to be fair to
\* whichever of these actions it has is to be fair to that part's.
First ==
    \/ part = "sync" /\ Step /\ Frozen
    \/ part = "syncer" /\ TimePasses /\ Frozen
    \/ part = "gates" /\ Sync /\ Frozen

Again ==
    \/ part = "sync" /\ Answered("prs") /\ Frozen
    \/ part = "syncer" /\ CheckSchema(TRUE) /\ Frozen

FairSyncing ==
    /\ SyncingInit /\ [][SyncingNext]_syncingVars
    /\ WF_syncingVars(First) /\ SF_syncingVars(Again)
    /\ WF_syncingVars(part = "syncer" /\ Cycle /\ Frozen)
    /\ WF_syncingVars(part = "syncer" /\ (\E answered \in BOOLEAN : CheckSchema(answered)) /\ Frozen)

-----------------------------------------------------------------------------
(* What is checked of each: SyncerKeepsPace of Syncer, GatesOpen of           *)
(* ReleaseGates, EjectionsAreCounted and SettledOnEvidence of SyncCycle as    *)
(* these state them, and:                                                     *)

\* Whatever was seen to leave the merge queue is logged (store/mergequeue.go:118).
\* A merged pull request's merge comes off the list whatever reads fail, the sweeps
\* run on a cycle where all of them did, and settling ends (ghsync/ghsync.go:178);
\* a release cut after an action began to wait for it ends the wait (ghsync/ghsync.go:370);
\* and the process ends once the schema is not the one it began with
\* (cli/schemaguard.go).
SyncGoesOn ==
    /\ [](/\ SyncerTypeOK
          /\ GateTypeOK)
    /\ part = "sync" => EjectionIsLogged
    /\ part = "sync" => MergedIsSettled
    /\ part = "sync" => SweepsGoOn
    /\ part = "sync" => SettleEnds
    /\ part = "gates" => ReleasesAreSeen
    /\ part = "syncer" => EndsAfterMigration
=============================================================================
