---------------------------- MODULE MCUpkeep ----------------------------
(* What the program keeps up by itself: its database, the dates it wakes
   actions on and the waits it chases, and the loops of its pattern matcher,
   each on a small instance, in one state space: a behaviour is a behaviour
   of one of them, and the others rest in an initial state. *)
EXTENDS Integers, Sequences, FiniteSets, Database

CONSTANTS NoAction, NoWait \* of ActionGraph and Overdue

VARIABLES
    part,
    search, glob,                                                              \* Patterns
    state, closed_reason, hidden_behind, snooze_until, blocks, raised, today,  \* ActionGraph
    day, waitState, hidden, waitUntil, clock, okay, reported, chases, recorded, sweep \* Overdue

-----------------------------------------------------------------------------
(* The instances *)

M == INSTANCE Patterns WITH
        SegmentNames <- {"a", "b"}, MaxSegments <- 3, Letters <- {"x", "y"}, MaxLetters <- 3

\* Two actions, steps of one, and three days.
A == INSTANCE ActionGraph WITH Actions <- {"a1", "a2"}, MaxSteps <- 1, LastDay <- 2

\* Waits that are announced, put off and closed, and a sweep that is not cut short.
O == INSTANCE Overdue WITH
        today <- day, state <- waitState, snooze_until <- waitUntil,
        Waits <- {"w1", "w2"}, InQueue <- {"w2"}, Allowance <- 1, LastDay <- 4,
        Sweepers <- {"s1"}, MayDefer <- FALSE, MayStop <- FALSE

ASSUME DatabaseAssumption
ASSUME M!PatternsAssumption
ASSUME O!OverdueAssumption

-----------------------------------------------------------------------------
(* One part is on, the others rest *)

UpkeepInit ==
    /\ part \in {"database", "patterns", "wakes", "overdue"}
    /\ DatabaseInit /\ (part = "database" \/ db = Missing)
    /\ IF part = "patterns" THEN M!PatternsInit ELSE search = M!NoSearch /\ glob = M!NoGlob
    /\ A!Init
    /\ O!Init

ofPatterns == <<search, glob>>
ofWakes    == <<state, closed_reason, hidden_behind, snooze_until, blocks, raised, today>>
ofOverdue  == <<day, waitState, hidden, waitUntil, clock, okay, reported, chases, recorded, sweep>>
upkeepVars == <<part, dbVars, ofPatterns, ofWakes, ofOverdue>>

Frozen ==
    /\ UNCHANGED part
    /\ IF part = "database" THEN TRUE ELSE UNCHANGED dbVars
    /\ IF part = "patterns" THEN TRUE ELSE UNCHANGED ofPatterns
    /\ IF part = "wakes" THEN TRUE ELSE UNCHANGED ofWakes
    /\ IF part = "overdue" THEN TRUE ELSE UNCHANGED ofOverdue

UpkeepNext ==
    \/ part = "database" /\ DatabaseNext /\ Frozen
    \/ part = "patterns" /\ M!PatternsNext /\ Frozen
    \/ part = "wakes" /\ A!Next /\ Frozen
    \/ part = "overdue" /\ O!Next /\ Frozen

\* Each part's own fairness.  A behaviour is of one part, so that to be fair to
\* whichever of these actions it has is to be fair to that part's.
GoesOn(p) == InitStep(p) \/ RestoreStep(p) \/ LoadPrefixes(p) \/ Leave(p)

First ==
    \/ part = "database" /\ GoesOn("p1") /\ Frozen
    \/ part = "patterns" /\ M!PatternsNext /\ Frozen
    \/ part = "wakes" /\ A!Tick /\ Frozen
    \/ part = "overdue" /\ O!Tick /\ Frozen

Second ==
    \/ part = "database" /\ GoesOn("p2") /\ Frozen
    \/ part = "wakes" /\ A!WakeExpired /\ Frozen
    \/ part = "overdue" /\ O!WakeExpired /\ Frozen

FairUpkeep ==
    /\ UpkeepInit /\ [][UpkeepNext]_upkeepVars
    /\ WF_upkeepVars(First) /\ WF_upkeepVars(Second)
    /\ WF_upkeepVars(part = "overdue" /\ O!SweepStep("s1") /\ Frozen)
    /\ SF_upkeepVars(part = "database" /\ BeginInit("p1", Newest) /\ Frozen)
    /\ SF_upkeepVars(part = "database" /\ BeginInit("p2", Newest) /\ Frozen)

-----------------------------------------------------------------------------
(* What is checked of each: DatabaseIsWhole of Database as it states it, and: *)

\* The search over starts and the backtracking loop answer what the pattern says,
\* and end (codeowners/pattern.go).
PatternsMatch ==
    /\ [](/\ M!PatternsTypeOK
          /\ M!CoversAsWritten
          /\ M!GlobIsRight)
    /\ part = "patterns" => M!GlobEnds

\* A snooze whose date has come ends, in the state the open blockers say, and a wait
\* that is late is chased: the sweeps come round to what is due on any later day
\* (store/wake.go, store/overdue.go); and init run again completes what a kill cut
\* short (store/migrate.go).
WhatIsDueIsSwept ==
    /\ [](DatabaseTypeOK /\ O!OneChasePerWait /\ O!ChasesRecorded)
    /\ A!MaintainKeepsStates
    /\ part = "wakes" => A!DeferralEnds
    /\ part = "overdue" => O!LateWaitIsChased
    /\ part = "database" => InitCompletes
=============================================================================
