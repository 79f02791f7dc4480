---------------------------- MODULE ActionGraph ----------------------------
(***************************************************************************)
(* The action table of roz and the three edges between its rows: blocks,   *)
(* hidden_behind and "raised about".  Every step below is one SQLite       *)
(* transaction of the program; transactions are serialised, so a step is   *)
(* atomic and what interleaves is whole transactions of several processes  *)
(* (commands, the server's sync loop, an agent).                           *)
(*                                                                         *)
(* Identifiers are abstract here: a new row takes any identifier that      *)
(* never had one.  CloseProtocol allocates them from the sequence table    *)
(* and shows that its closes are closes of this module.                    *)
(***************************************************************************)
EXTENDS Naturals, Sequences, FiniteSets

CONSTANTS
    Actions,     \* identifiers a row may take
    NoAction,    \* NULL in hidden_behind, and "no raised_action row"
    MaxSteps,    \* the longest pipeline instantiated at once
    LastDay      \* the last date the calendar reaches

ASSUME NoActionAssumption == NoAction \notin Actions
ASSUME MaxStepsAssumption == MaxSteps \in Nat
ASSUME LastDayAssumption  == LastDay \in Nat

VARIABLES
    state,          \* action.state, or "none" while there is no row
    closed_reason,  \* action.closed_reason, or "none"
    hidden_behind,  \* action.hidden_behind
    snooze_until,   \* action.snooze_until as a day, NoDate for NULL
    blocks,         \* action_blocks: pairs <<blocker, blocked>>
    raised,         \* raised_action: the action a chase was raised about
    today           \* the store's clock, in days

vars == <<state, closed_reason, hidden_behind, snooze_until, blocks, raised, today>>

NoDate == 0
Dates  == 1 .. LastDay

OpenStates   == {"ready", "blocked", "snoozed"}
ClosedStates == {"done", "dropped"}
Reasons      == {"completed", "superseded", "dropped", "obsolete"}

Rows == {a \in Actions : state[a] # "none"}
Open == {a \in Actions : state[a] \in OpenStates}

----------------------------------------------------------------------------
(* Reading the graph *)

\* Mutant: only the direct edge back is refused.
BlocksDirectly(a, b) == <<a, b>> \in blocks

\* Whether a blocks b, transitively: b is in every set that holds a and is
\* closed under the edges.
ClosedUnderBlocks(S) == \A e \in blocks : e[1] \in S => e[2] \in S
Reaches(a, b) == \A S \in SUBSET Actions : a \in S /\ ClosedUnderBlocks(S) => b \in S

\* Mutants: the cascade finds the ready rows and forgets the deferred ones.
HidingReady(a) == {h \in Open : hidden_behind[h] = a /\ state[h] = "ready"}
ChasesReady(a) == {c \in Open : raised[c] = a /\ state[c] = "ready"}

OpenBlockers(a, open) == {b \in open : <<b, a>> \in blocks}
Dependents(a)         == {d \in Open : <<a, d>> \in blocks}
Hiding(a)             == {h \in Open : hidden_behind[h] = a}
Chases(a)             == {c \in Open : raised[c] = a}

\* Mutant: a close frees its dependents, whatever else blocks them.
BlockedStateFreed(a, open) == IF state[a] = "blocked" THEN "ready" ELSE state[a]

\* What applyBlockedState leaves in a row, given the open rows.
BlockedState(a, open) ==
    IF state[a] \notin {"ready", "blocked"} THEN state[a]
    ELSE IF OpenBlockers(a, open) = {} THEN "ready" ELSE "blocked"

\* Mutant: only completing has a state of its own.
StateNamesReason(r) == IF r = "completed" THEN "done" ELSE r

StateForReason(r) == IF r = "completed" THEN "done" ELSE "dropped"

----------------------------------------------------------------------------
Init ==
    /\ state         = [a \in Actions |-> "none"]
    /\ closed_reason = [a \in Actions |-> "none"]
    /\ hidden_behind = [a \in Actions |-> NoAction]
    /\ snooze_until  = [a \in Actions |-> NoDate]
    /\ blocks        = {}
    /\ raised        = [a \in Actions |-> NoAction]
    /\ today         = 0

(* `action add`, and the merge action a queue ejection creates. *)
Add(a) ==
    /\ a \notin Rows
    /\ state' = [state EXCEPT ![a] = "ready"]
    /\ UNCHANGED <<closed_reason, hidden_behind, snooze_until, blocks, raised, today>>

(* RaiseAction about an action.  The condition was found in an earlier       *)
(* transaction, so s may be in any state by now.                             *)
RaiseChase(c, s) ==
    /\ c \notin Rows
    /\ s \in Rows
    /\ state'  = [state EXCEPT ![c] = "ready"]
    /\ raised' = [raised EXCEPT ![c] = s]
    /\ UNCHANGED <<closed_reason, hidden_behind, snooze_until, blocks, today>>

(* `action add-blocker`. *)
AddBlocker(b, a) ==
    /\ a \in Rows
    /\ b \in Open
    /\ a # b
    /\ ~Reaches(a, b)
    /\ <<b, a>> \notin blocks
    /\ blocks' = blocks \union {<<b, a>>}
    /\ state' = [state EXCEPT ![a] = IF @ = "ready" THEN "blocked" ELSE @]
    /\ UNCHANGED <<closed_reason, hidden_behind, snooze_until, raised, today>>

(* Mutant: an action may hide behind itself. *)
HideBehindAny(a, b) ==
    /\ a \in Rows
    /\ b \in Open
    /\ hidden_behind' = [hidden_behind EXCEPT ![a] = b]
    /\ UNCHANGED <<state, closed_reason, snooze_until, blocks, raised, today>>

(* `action hide-behind`, and its --behind "". *)
HideBehind(a, b) ==
    /\ a \in Rows
    /\ b \in Open
    /\ a # b
    /\ hidden_behind' = [hidden_behind EXCEPT ![a] = b]
    /\ UNCHANGED <<state, closed_reason, snooze_until, blocks, raised, today>>

ComeOut(a) ==
    /\ a \in Rows
    /\ hidden_behind[a] # NoAction
    /\ hidden_behind' = [hidden_behind EXCEPT ![a] = NoAction]
    /\ UNCHANGED <<state, closed_reason, snooze_until, blocks, raised, today>>

(* `action snooze`. *)
Snooze(a, d) ==
    /\ a \in Open
    /\ state' = [state EXCEPT ![a] = "snoozed"]
    /\ snooze_until' = [snooze_until EXCEPT ![a] = d]
    /\ UNCHANGED <<closed_reason, hidden_behind, blocks, raised, today>>

----------------------------------------------------------------------------
(* Pipelines.  instantiateAfter inserts a chain of new steps, each waiting   *)
(* for the one named beside it: an open row, or the step before it.          *)

Chains ==
    {steps \in UNION {[1 .. k -> Actions \ Rows] : k \in 0 .. MaxSteps} :
        \A i, j \in DOMAIN steps : steps[i] = steps[j] => i = j}

NewSteps(steps) == {steps[i] : i \in DOMAIN steps}

InSequence(steps) == [i \in DOMAIN steps |-> IF i = 1 THEN NoAction ELSE steps[i - 1]]

ChainEdges(steps, after) ==
    {<<after[i], steps[i]>> : i \in {j \in DOMAIN steps : after[j] # NoAction}}

Waiting(steps, after) == {steps[i] : i \in {j \in DOMAIN steps : after[j] # NoAction}}

\* One step of an instantiated chain waits for nothing, for an open row, or
\* for the step before it.
MayFollow(steps, after) ==
    \A i \in DOMAIN steps :
        \/ after[i] \in Open \union {NoAction}
        \/ i > 1 /\ after[i] = steps[i - 1]

(* `pr chain --apply`: the steps of the pull request's pipeline that no       *)
(* action stands for yet.                                                     *)
InstantiateChain(steps, after) ==
    /\ steps # <<>>
    /\ MayFollow(steps, after)
    /\ state' = [a \in Actions |->
                    IF a \in Waiting(steps, after) THEN "blocked"
                    ELSE IF a \in NewSteps(steps) THEN "ready" ELSE state[a]]
    /\ blocks' = blocks \union ChainEdges(steps, after)
    /\ UNCHANGED <<closed_reason, hidden_behind, snooze_until, raised, today>>

(* applyClose.  In one transaction: the row is closed, the chain its verb     *)
(* starts is inserted, its dependents are recomputed against what is still    *)
(* open, what hid behind it comes out, and the chases about it are closed     *)
(* as obsolete -- by closeRecord alone, with no cascade of their own.         *)
Close(a, r, steps) ==
    /\ a \in Open
    /\ steps # <<>> => r = "completed"
    /\ state' = [x \in Actions |->
                    IF x = a THEN StateForReason(r)
                    ELSE IF x \in Chases(a) THEN "dropped"
                    ELSE IF x \in Waiting(steps, InSequence(steps)) THEN "blocked"
                    ELSE IF x \in NewSteps(steps) THEN "ready"
                    ELSE IF x \in Dependents(a) THEN BlockedState(x, Open \ {a})
                    ELSE state[x]]
    /\ closed_reason' = [x \in Actions |->
                            IF x = a THEN r
                            ELSE IF x \in Chases(a) THEN "obsolete"
                            ELSE closed_reason[x]]
    /\ hidden_behind' = [x \in Actions |->
                            IF x \in Hiding(a) THEN NoAction ELSE hidden_behind[x]]
    /\ blocks' = blocks \union ChainEdges(steps, InSequence(steps))
    /\ UNCHANGED <<snooze_until, raised, today>>

----------------------------------------------------------------------------
(* The sweeps of a sync cycle *)

(* standDownClearedChases: the chases whose wait, still open, is no longer    *)
(* late.  late was read before the transaction and depends on clocks that are *)
(* not modelled here, so it is any set.                                       *)
StandDownCleared(late) ==
    LET cleared == {c \in Open : raised[c] \in Open \ late}
    IN  /\ cleared # {}
        /\ state' = [c \in Actions |-> IF c \in cleared THEN "dropped" ELSE state[c]]
        /\ closed_reason' =
              [c \in Actions |-> IF c \in cleared THEN "obsolete" ELSE closed_reason[c]]
        /\ raised' = [c \in Actions |-> IF c \in cleared THEN NoAction ELSE raised[c]]
        /\ UNCHANGED <<hidden_behind, snooze_until, blocks, today>>

\* Mutant: what is hidden is not looked at.
ExpiredInSight ==
    {a \in Actions : /\ state[a] = "snoozed" /\ snooze_until[a] <= today
                     /\ hidden_behind[a] = NoAction}

\* Mutant: a date is enough, on a row that is over too.
ExpiredDates == {a \in Actions : snooze_until[a] \in 1 .. today}

Expired == {a \in Actions : state[a] = "snoozed" /\ snooze_until[a] <= today}

(* Mutant: a deferral ends in ready, whatever still blocks the action. *)
WakeExpiredReady ==
    /\ Expired # {}
    /\ state' = [a \in Actions |-> IF a \in Expired THEN "ready" ELSE state[a]]
    /\ snooze_until' = [a \in Actions |-> IF a \in Expired THEN NoDate ELSE snooze_until[a]]
    /\ UNCHANGED <<closed_reason, hidden_behind, blocks, raised, today>>

(* WakeExpired: every deferral whose date has come ends, into the state its   *)
(* blockers leave it in.                                                      *)
WakeExpired ==
    /\ Expired # {}
    /\ state' = [a \in Actions |->
                    IF a \notin Expired THEN state[a]
                    ELSE IF OpenBlockers(a, Open) = {} THEN "ready" ELSE "blocked"]
    /\ snooze_until' = [a \in Actions |-> IF a \in Expired THEN NoDate ELSE snooze_until[a]]
    /\ UNCHANGED <<closed_reason, hidden_behind, blocks, raised, today>>

Tick ==
    /\ today < LastDay
    /\ today' = today + 1
    /\ UNCHANGED <<state, closed_reason, hidden_behind, snooze_until, blocks, raised>>

----------------------------------------------------------------------------
(* States written by hand, past applyBlockedState *)

\* Mutant: only the snooze date is checked.
ConsistentDate(s, d, closed) == (s = "snoozed") <=> (d # NoDate)

\* checkActionConsistency, over a row that is being inserted or updated.
Consistent(s, d, closed) ==
    /\ (s = "snoozed") <=> (d # NoDate)
    /\ (s \in ClosedStates) <=> closed

(* `action add --status`. *)
AddAs(a, s, d) ==
    /\ a \notin Rows
    /\ Consistent(s, d, FALSE)
    /\ state' = [state EXCEPT ![a] = s]
    /\ snooze_until' = [snooze_until EXCEPT ![a] = d]
    /\ UNCHANGED <<closed_reason, hidden_behind, blocks, raised, today>>

(* `action set --status --snooze-until`. *)
SetState(a, s, d) ==
    /\ a \in Rows
    /\ Consistent(s, d, a \notin Open)
    /\ state' = [state EXCEPT ![a] = s]
    /\ snooze_until' = [snooze_until EXCEPT ![a] = d]
    /\ UNCHANGED <<closed_reason, hidden_behind, blocks, raised, today>>

(* `action wake --status`. *)
Wake(a, s) ==
    /\ state[a] = "snoozed"
    /\ state' = [state EXCEPT ![a] = s]
    /\ snooze_until' = [snooze_until EXCEPT ![a] = NoDate]
    /\ UNCHANGED <<closed_reason, hidden_behind, blocks, raised, today>>

----------------------------------------------------------------------------
\* Every transaction but the ones that write a state by hand.
Maintain ==
    \/ \E a \in Actions : Add(a) \/ ComeOut(a)
    \/ \E a, b \in Actions : RaiseChase(a, b) \/ AddBlocker(a, b) \/ HideBehind(a, b)
    \/ \E a \in Actions, d \in Dates : Snooze(a, d)
    \/ \E steps \in Chains :
          \/ \E after \in [DOMAIN steps -> Actions \union {NoAction}] :
                InstantiateChain(steps, after)
          \/ \E a \in Actions, r \in Reasons : Close(a, r, steps)
    \/ \E late \in SUBSET Actions : StandDownCleared(late)
    \/ WakeExpired
    \/ Tick

ByHand ==
    \E a \in Actions :
        \/ \E s \in OpenStates \union ClosedStates, d \in Dates \union {NoDate} :
              AddAs(a, s, d) \/ SetState(a, s, d)
        \/ \E s \in {"ready", "blocked"} : Wake(a, s)

Next == Maintain \/ ByHand

Spec           == Init /\ [][Next]_vars
MaintainedSpec == Init /\ [][Maintain]_vars

\* The clock moves, and the sync loop keeps sweeping.
FairSpec == Spec /\ WF_vars(Tick) /\ WF_vars(WakeExpired)

----------------------------------------------------------------------------
TypeOK ==
    /\ state \in [Actions -> OpenStates \union ClosedStates \union {"none"}]
    /\ closed_reason \in [Actions -> Reasons \union {"none"}]
    /\ hidden_behind \in [Actions -> Actions \union {NoAction}]
    /\ snooze_until \in [Actions -> Dates \union {NoDate}]
    /\ blocks \in SUBSET (Actions \X Actions)
    /\ raised \in [Actions -> Actions \union {NoAction}]
    /\ today \in 0 .. LastDay

\* No set of actions each of which waits for another of the set: AddBlocker
\* refuses the edge that would close a cycle ("the pair would never unblock",
\* store/edge.go:38), and a pipeline is inserted as a chain.
BlocksAcyclic ==
    \A S \in SUBSET Actions :
        S # {} => \E x \in S : \A y \in S : <<x, y>> \notin blocks

\* A pipeline's steps, a chase and every edge are about rows that exist.
EdgesBetweenRows ==
    /\ blocks \subseteq Rows \X Rows
    /\ \A a \in Actions : hidden_behind[a] # NoAction =>
          a \in Rows /\ hidden_behind[a] \in Rows /\ hidden_behind[a] # a
    /\ \A c \in Actions : raised[c] # NoAction =>
          c \in Rows /\ raised[c] \in Rows /\ raised[c] # c

\* What is hidden has something to come out for: an open action hides behind
\* an open one.  unhide is what keeps it so when the one in front closes; the
\* one exception is a row closed as obsolete, since a chase that is stood down
\* closes without unhiding.
HiddenBehindSomething ==
    \A a \in Open : hidden_behind[a] # NoAction =>
        \/ hidden_behind[a] \in Open
        \/ closed_reason[hidden_behind[a]] = "obsolete"

\* Without states written by hand, applyBlockedState keeps the column equal to
\* the graph: a ready action has no open blocker, and a blocked one has a
\* blocker that is open, or was stood down as obsolete without freeing it.
BlockedMatchesGraph ==
    \A a \in Actions :
        /\ state[a] = "ready" => OpenBlockers(a, Open) = {}
        /\ state[a] = "blocked" =>
              \E b \in Actions : /\ <<b, a>> \in blocks
                                 /\ b \in Open \/ closed_reason[b] = "obsolete"

\* Nothing but a state written by hand breaks that agreement: where the states
\* match the graph, every other transaction leaves them matching.
MaintainKeepsStates ==
    [][BlockedMatchesGraph /\ ~BlockedMatchesGraph' => ~Maintain]_vars

\* Closing happens once: whatever closes an action -- a person, a predicate, a
\* chase standing down -- no later step reopens it or rewrites why.
ClosedForGood ==
    [][\A a \in Rows \ Open :
          a \in Rows' \ Open' /\ closed_reason'[a] = closed_reason[a]]_vars

\* An action that closes takes every open chase about it along, in the same
\* step (store/close.go:385).  A chase that is itself chased is the exception:
\* standing it down has no cascade.
ClosingStandsDown ==
    [][\A a \in Open \ Open' :
          raised[a] = NoAction => \A c \in Open' : raised'[c] # a]_vars

\* A snooze ends: once its date has come the sync loop wakes the action, however
\* it is hidden or blocked meanwhile, unless the date is put off.
DeferralEnds ==
    \A a \in Actions :
        state[a] = "snoozed" /\ snooze_until[a] <= today
            ~> state[a] # "snoozed" \/ snooze_until[a] > today

----------------------------------------------------------------------------
(* What the source says, and its steps do not keep *)

\* "An action is blocked exactly while it has an open blocker -- applyBlockedState
\* maintains that on every edge change and every close" (store/unannounced.go:48).
BlockedHasOpenBlocker ==
    \A a \in Actions : state[a] = "blocked" => OpenBlockers(a, Open) # {}
=============================================================================
