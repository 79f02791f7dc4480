---------------------------- MODULE ProjectClose ----------------------------
(***************************************************************************)
(* What closing a project does to the action table.  CloseProject closes   *)
(* the row of ProjectGraph and, in the same transaction, drops every open  *)
(* action of the project, one after the other and each with a cascade of   *)
(* its own, working from records that were all read before the first of    *)
(* them was dropped.  Of the project table only which projects are over    *)
(* matters here.                                                           *)
(***************************************************************************)
EXTENDS ActionGraph, SequencesExt

CONSTANTS
    Projects,   \* project rows
    NoProject   \* NULL in action.project_id

ASSUME NoProjectAssumption == NoProject \notin Projects

VARIABLES
    project,    \* action.project_id
    over        \* the projects that are done, retired or superseded

closeVars == <<vars, project, over>>

ProjectInit ==
    /\ Init
    /\ project = [a \in Actions |-> NoProject]
    /\ over = {}

----------------------------------------------------------------------------
(* The cascade of one dropped action, over the action table t.              *)

OpenIn(t) == {a \in Actions : t.state[a] \in OpenStates}

Released(t, a)  == {x \in OpenIn(t) \ {a} : <<a, x>> \in blocks}
Shown(t, a)     == {x \in OpenIn(t) \ {a} : t.hidden_behind[x] = a}
StoodDown(t, a) == {x \in OpenIn(t) \ {a} : raised[x] = a}

\* applyBlockedState, for an action that waited on a.
Reevaluated(t, x, a) ==
    IF t.state[x] = "snoozed" THEN "snoozed"
    ELSE IF OpenBlockers(x, OpenIn(t) \ {a}) = {} THEN "ready" ELSE "blocked"

\* closeRecord, freeDependents, unhide and standDownChases, in that order: the
\* dependents are re-evaluated while the chases are still open.
Drop(t, a) ==
    LET gone == {a} \union StoodDown(t, a)
    IN  [state |-> [x \in Actions |->
            IF x \in gone THEN "dropped"
            ELSE IF x \in Released(t, a) THEN Reevaluated(t, x, a)
            ELSE t.state[x]],
         closed_reason |-> [x \in Actions |->
            IF x \in gone THEN "obsolete" ELSE t.closed_reason[x]],
         hidden_behind |-> [x \in Actions |->
            IF x \in Shown(t, a) THEN NoAction ELSE t.hidden_behind[x]]]

\* Mutant: an action hidden behind another is not found.
OpenActionsInSight(p) == {a \in Open : project[a] = p /\ hidden_behind[a] = NoAction}

OpenActions(p) == {a \in Open : project[a] = p}

(* CloseProject.  order is the actions' order by number. *)
CloseProject(p, order) ==
    LET table == [state |-> state, closed_reason |-> closed_reason,
                  hidden_behind |-> hidden_behind]
        after == FoldLeft(Drop, table, order)
    IN  /\ p \notin over
        /\ over' = over \union {p}
        /\ state' = after.state
        /\ closed_reason' = after.closed_reason
        /\ hidden_behind' = after.hidden_behind
        /\ UNCHANGED <<snooze_until, blocks, raised, today, project>>

(* `action set --project`, or the --project of an `action add`: the project   *)
(* has to exist, and may be over.                                             *)
SetProject(a, p) ==
    /\ a \in Rows
    /\ project' = [project EXCEPT ![a] = p]
    /\ UNCHANGED <<vars, over>>

\* Any other write to the action table leaves the projects alone.
ActionStep == Maintain /\ UNCHANGED <<project, over>>

ProjectStep ==
    \/ \E p \in Projects : \E order \in SetToSeqs(OpenActions(p)) : CloseProject(p, order)
    \/ \E a \in Actions, p \in Projects \union {NoProject} : SetProject(a, p)

ProjectSpec == ProjectInit /\ [][ActionStep \/ ProjectStep]_closeVars

----------------------------------------------------------------------------
\* Closing a project closes its open actions, hidden and blocked ones
\* alike, and the chases about them, and not one action more: "an action
\* outliving its project sits in `action list --unblocked`" (store/close.go:506).
ClosesItsOwn ==
    [][\A p \in over' \ over :
          LET own == {a \in Open : project[a] = p}
          IN  Open \ Open' = own \union {c \in Open : raised[c] \in own}]_closeVars

\* "Their cascades still run, so an action blocked behind one of these is
\* released rather than left waiting on something that will never move"
\* (store/close.go:573), and nothing stays hidden behind one.  A chase is the
\* exception that closing has everywhere: standing it down releases nothing.
ReleasesWhatWaited ==
    \A d \in Open' : \A a \in Open \ Open' :
        <<a, d>> \in blocks /\ raised[a] \notin Open \ Open' /\ state'[d] = "blocked"
           => \E b \in Actions : /\ <<b, d>> \in blocks
                                 /\ b \in Open' \/ raised[b] \in Open \ Open'

ShowsWhatWasHidden ==
    \A h \in Open' : hidden_behind'[h] \in Open \ Open' =>
        raised[hidden_behind'[h]] \in Open \ Open'

LeavesNobodyBehind ==
    [][over' # over => ReleasesWhatWaited /\ ShowsWhatWasHidden]_closeVars

\* Both at once, in whatever order the actions were created (store/close.go,
\* CloseProject).
ClosesCleanly == ClosesItsOwn /\ LeavesNobodyBehind
=============================================================================
