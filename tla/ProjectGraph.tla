---------------------------- MODULE ProjectGraph ----------------------------
(***************************************************************************)
(* The project table of roz: the statuses of projects, the edges by which  *)
(* one waits for another, and the tree of which is part of which.  A step  *)
(* is one transaction of a `roz project` command or of the sync loop.      *)
(*                                                                         *)
(* Unlike an action, a project has commands that move its status without   *)
(* re-evaluating what waits on it; they are grouped under PastTheGraph.    *)
(* superseded_by, the issues and the texts decide nothing here and are     *)
(* left out.                                                               *)
(***************************************************************************)
EXTENDS Naturals, FiniteSets

CONSTANTS
    Projects,   \* identifiers a row may take
    NoProject,  \* NULL in parent_id
    LastDay     \* the last date the calendar reaches

ASSUME NoProjectAssumption == NoProject \notin Projects
ASSUME LastDayAssumption   == LastDay \in Nat

VARIABLES
    status,        \* project.status, or "none" while there is no row
    snooze_until,  \* project.snooze_until as a day, NoDate for NULL
    parent,        \* project.parent_id
    blocks,        \* project_blocks: pairs <<blocker, blocked>>
    today          \* the store's clock, in days

vars == <<status, snooze_until, parent, blocks, today>>

NoDate == 0
Dates  == 1 .. LastDay

OpenStatuses     == {"active", "blocked", "snoozed"}
TerminalStatuses == {"done", "retired", "superseded"}

Rows == {p \in Projects : status[p] # "none"}
Open == {p \in Projects : status[p] \in OpenStatuses}

----------------------------------------------------------------------------
(* Reading the two graphs *)

\* Mutants: the walk stops at a closed project; only the direct parent is looked at.
ProjectBlocksOpen(p, q) ==
    \A S \in SUBSET Projects :
        p \in S /\ (\A e \in blocks : e[1] \in S \cap Open => e[2] \in S) => q \in S
IsParent(p, q) == p = q \/ parent[q] = p

\* Whether p blocks q, directly or through others, closed ones included: q is
\* in every set that holds p and is closed under the edges.
ClosedUnderBlocks(S) == \A e \in blocks : e[1] \in S => e[2] \in S
ProjectBlocks(p, q) == \A S \in SUBSET Projects : p \in S /\ ClosedUnderBlocks(S) => q \in S

\* Whether p is q or above it in the tree.
ClosedUnderParent(S) == \A x \in S : parent[x] # NoProject => parent[x] \in S
IsAncestry(p, q) == \A S \in SUBSET Projects : q \in S /\ ClosedUnderParent(S) => p \in S

OpenProjectBlockers(p, open) == {b \in open : <<b, p>> \in blocks}

\* Mutants: the word actions use; nothing is freed; only the snoozed are spared.
StatusReady(p, edges, open) ==
    IF status[p] \notin {"active", "blocked"} THEN status[p]
    ELSE IF \E b \in open : <<b, p>> \in edges THEN "blocked" ELSE "ready"
StatusKept(p, edges, open) == status[p]
StatusReopened(p, edges, open) ==
    IF status[p] = "snoozed" THEN status[p]
    ELSE IF \E b \in open : <<b, p>> \in edges THEN "blocked" ELSE "active"

\* What applyProjectBlockedState leaves in a row, given the edges and the open
\* rows.
BlockedStatus(p, edges, open) ==
    IF status[p] \notin {"active", "blocked"} THEN status[p]
    ELSE IF \E b \in open : <<b, p>> \in edges THEN "blocked" ELSE "active"

----------------------------------------------------------------------------
Init ==
    /\ status       = [p \in Projects |-> "none"]
    /\ snooze_until = [p \in Projects |-> NoDate]
    /\ parent       = [p \in Projects |-> NoProject]
    /\ blocks       = {}
    /\ today        = 0

(* `project add`, with --parent and without --status. *)
Add(p, up) ==
    /\ p \notin Rows
    /\ up \in Rows \union {NoProject}
    /\ status' = [status EXCEPT ![p] = "active"]
    /\ parent' = [parent EXCEPT ![p] = up]
    /\ UNCHANGED <<snooze_until, blocks, today>>

(* `project set --parent`, and its --parent "". *)
SetParent(p, up) ==
    /\ p \in Rows
    /\ up = NoProject \/ (up \in Rows /\ ~IsAncestry(p, up))
    /\ parent' = [parent EXCEPT ![p] = up]
    /\ UNCHANGED <<status, snooze_until, blocks, today>>

(* `project block`. *)
BlockProject(b, p) ==
    /\ p \in Rows
    /\ b \in Open
    /\ b # p
    /\ ~ProjectBlocks(p, b)
    /\ <<b, p>> \notin blocks
    /\ blocks' = blocks \union {<<b, p>>}
    /\ status' = [status EXCEPT ![p] = BlockedStatus(p, blocks', Open)]
    /\ UNCHANGED <<snooze_until, parent, today>>

(* `project unblock`. *)
UnblockProject(b, p) ==
    /\ <<b, p>> \in blocks
    /\ blocks' = blocks \ {<<b, p>>}
    /\ status' = [status EXCEPT ![p] = BlockedStatus(p, blocks', Open)]
    /\ UNCHANGED <<snooze_until, parent, today>>

(* CloseProject, the project's half of it: the row closes, its date goes, and *)
(* the open projects that waited on it are re-evaluated.                      *)
CloseProject(p, s) ==
    /\ p \in Open
    /\ s \in {"done", "retired"}
    /\ status' = [q \in Projects |->
                     IF q = p THEN s
                     ELSE IF <<p, q>> \in blocks THEN BlockedStatus(q, blocks, Open \ {p})
                     ELSE status[q]]
    /\ snooze_until' = [snooze_until EXCEPT ![p] = NoDate]
    /\ UNCHANGED <<parent, blocks, today>>

(* `project snooze`, of a project that is open. *)
Snooze(p, d) ==
    /\ p \in Open
    /\ status' = [status EXCEPT ![p] = "snoozed"]
    /\ snooze_until' = [snooze_until EXCEPT ![p] = d]
    /\ UNCHANGED <<parent, blocks, today>>

Expired == {p \in Projects : status[p] = "snoozed" /\ snooze_until[p] <= today}

(* WakeExpired, the projects' half of it. *)
WakeExpired ==
    /\ Expired # {}
    /\ status' = [p \in Projects |->
                     IF p \notin Expired THEN status[p]
                     ELSE IF OpenProjectBlockers(p, Open) = {} THEN "active" ELSE "blocked"]
    /\ snooze_until' = [p \in Projects |-> IF p \in Expired THEN NoDate ELSE snooze_until[p]]
    /\ UNCHANGED <<parent, blocks, today>>

Tick ==
    /\ today < LastDay
    /\ today' = today + 1
    /\ UNCHANGED <<status, snooze_until, parent, blocks>>

----------------------------------------------------------------------------
(* Commands that write a column past the code that keeps the graphs *)

\* The schema's CHECK, which checkSnoozeConsistency repeats.
Consistent(s, d) == (s = "snoozed") <=> (d # NoDate)

(* `project add --status --snooze-until --parent`. *)
AddAs(p, s, d, up) ==
    /\ p \notin Rows
    /\ up \in Rows \union {NoProject}
    /\ Consistent(s, d)
    /\ status' = [status EXCEPT ![p] = s]
    /\ snooze_until' = [snooze_until EXCEPT ![p] = d]
    /\ parent' = [parent EXCEPT ![p] = up]
    /\ UNCHANGED <<blocks, today>>

(* `project set --status --snooze-until`, to any status from any. *)
SetStatus(p, s, d) ==
    /\ p \in Rows
    /\ Consistent(s, d)
    /\ status' = [status EXCEPT ![p] = s]
    /\ snooze_until' = [snooze_until EXCEPT ![p] = d]
    /\ UNCHANGED <<parent, blocks, today>>

(* `project snooze` of a project that is over: nothing refuses it. *)
SnoozeClosed(p, d) ==
    /\ p \in Rows \ Open
    /\ status' = [status EXCEPT ![p] = "snoozed"]
    /\ snooze_until' = [snooze_until EXCEPT ![p] = d]
    /\ UNCHANGED <<parent, blocks, today>>

(* `project wake --status`. *)
Wake(p, s) ==
    /\ status[p] = "snoozed"
    /\ s # "snoozed"
    /\ status' = [status EXCEPT ![p] = s]
    /\ snooze_until' = [snooze_until EXCEPT ![p] = NoDate]
    /\ UNCHANGED <<parent, blocks, today>>

(* `project supersede`.  The date stays, so the CHECK refuses a snoozed one.  *)
Supersede(p, into) ==
    /\ p \in Rows
    /\ into \in Rows \ {p}
    /\ Consistent("superseded", snooze_until[p])
    /\ status' = [status EXCEPT ![p] = "superseded"]
    /\ UNCHANGED <<snooze_until, parent, blocks, today>>

(* `project set --json` with a parent_id: only the row's own CHECK and the    *)
(* foreign key look at it.                                                    *)
SetParentJSON(p, up) ==
    /\ p \in Rows
    /\ up \in Rows \ {p}
    /\ parent' = [parent EXCEPT ![p] = up]
    /\ UNCHANGED <<status, snooze_until, blocks, today>>

----------------------------------------------------------------------------
Maintain ==
    \/ \E p \in Projects, up \in Projects \union {NoProject} : Add(p, up) \/ SetParent(p, up)
    \/ \E p, q \in Projects : BlockProject(q, p) \/ UnblockProject(q, p)
    \/ \E p \in Projects : CloseProject(p, "done") \/ CloseProject(p, "retired")
    \/ \E p \in Projects, d \in Dates : Snooze(p, d)
    \/ WakeExpired
    \/ Tick

PastTheGraph ==
    \E p \in Projects :
        \/ \E s \in OpenStatuses \union TerminalStatuses :
              \/ \E d \in Dates \union {NoDate} :
                    \/ SetStatus(p, s, d)
                    \/ \E up \in Projects \union {NoProject} : AddAs(p, s, d, up)
              \/ Wake(p, s)
        \/ \E d \in Dates : SnoozeClosed(p, d)
        \/ \E q \in Projects : Supersede(p, q)

Next == Maintain \/ PastTheGraph \/ \E p, up \in Projects : SetParentJSON(p, up)

Spec == Init /\ [][Next]_vars

----------------------------------------------------------------------------
TypeOK ==
    /\ status \in [Projects -> OpenStatuses \union TerminalStatuses \union {"none"}]
    /\ snooze_until \in [Projects -> Dates \union {NoDate}]
    /\ parent \in [Projects -> Projects \union {NoProject}]
    /\ blocks \in SUBSET (Projects \X Projects)
    /\ today \in 0 .. LastDay

\* No set of projects each of which waits for another of the set, whatever was
\* closed, reopened, blocked and unblocked: BlockProject follows closed
\* projects too, since "a cycle through a closed project is still a cycle"
\* (store/projectedge.go:131).
BlocksAcyclic ==
    \A S \in SUBSET Projects :
        S # {} => \E p \in S : \A q \in S : <<p, q>> \notin blocks

\* An edge of project_blocks is between two rows.
EdgesBetweenRows == blocks \subseteq Rows \X Rows

\* Nothing names a project without a row as its parent.
ParentsAreRows ==
    \A p \in Projects : parent[p] # NoProject => p \in Rows /\ parent[p] \in Rows

\* The tree has a root above every project.
ParentsAcyclic ==
    \A S \in SUBSET Projects :
        S # {} => \E p \in S : parent[p] \notin S

\* Only a parent_id written as JSON closes a loop in the tree: CheckParent walks
\* the whole ancestry, and a project being added has nothing below it.
OnlyJSONClosesALoop ==
    [][ParentsAcyclic /\ ~ParentsAcyclic' => ~(Maintain \/ PastTheGraph)]_vars

\* applyProjectBlockedState keeps the status equal to the graph: an active
\* project waits on nothing that is open, and a blocked one on something.
StatusMatchesGraph ==
    \A p \in Projects :
        /\ status[p] = "active"  => OpenProjectBlockers(p, Open) = {}
        /\ status[p] = "blocked" => OpenProjectBlockers(p, Open) # {}

\* Adding, blocking, unblocking, closing, snoozing and waking leave the statuses
\* matching the graph where they matched it; only the commands that move a status
\* past applyProjectBlockedState break the agreement, superseding a project
\* among them.
MaintainKeepsStatuses ==
    [][StatusMatchesGraph /\ ~StatusMatchesGraph' => ~Maintain]_vars

\* A project that is over stays over unless a command says otherwise by name: no
\* edge, no cascade and no sweep brings one back ("a closed project's status is
\* history", store/projectedge.go:88).
OverUntilSaidOtherwise ==
    [][(\E p \in Rows \ Open : status'[p] # status[p]) => ~Maintain]_vars
=============================================================================
